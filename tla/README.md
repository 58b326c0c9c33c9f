# A TLA+ model of the loyalty service "Gophermart"

The repository is a Go service (gin, pgx, fx) in front of PostgreSQL: users
register, upload order numbers, earn points for the orders that an external
accrual system approves, and spend the points. These modules model what its
code does between two statements of SQL, where requests, the background worker,
failures and restarts meet; TLC checks them on small instances and TLAPS proves
the main properties for every instance. The service is modelled part by part,
then as one process over one set of tables, and apart from that by its start, its
connections, its migrations and its stop.

    tlc -config OrderWorker.cfg MCOrderWorker      # any run of the table below
    tlapm OrderWorkerProofs.tla                           # any *Proofs module

## 1. The system

| Part | State it keeps | Operations |
|---|---|---|
| `internal/worker/order.go` | locals of one goroutine | every 5 s: fetch NEW orders, ask the accrual system about each, store status, reward, balance |
| `internal/client/accrual` | none | one GET per order, 5 s timeout |
| accrual system (`cmd/accrual`, binaries) | status and amount of each order | external |
| `internal/service/balance.go`, `handler/balance.go` | locals of a request | GET balance, POST withdraw, GET withdrawals |
| `internal/service/order.go`, `handler/order.go` | locals of a request | POST orders, GET orders |
| `internal/service/auth.go`, `handler/auth.go` | locals of a request | POST register, POST login |
| `internal/middleware/auth.go`, `utils/jwt.go` | none, tokens are signed | check the cookie, name the user |
| `internal/utils/luhn.go` | none | check of order numbers |
| `internal/repository` | tables `users`, `orders`, `withdrawals` | one SQL statement per method |
| `migrations`, `cmd/migrator`, `internal/database` | schema, its version, connection pool (25) | migrate up and down, connect, close |
| `cmd/gophermart`, `router` | the hooks that have started | start and stop in the order of the hooks |
| `handler/health.go` | none | one statement that holds a connection |
| `config`, `logger` | none | read at the start |

Interactions. All parts share the three tables and the connections to them, and
nothing else. A request runs
in a goroutine of its own, so the statements of different requests interleave
freely; no service call holds a transaction over two statements. The only
transaction is the worker's, which stores an order's PROCESSED status and the
user's new balance. `users.balance` only grows: withdrawals are rows of their own,
and the balance shown is `users.balance - SUM(withdrawals.sum)`.

What is hard here: checks and writes in separate statements (withdrawals,
uploads, registrations); a copy of a row written back in full after an HTTP
call; a read outside the transaction that writes what was computed from it; a
process that stops at any statement; answers of the database and of the accrual
system that are lost or come too early; lists cut short by a connection that breaks;
unsigned amounts and floating point conversions; a worker that takes a second
connection inside its transaction and is not waited for at the stop; migrations by
several processes that fail half way. `PROJECT.json` lists each place with its line under "hazards".

What makes it correct: an order is paid once, to its owner, with the amount
announced, together with its status; no order is forgotten; nobody spends more
than he was credited; a number belongs to one user; a login belongs to one
account; what a client was told is true and stays so; nobody begins with a schema that is
not ready; the pool neither leaks nor locks up, and a stop ends.

## 2. The modules

| Module | Models | Builds on |
|---|---|---|
| `Money` | conversions between decimals and kopecks | |
| `Luhn` | the check of order numbers | |
| `Ledger` | abstract: claim a number, refuse it or pay it once | |
| `Points` | abstract: the ledger, and spending what it paid | `Ledger` |
| `OrderWorker` | the worker, statement by statement; implements `Ledger` | `Money`, `Ledger` |
| `OrderService` | POST orders, GET orders | |
| `BalanceService` | GET balance, POST withdraw, GET withdrawals | `Money` |
| `AuthService` | POST register, POST login, the auth middleware | |
| `Gophermart` | the three before `AuthService`, over one set of tables; implements `Points` | `OrderWorker`, `OrderService`, `BalanceService`, `Points` |
| `Migrations` | autoMigrate and cmd/migrator, script by script | |
| `ConnPool` | the pool and those who hold its connections | |
| `Lifecycle` | start, service and stop of the process, next to cmd/migrator | `Migrations`, `ConnPool` |
| `MC...` | the instances TLC checks, with what only TLC can evaluate | the module named |
| `CommonLemmas` | sums over finite sets, powers of two, quotients: lemmas the proofs share | `Money` |
| `...Proofs` | theorems and their proofs (`InputProofs`: of `MCInput`) | the module named |

Conventions. One action per statement that reaches the database, named after
the repository method (`TxUpdateOrder`, `GetUserByUsername`); what the goroutine does
between two statements reads only its own locals and belongs to the action.
`pc` is the statement at hand. `Fail` is any statement returning an error, with the error
path that follows; a statement that was stored although its answer was
lost is modelled where it makes a difference (`CreateWithdrawal`, `CreateOrder`,
`CreateUser` may end in "failed"); for the worker it does not, see below.
`Restart`, or `Stop` and `Start`, is a crash as well as an orderly stop: the tables
survive, the locals do not. A definition named `Action_Bug` is a faulty variant of
`Action` that no specification uses; it documents which bug a property notices.

**Money.** `uint(x * 100)` (worker/order.go:128, 143; handler/balance.go:106)
rounds a decimal to a double, rounds the product to a double, then truncates. TLC
has 32-bit integers, so the loss is computed from residues modulo 100 (`DropsKopeck`),
and `MCMoney` carries floating point out on integers (`ReferenceConvert`): scale, rounded
mantissa, rounded product, truncation. That the two agree is checked by `input_conversion`
for a mantissa of 20 bits and proved for the 53 of a double (section 4). Amounts are
thousandths, to have fractions of a kopeck. The closed form has two limits, both named in
`Money`: amounts below `ModelledBelow`, for a double 1000 * 2^42 thousandths or 4.4 * 10^12
points, above which the spacing of doubles comes near the fraction of a kopeck; and
widths (`ModelledWidth`) for which a power of two whose hundredth is stored just below it is
no exception -- 53 and 20 are such, 12 is not: it loses the kopeck of 0.01. Larger amounts, up to those whose product leaves
`uint`, where Go leaves the result to the platform, are not modelled.

**Luhn.** A number is a sequence of digits, spaces and one character that stands
for all others. The reference in `MCInput` is the algorithm as textbooks have it: places
counted from the right over the digits where they stand, spaces skipped and nothing removed, so
it shares neither the walk nor the cleaning with the code. The services' modules take a number as it is stored; that spaces
are removed for the check and not for the key means that one number can be stored twice,
with and without them, as two numbers.

**OrderWorker.** `orders`, `balance` are the tables; `remote` is the accrual
system, which moves forward through its statuses when it likes; `batch`, `order`,
`reward`, `seen` are the worker's locals. A round's rows are a set: the loop treats
them alike, so any order of them covers `created_at DESC`. The rows that the
transaction has written are the worker's own locals until `CommitTx`
stores them together, which is what READ COMMITTED shows to others. Invalid JSON,
429, 204, timeouts and unknown statuses are one action, `PollNothing`: nothing
happens. `Tick` begins a round; its query finds the NEW orders (`FetchNewOrders`) or fails
and ends the round (`FetchFails`, worker/order.go:84-86). `Fail` returns to the loop like the
`continue` of worker/order.go:94. A commit
whose answer was lost is a commit followed by `return`, the same as one that
succeeded, because the worker does nothing with the difference but log it. `MaxBigint`
is the largest value of the columns: a statement that exceeds it only fails.

**OrderService.** A request is one upload; what it was answered stays, so that
answers to different requests can be compared. `uuid.New` is the request itself. A list
is two steps: the query fixes the rows, `SendRows` reads them and answers.
`GetUserOrders` does not look at `rows.Err()` (repository/order.go:113-133), so the
rows read may be any part of them. `told` is the set of numbers whose upload had
been confirmed to the user when his list was asked for. `Settle` stands for the worker.

**BalanceService.** `withdrawn` is `SUM(sum)` by user. A list of withdrawals is known by
what it adds up to; its repository method does look at `rows.Err()`
(repository/withdrawal.go:98), so `SendRows` has read all of them. `before` is what had
been withdrawn when a request came. `Credit` is the worker's commit, the one
other writer. `FindUser` is the first read of `Withdraw`, whose result is not
used; that it finds the user is `SessionsAreEarned` of `AuthService` together with
the absence of any DELETE. Requests that end before the service (401, 400, 422)
change nothing and are left out, also in the other services.

**AuthService.** A hash is the password it matches, a token the user it
names. A token may be refused as expired at any moment, which covers every clock.

**Gophermart.** The components guess each other's writes: `Upload` in
`OrderWorker`, `Settle` in `OrderService`, `Credit` in `BalanceService`. Here all run
over the same `orders`, `balance` and `withdrawn`, a step of one leaves the locals of the
others alone, and the guesses are gone. Requests are taken only while the worker's
process is up; `Exit` ends it with every request in it. The properties `WorkerFits`,
`UploadsFit` and `BalancesFit` say that the whole is each component's `Spec`, that is, that each guess was right.
`AuthService` shares no column with the others that anybody changes and stays apart.

**Migrations.** Each script is what it needs, what it must not find, what it adds and what
it drops (`UpScripts`, `DownScripts`, read off the SQL). golang-migrate is external: a
lock, the version, then for each script "dirty", the script, "clean".

**ConnPool.** A handler asks for a connection, holds it for one statement, and
gives it back; how many statements it issues is its own affair (0 to `MaxQueries`). The worker holds one for its
transaction and a second one for `GetUserByID` within it (worker/order.go:137).
The queue of the pool is in the fairness only.

**Lifecycle.** `started` counts the hooks of `Hooks` in the order that
`fx.Invoke` and the constructors give them (main.go:28-71); stopping runs them backwards. A
stop cancels the worker and does not wait for it; `Shutdown` waits for the requests,
`pool.Close` for the connections. The end of the 15 s that fx allows is `Crash`.
cmd/migrator may be called, up or down, at any time (`ToolCalls`): nothing in the code looks for a
service that runs. So the tables of a running service can go away, and `ServedIsReady` says what the
code does ensure: a service never begins to use a database that is not ready, and once
it uses one, only a script down of the tool makes it unready.

## 3. What TLC checks

| Run | Instance | Shows |
|---|---|---|
| `input_conversion` | all thousandths up to 200 points; numbers of up to 4 characters, alone and after 17 zeros | the closed form is floating point arithmetic, for whole kopecks and for fractions of one; order is kept; quarters of a point are exact; the check is Luhn's and finds a wrong digit and swapped neighbours |
| `money_exact` (violated) | all thousandths up to 100 points | some whole amounts lose a kopeck |
| `worker` | 2 orders, 2 users, amounts -0.01, 0, 0.005, 0.29, 0.50, `MaxBigint` 60 | types; no stale write; verdicts and amounts are the accrual system's; books balance; the worker implements `Ledger`; rounds never cease; an order is asked about until settled, and settled |
| `worker_stuck` (violated) | 1 order | an order stored as PROCESSING is never settled |
| `balance_concurrent` | 2 users, 2 requests, credits of 2 up to `MaxBigint` 4 | the only way to overdraw is a check that missed a withdrawal; with n requests the withdrawals of a user, pending ones included, stay within n times the account; a balance shown is available; an answer shows all that had been withdrawn before |
| `balance_overdraft` (violated) | 2 requests | two withdrawals at once overdraw |
| `order_uploads` | 3 uploads, 1 list, 2 numbers, 2 users | answers are true and agree; a number is accepted once; a list shows its user's orders, and what it shows as settled stays |
| `order_list` (violated) | 2 uploads, 1 list | a list cut short is answered 200 |
| `auth_sessions` | 4 requests, 2 logins, 2 passwords | a login is one account's; a cookie names a stored user |
| `gophermart` | 1 user, 1 number, 2 uploads, 1 list, 1 goroutine for balances; an accrual of 0.50 and withdrawals of 0.30 | every component behaves in the service as its module says; the service implements `Points`; what a list shows as accrued is in the account |
| `lifecycle` | 2 connections, 2 requests of up to 2 statements, the worker, 2 runs of cmd/migrator | no use begins with a schema that is not ready, and only the tool takes it away; the version tells the schema; every script applies; no leak, no lock-up, no request refused by a closed pool |
| `lifecycle_progress` | 2 connections, 3 requests of up to 2 statements, the worker | everyone is served, and a stop ends |

Why these bounds. *Amounts and numbers*: 200 points pass every residue modulo 100 and the
powers of two between; a slip concerns one or two places, the parity of the length is
both even and odd, and the zeros bring the length to 20 and over it. With 20 bits all of these
amounts are below `ModelledBelow` and every number fits TLC's integers. *Worker*: one goroutine;
a stale copy needs two rows in a round or two credits of one user, and an order left behind
another one. 0.29 loses a kopeck, 0.005 is paid but worth nothing, -0.01 is
refused, 0.50 twice exceeds `MaxBigint` 60: every branch of `Rewarded`, `Pays` and the
BIGINT guards is taken. The order whose reward does not fit stays NEW for
ever, which `NewIsSettled` names (`Fits`), and the other one must be settled beside it. *Balance*:
two requests are what a race takes; credits of 2 up to 4 and withdrawals around
them make sums below, at and above the balance. `account` is bounded by `MaxBigint`, and
with it the number of withdrawals that pass a check. *Uploads* and *logins*: three
uploads are two that race and one that repeats after a failure or comes from the other user; a fourth login
uses the cookie. *Gophermart*: two uploads of one number race while the worker
settles the row of the first and a list and a withdrawal read it; each component has its larger instance
in its own run. *Lifecycle*: two connections are the fewest that the worker's
transaction can live with, and two requests can take both; three who migrate -- the service
as it starts and two runs of the tool, one going up while the other goes down -- are what the
lock is for. Connections, requests and tools are alike, and the symmetry is used for safety.
In `lifecycle_progress` three requests want the two connections, so that a waiter can be passed over; no
fairness concerns the tool, which takes no connection of the pool, and it is left out.

Runs with CHECK_DEADLOCK FALSE are those whose requests are used up (uploads,
logins) and the amounts, which end at the bound: the system stops there. The others are
checked for deadlock, `lifecycle` above all.

Fairness. *Worker* (`FairSpec`): its goroutine is scheduled and its calls return
(`http.Client` has a timeout of 5 s; a dead connection errs), so weak fairness of its
steps as a whole. It does not say that any call succeeds: next to each there is the step in which it
fails, the query of the round included. So `KeepsPolling` promises without condition only that rounds go on,
and polling under the condition that the rounds' query succeeds again and again. `NewIsSettled` assumes in
addition (`Answered`) that a call tried again and again is answered
at some time. Both assume that the process stays up from some moment on (`StaysUp`).
Nothing is assumed of the accrual system's progress: the properties speak of orders
with a verdict. *Lifecycle* (`Fairness`): statements end and handlers go on, so weak
fairness of these; a waiter of pgxpool is served in its turn, so strong fairness of
getting a connection, which others may take and return in between; the hooks of a stop run.
That a waiting statement fails is assumed only where the code makes it so: after the pool is closed, or
the worker's context cancelled. Nobody has to send a signal, to start the service or to call the tool.

### Where the code and the specification part

1. `money_exact`: `uint(x*100)` writes off, or credits, a kopeck less than
   the amount sent (handler/balance.go:106, worker/order.go:128).
2. `balance_overdraft`: check and insert of a withdrawal are two statements
   (service/balance.go:99, 122); SPECIFICATION.md:265.
3. `worker_stuck`: rounds select NEW only (worker/order.go:83), so an order seen
   PROCESSING is never paid; SPECIFICATION.md:16.
4. `order_list`: `GetUserOrders` returns what it read before the connection broke
   (repository/order.go:133); its twin looks at `rows.Err()` (:173), and SPECIFICATION.md:52
   promises the list of the numbers that the user uploaded.

Seen in the code while modelling, with no run of their own because one
answer shows them: `errors.Is` against a fresh error is never true, so a refused
withdrawal is answered 500 and 402 is never sent (handler/balance.go:115,
SPECIFICATION.md:265); the loser of a race for a number gets 500 and not 200 or 409, until he
asks again (service/order.go:73-79, SPECIFICATION.md:143, 147); a user without orders gets 200 and an
empty list, and the 204 of SPECIFICATION.md:202 is never sent (handler/order.go:134-139); an order whose
reward does not fit BIGINT is tried again in every round (worker/order.go:145); a withdrawal that was stored
and answered 500 is taken again when it is repeated (service/balance.go:122); numbers have at most 20 digits and may
contain spaces (utils/luhn.go), where SPECIFICATION.md:127 has a sequence of digits of any length.

## 4. What TLAPS proves

For any sets of users, numbers, requests, names, passwords, amounts, connections and
processes, and any `MaxBigint` and `MaxQueries`. Assumed of the constants: that numbers are finitely
many (`NumberAssumption`: the column is VARCHAR(255)), and so are the goroutines that
serve balances (`RequestAssumption`); that the values standing for "missing" are
none of the others, that amounts are integers, rewards and bounds naturals; that the mantissa of the reference has
a width the closed form is made for (`WidthAssumption`, proved of doubles); that there are
two connections or more (`ConnAssumption`: the default is 25, and with
DATABASE_MAX_CONN=1 the worker would wait in its transaction for itself); and for
`SerialWithdrawalsAreCovered` and `ServiceImplementsPoints` that requests about balances come one at a time.

* `CommonLemmas`: the sum of a function over a finite set, `SumFunctionOnSet`, is defined by a
  recursion that takes the elements in an order of its own. That the recursion has a
  solution, and one only; that any element may be taken first; that changing or
  renumbering the terms does to the sum what it should; that it is monotone -- each is shown
  by taking a smallest set for which it fails (`SmallestSet`, from the library's
  `WFMin`), since the induction theorems of the library cannot be instantiated.
  Powers of two the same way: `Pow2` is a recursive function, so its equations hold only
  because it has a solution -- one up to each exponent (`DoublingUpTo`), any two of which agree
  (`DoublingIsUnique`), hence one for all exponents. From them that powers add up, grow and
  have the residues that `Pow2Mod100` computes, and that `Log2` finds the leading bit.
* `InputProofs`: `ConversionIsFloatingPoint`, that the residue form is what floating point
  does, for every width and amount that `Money` admits, and `ToKopecksIsDoubleArithmetic`, the same
  of `ToKopecks` and doubles, the conversion that the worker and the balances use.
  The scale is at least 11 (`ScaleBounds`), the only fact about the size of amounts that is needed. A
  fraction of a kopeck is then further from the next kopeck than both roundings reach
  (`FractionsAreCut`). For k kopecks, X = k * 2^s is a multiple of 2048, so its remainder r modulo
  100 is not 50 and the decoder's rounding is to X - r or to X + 100 - r (`KopecksStored`);
  rounding the product restores X from above always, and from below unless r is more than half a unit
  (`RoundedAbove`, `RoundedBelow64`, `RoundedBelow128`; the tie at 32 goes to the even side,
  which is X). What decides the unit is `SpacingRatio` (`KopeckScale`), but for X a power of two,
  where `ModelledWidth` is needed; `DoubleWidth` shows it of 53 bits by computing 2^59. On the
  closed form rest `ConversionKeepsOrder` and `QuartersConvertBack`: a multiple of 25 kopecks is scaled
  to a multiple of 100 (`NothingToRound`). For numbers of any length and with spaces anywhere, `CheckIsLuhns`: the
  verdict is the textbook's. What the code keeps is a renumbering of the places that hold
  no space (`CleanKeepsOrder`, by a least prefix for which it fails), the parity
  from the left at the length is the parity from the right (`PlaceIsFromTheRight`), so the two
  sums have the same terms (`SumReindexed`). Hence `SlipsAreDetected`: a wrong digit
  changes its weight, two neighbours swapped change the sum by what is no multiple of ten
  unless they are 0 and 9 (`SlipMoves`, `SwapShows`).
* `OrderWorkerProofs`: `WorkerIsCoupled` (`IInv`), from which `NoWriteIsStale`,
  `VerdictsAreTheRemotes` and the refinement `WorkerImplementsLedger` follow.
  None of the three is inductive by itself: that the copy in `order` is still the table's row
  at `CommitTx` holds because no two copies of a row are in the
  batch, because rows leave NEW only through the worker, and because what it is about to
  store is what a final, hence unchanged, answer said. `IInv` is the conjunction of
  these couplings (`RowsAreSound`, `CopiesAreCurrent`, `WritesAreAnswered`). The
  refinement maps orders to claims (`Owners`, `Phases`, `Paid`) and shows that
  `Upload` is `Claim`, storing INVALID is `Refuse`, `CommitTx` is `Pay`, and every other
  step, crash and failure stutters. `BooksBalance`: a balance is the sum of what the
  user's PROCESSED orders brought; it needs `IInv` (the order committed was NEW, so no term
  is counted twice, and the credit is exactly the accrual stored) and the lemmas on
  sums. `ProcessingIsForever` proves why `worker_stuck` fails: no step of anybody touches a row
  once it is PROCESSING.
* `BalanceServiceProofs`: `RequestsAreInformed` (`IInv`): what a request read is a
  lower bound of the tables, since both totals only grow, and its check covers its sum.
  So a step into overdraft is an insert after a stale check
  (`OverdraftsAreStaleChecks`), a balance shown is available
  (`ShownBalancesAreAvailable`), an answer is as fresh as its request
  (`AnswersStayFresh`), and one request at a time never overdraws
  (`SerialWithdrawalsAreCovered`): the overlap is all that is wrong.
  `OverdraftsAreBounded` says how wrong: never more than n accounts with n goroutines. By
  itself that is not inductive -- an insert may come long after its check -- so
  `OverdraftIsBounded` counts what has passed its check and is not stored yet: a check that
  passes fits the account with all that is stored, the others pending take one account each,
  an insert only moves a sum from pending to stored.
* `OrderServiceProofs`: answers stay true, since a row keeps its number and its
  owner for ever and its verdict once it has one (`AnswersStayTrue`); hence
  a number is accepted once, from one user (`NumbersAreAcceptedOnce`), and a list
  stays true (`ListsStayTrue`).
* `AuthServiceProofs`: every row is the one its registration inserted, and answers
  stay true of it (`AnswersStayTrue`); hence cookies name stored users and logins
  are unique (`SessionsStayEarned`, `LoginsStayUnique`). Types are not inductive
  here: a token is made from a row that must have been found.
* `GophermartProofs`: the service is each of the three components' specification
  (`WorkerFitsIn`, `UploadsFitIn`, `BalancesFitIn`). The first needs only that uploads
  keep their input. The second uses the worker's invariant, which the first brings along: what it
  writes is a row that was NEW, same number and owner. The third uses in addition that the
  statement before a commit has checked the limit of BIGINT (`WithinLimit`). So the
  theorems on the components hold of the service, none assuming what it helps to
  prove. From them follow `ShownIsPaid` -- a row's accrual is in its owner's account
  (`Backed`), accounts only grow, and a list's rows are the table's when they have a verdict and
  worth nothing before -- and the refinement `ServiceImplementsPoints`: the worker
  and uploads do what the ledger allows, and a stored withdrawal is spending that the
  account covers. The components' promises hold of the whole too (`ServiceBooksBalance`,
  `ServiceAnswersStayTrue`, `ServiceBalancesAreSound`), and two of them combine:
  `ServiceSpendsWhatItEarned`, that a user's withdrawals never exceed what his PROCESSED orders
  brought, times the withdrawals that can overlap.
* `LifecycleProofs`: `Invariance`, with three parts. `ConnInv`: who holds which
  connection at each stage. `MigrInv`: whoever is between lock and unlock owns the lock
  and knows the version and how far the schema is (`Progress`), and without an owner
  the version tells the schema. `HooksInv`: which hooks have started by what runs, so
  that worker and server begin after the migration, and the
  server stops before the pool. None of the three assumes anything of when the tool is called, or which way. For
  `ReadyWhenServed` an action is looked at: use begins where Up has returned to the service,
  and there the schema is that of the last version (`UseIsOfFull`, `ReadyIsFull`); from then on
  only a script down changes that (`FullStays`). The runs' invariants are consequences
  (`VersionsAreTrue`, `ScriptsAlwaysApply`, `ReadyWhenServed`, `PoolClosesLast`,
  `NoLeaks`, `NoDeadlock`).

Only model-checked: liveness (`KeepsPolling`, `NewIsSettled`, `EveryoneIsServed`,
`StopEnds`), since the provers have neither fairness nor ENABLED. Everything else that a
passing run checks is proved. The theorems on tables and amounts hold for any amounts, but where
they speak of `ToKopecks` it is the code's arithmetic below `ModelledBelow(DoubleBits)` only.

## 5. Not modelled, and the plan

Not modelled because no property here depends on it: configuration and
logging (also the tracer of queries), the generated mocks, response bodies and headers.
The accrual binaries are external: what their answers can be is modelled, not how they
come to be.

What could still be added, in this order:

1. Two instances of the service over one database: two `OrderWorker`s that fetch
   the same NEW order; which properties of the one-instance model fail and which stay.
2. `Gophermart` within `Lifecycle`: the workers and requests of the one with the
   hooks of the other, a worker that goes on after `Shutdown` among them.
3. Liveness of the composed service: that an order uploaded is shown as settled by some
   list, under the fairness of `OrderWorker`.
