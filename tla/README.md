# Specto in TLA+

Specto is a small banking service: a Go HTTP server (`src/backend`) over PostgreSQL
(users, tasks, accounts, transfers), Redis (sessions, rate-limit counters) and a Bolt
file (audit log), with an Angular page in front of it (`src/frontend`). Every HTTP
request runs in a goroutine of its own and the goroutines share nothing in memory: all
interaction goes through rows, keys, locks and the connection pool. That is what the
modules model: requests as processes, statements and commands as steps. The page is the
same thing seen from the other end: one thread, many requests, answers in any order.

## 1. The system

| component | state | operations | hard about it |
|---|---|---|---|
| transfers and accounts (`banking_service.go`, `banking_postgres.go`, `tx.go`, `router.go`) | `accounts`, `transfers`, row locks, open transactions | open an account; transfer = BEGIN, two SELECTs, two UPDATEs, INSERT, COMMIT | a check before the lock, deadlocks, overflow, lost COMMIT acknowledgements, crashes half-way, a full pool |
| rate limiter (`middleware.go`) | one Redis counter per address and minute | INCR, EXPIRE on the first hit, 429 | two commands that may fail separately, commands the client library repeats, window boundaries, delayed requests |
| accounts of users and sessions (`auth.go`, `auth_handlers.go`, `user_service.go`) | `users`, sessions in Redis or in signed cookies, one cookie per browser | register, login, logout, `requireAuth` | duplicate registrations, a session stored but not delivered, logout against a failing Redis or a token that cannot be revoked, responses out of order |
| tasks (`task_service.go`, `handlers.go`, `postgres.go`, `boltdb.go`) | `tasks`, a table or a Bolt bucket | create, get, list, update, delete | ownership compared several statements before a write by id; updates against deletes; two stores behind one interface that differ |
| task statistics (`stats.go`, `count_amd64.s`) | registers | count by status | the 16-byte loop and its tail, of which the tests only reach the tail |
| middleware chain, audit trail (`middleware.go`, `audit_bolt.go`) | the audit bucket, its sequence | append after the response | panics after an answer, failed appends, a file that outlives processes |
| server (`server.go`, `cmd/specto`) | stores, listener, the channel of its goroutine | start, signal, Shutdown, close the stores | the deadline against handlers still running; a listener that fails |
| migrations, seeds (`migrate.go`, `seed.go`, `cmd/specto/seed.go`) | schema, fixtures | run at every start, run again | several processes at once, failure half-way |
| configuration (`config.go`) | none; read once | Load, Validate | values that do not parse and are replaced in silence |
| page (`src/frontend/src/app`) | cached user, header, route, navigation, requests in flight, `isSubmitting` | two route guards, login, logout, the requests of four pages | answers in any order, a cached user that outlives the session, guards that redirect to each other, navigations that replace each other |
| logging (`fanout.go`) | the sinks | one record through all handlers | a handler that fails |
| balance cache, users on Bolt | | | no caller |

A request passes, from the outside in: AuditTrail, RedisRateLimit, Recovery,
SecureHeaders, Logging, the mux, `requireAuth`, the handler. The modules take these
layers one at a time: RateLimit ends where the request is let through, Auth ends where
`requireAuth` calls the next handler, Banking and Tasks begin there (the user of a
request is an input of theirs). Server has the whole chain around a handler that
answers anything, panics or hangs, together with the process that runs it. Config and Setup
come before all of these. Page has the browser's end: of the server it keeps the sessions
and that any request may be answered or refused at any time.

What makes each modelled component correct:

* transfers: balances are the opening balances moved by exactly the posted transfers;
  money of a currency is conserved; a row says what was asked, by the owner of the
  sending account; the answer is truthful; no posted transfer exceeds the balance;
  every request ends. The first ones say that the detailed machine implements a ledger
  that posts atomically.
* rate limiter: no minute serves an address more than the limit, nobody is refused for
  another's traffic, Retry-After helps, every counter expires unless a command failed.
* sessions: one user per email, a request acts for the user its cookie was issued to,
  a dropped session is dead, logout ends the session, cookies are backed.
* tasks: a request, several statements long, does at most one thing, at once, to one row of
  its own user; ids are not reused and deleted rows do not come back. This is the abstract
  repository, which both stores implement. Answers are truthful.
* statistics: exact for every length, no load outside of the slice.
* audit trail: every answer has its record, unless Bolt failed or the process stopped
  without a complete drain; a record says what the client was sent; nothing overwrites one.
* server: Run returns nil only after its last request; a signal ends the process.
* configuration: only blank names and readable numbers that are not positive are refused.
* page: the user it shows is the one its requests act for; navigations and forms end;
  logout leads to the login page.
* setup: no half of a migration, tasks have owners, a seeding that succeeds leaves every
  user and task there, and adds none that was.

The hazards behind these, each at its line, are in `PROJECT.json`.

## 2. Modules

| module | models |
|---|---|
| `Money` | constants of the banking modules: BIGINT as `MinInt..MaxInt` (two's complement negation included), transfer rows, how a row moves an account |
| `Ledger` | abstract: `Open` an account, `Post` a transfer in one step |
| `Banking` | detailed: every statement of a transfer; implements `Ledger` |
| `RateLimit` | `RedisRateLimit` with a clock |
| `Identity` | abstract: unique users, sessions begun once and ended once, requests that act for the session they carry |
| `Auth` | `/auth/*`, `requireAuth`, sessions, cookies; implements `Identity` |
| `Repository` | abstract: `Create`, `Update`, `Delete` of one row by its owner, in one step |
| `Tasks` | `/tasks`, over PostgreSQL or Bolt, statement by statement; implements `Repository` |
| `Config` | `Load` and `Validate`, as operators |
| `AuditLog` | abstract: answers, and a log that grows at its end by a record of each |
| `Server` | the server command with its configuration, the middleware chain and the audit trail; implements `AuditLog` |
| `Stats` | `computeStats` and the SSE2 routine |
| `Setup` | `Migrate`, the seed command, `Seed` |
| `Page` | the router, guards, cached user and requests of the front end |
| `MCBanking`, `MCRateLimit`, `MCAuth`, `MCTasks`, `MCServer`, `MCSetup`, `MCPage` | small instances for TLC |
| `BankingProofs`, `RateLimitProofs`, `AuthProofs`, `TasksProofs`, `ServerProofs`, `StatsProofs`, `SetupProofs`, `PageProofs` | theorems |

Operators whose comment begins with "Mistake:" are wrong variants of the operator that
follows: plausible bugs of that piece of code. No specification uses them. Replacing
the right operator by one of them shows that a property notices (`PROJECT.json` pairs
every property with one).

### Banking

`owner`, `currency`, `balance` are the committed accounts (`book`), `transfers` the
committed rows. `lock[a]` is the transaction that holds the row lock of `a` and
`draft[a]` the newest version of its balance. `req`, `pc`, `answer` are the goroutine
of a request, `seen` and `snap` what its SELECT read. Isolation is READ COMMITTED
(`BeginTx(ctx, nil)`): a SELECT sees committed rows and locks nothing; an UPDATE waits for
the lock and adds to the version it then finds.

| action | code |
|---|---|
| `Reject`, `Accept` | `handleTransferCreate` up to the call of the service |
| `Begin`, `BeginFails` | `db.BeginTx`, waiting for the pool |
| `ReadSender`, `ReadReceiver` | `loadAndValidateTransferAccounts`; a failed check leads to `Rollback` |
| `Debit`, `Credit` | the two `UpdateBalance`, with PostgreSQL's refusal of a BIGINT out of range |
| `Insert` | `PgTransferRepo.Create` |
| `StatementFails`, `DeadlockAbort` | a statement that returns an error; the deadlock detector |
| `Rollback`, `Commit`, `CommitFails`, `Reply`, `AckLost` | the end of `RunInTx` and the answer |
| `CreateAccount`, `Crash` | `POST /accounts`; the server dies, PostgreSQL rolls back |

All business errors of this service are untyped, hence one answer `failed` (500) for
them: the model does not tell them apart.

### RateLimit

`counter` and `expiry` are Redis, `now` a clock in ticks with `W` ticks to the minute.
`Arrive` builds the key, `Incr`, `SetExpiry` are the two commands, `Serve` and `Refuse`
the decision, `IncrFails` the fail-open path. `IncrReplyLost` is go-redis sending a
command again that Redis has already executed. `Tick` expires keys; it is
guarded by `Prompt`, "no request spends a whole window between `time.Now` and its
answer", which the 200 ms context of `incrementRateCounter` gives with a wide margin.

### Auth

`users` is PostgreSQL's table, `store` the sessions, `jar` the browsers, `pc` the request.
`mode` is chosen once: with a Redis client a session is a key and the cookie its id; without
one (`redis == nil`, `buildCookieValue`) the cookie is a token signed with HMAC, `store`
says which tokens are good, `Issue` and the check cannot fail on Redis, and logout revokes
nothing. The HMAC itself is taken to do what it is for: a cookie the server has not made is
no cookie. A session id is 24 random bytes; the model lets the request that draws it stand
for it (`SidOf`), that is, assumes that draws never collide. A cookie is named by the request
whose response set it. `Deliver` applies the response's Set-Cookie, in any order, `Lose`
loses the response. Every command to PostgreSQL and Redis may fail, with or without having
been executed; `kept` remembers the sessions whose deletion did not happen. `me` stands
for every endpoint behind `requireAuth`. `ImplementsIdentity` maps the rows of `users` to
accounts, `store` to live sessions, `dropped` to ended ones, and the cookie a request was
sent with to the session it carries; the order of responses, the lookups and the failures
are stutters.

### Tasks

`repo` is the repository the service was given, `rows` the table or bucket, `last` the
sequence behind its ids. `Load` is `taskForUser`, `Validate` the decoding and `validateTask`,
`Again` the second look of `TaskService.Update` and `Delete`, `Write` the statement (executed
and acknowledged), `WriteAckLost` (executed, not acknowledged), `WriteFails` (not executed).
`PgUpdate` reports nothing when the row has gone; `BoltUpdate` looks in the transaction that
writes and fails, and otherwise replaces the whole record. A body carries the `user_id` it
claims, which the handlers overwrite. `done` and `raced` are history: what a request has
written, and whether a DELETE of its task came between. `ImplementsRepository` maps the
variables of the same names to `Repository`; loads, looks and checks are stutters.

### Config and Server

Of an environment variable `Config` keeps whether it is there, whether it is all spaces,
whether its parser takes it, and its number. `Load` and `Validate` are operators; Server
starts with an environment that `Validate` accepts (`Start`), or ends at once
(`InvalidConfig`).

`stage` is the next call of a process's main goroutine: the opens of `RunE` (`Open`), Run
(`run`, `drain` inside Shutdown, `await` on the channel), the deferred closes (`close`).
`lis` and `errCh` are the goroutine of ListenAndServe. `trail` and `sequence` are the
bucket, shared by the processes; `BoltFree` is the file lock. A request is in `limit`,
`handler`, `audit`, `append` or `reply`; `noted` is `rw.status` of AuditTrail's wrapper and
`sent` what net/http put on the wire (both keep the first status). The limiter and the
handler are free to choose here: RateLimit and the service modules say what they do.
`CanClose` orders the deferred calls and waits for Bolt's transaction under way.
`DrainTimeout` is the ten seconds; `Crash` is also the default action of a signal that
arrives before Run listens for signals or after it has stopped. `ImplementsAuditLog` maps
`trail` to the log, `sent` to the answers, the requests whose append failed or found the
file closed to `declined`, and those that have left the chain to `over`; no step of a
process, its death included, is a step of the log.

### Stats

The variables are the registers, a step one round of a loop; `Lanes` is 16 in the code and
a parameter here. `bytes` stands for memory: `LoadsInBounds` says that no round reads
past it, before the counters are looked at.

### Setup

`tables` are committed, `made[p]` what the open transaction of `p` has created. `Exists` and
`Missing` are the look of `IF NOT EXISTS` at the catalog; `Create` and `CreateConflicts`
follow it in another step, because the look takes no lock that excludes another creator:
PostgreSQL's unique index on the catalog decides. A row of the fixtures' users is its
email, `copies` counts the rows of each task. `Fail` is a statement that has not been
executed, `AckLost` one that has. The database there is before (`Init`, remembered in
`found`) is new, or has the tables of 001_init only, as an earlier release left it and as
`tests/integration/db_test.go:55` sets it up, or those of both files, and in the last two
cases any of the fixtures' users and tasks.

### Page

| state | code |
|---|---|
| `cached`, `shown` | `currentUserSubject`; `AppComponent.currentUser` |
| `route`, `nav` | the page in view; the router's navigation, waiting for its guard or loading the page's chunk |
| `flight` | requests in flight, with the cookie they were sent with and, once the server has served them, their answer |
| `busy` | `isSubmitting` of the form in view |
| `jar`, `owner`, `live` | the browser's cookie and the server's sessions |

`Go` is `router.navigate`: it replaces the navigation under way, cancels that one's guard
request, and asks the new guard, which answers at once when a user is cached. A request is
served in one step (`Serve`) and its answer arrives in another (`Arrive`): Set-Cookie first,
then the `tap`s of `AuthService`, then what the subscriber does. A page that is left does
not cancel its requests, and neither does the model. `told` and `left` remember a message
or a logout that the login page must follow; `left` is `held` after a click on the page in
view, which cancels the navigation and starts none. `late` remembers that the cached user is
from a check that was sent with another cookie than the browser had when its answer came:
the one case in which the page may take one user for another.

The model leaves out: a second tab with the same cookie; chunks that fail to load; lists of
accounts and messages. `Refresh` is disabled while any list loads, in the code only while
its own does. `isSubmitting` belongs to the component, so a user who leaves the page and
comes back may submit again while the first request is under way; the model has this.

## 3. What TLC checks

| run | instance | shows |
|---|---|---|
| `banking_safety` | 2 transfers over 8 kinds of input (covered and not, crossing, to itself, negative, the smallest BIGINT, foreign account, unopened account, wrong currency), 3 accounts of which one is opened on the way, BIGINT = -4..3, pool of 2; 38 thousand states | all safety properties, and that `Banking` implements `Ledger` |
| `banking_live` | 3 crossing transfers, pool of 2; 252 thousand states | `EveryTransferAnswered` |
| `banking_overdraft` | as `banking_safety` | **violated**: two transfers spend the same balance |
| `ratelimit_safety` | 3 requests, 2 addresses, limit 1, windows of 3 ticks, one repeated INCR each, arrivals in two windows; 2.4 million states | all safety properties |
| `auth_safety` | 4 requests of one browser, 2 emails, both kinds of session; 2.3 million states | all safety properties, and that `Auth` implements `Identity` |
| `tasks_safety` | 3 requests of 2 users, 3 bodies, one task at the start, one more created, both repositories | answers, and that `Tasks` implements `Repository` |
| `server` | 2 processes on one Bolt file, the second started when the first closes its stores or later, 2 requests, environments of one variable; 1 million states | all safety properties, that `Server` implements `AuditLog`, and `SignalEndsRun` |
| `stats` | all lists up to 8 tasks, 3 lanes; 65 thousand states | all properties |
| `setup_safety` | 3 processes on 2 hosts, 2 users with a task each, the database new or with one or both migrations, seeded or not; 501 thousand states | all safety properties |
| `setup_seed` | the same with 2 processes | **violated**: loading the fixtures again doubles the tasks |
| `page_safety` | 2 users, a session open and one to be issued, 5 slots, 2 clicks or reloads, each while at most one request is in flight; 123 thousand states | `ShownUserActs`, and under fairness `NavigationEnds`, `FormsUnlock`, `LogoutReachesLogin` |
| `page_login` | the same, without clicks | **violated**: who is told to log in again does not come to the login page |

Why these sizes: every property relates one request to at most two others (the race of
two transfers, a request between a delete and a re-creation, a login, its logout and a
later use), which is the number of requests chosen, with one more for Auth, where a
session takes a registration or login first. Two accounts suffice for every
conflict and a third for a cycle that is not a pair; eight BIGINT values suffice for
both overflows and for the negation that is its own argument. Two windows and a key
life of two windows fit into `LastTick` ticks. One browser suffices in Auth because no
action reads another browser's jar. Two processes are a restart or a rolling
replacement: what the second one could do before the first closes is to open PostgreSQL and
Redis and to wait for the Bolt file, which concerns nobody else (`MCServer!TakesOver` cuts
it, and the theorems on `Server` do without). A trail of two records tells an overwritten
key from a fresh one. In
Page two acts are a logout or a login with one more click or reload around it; the page's
own requests (its start sends two, every page one) overlap with them anyway. Eight
bytes in lanes of three are none, one or two rounds of the vector loop with every length of
tail. Three seedings on two hosts give every race with one more copy. Bounds are the
CONSTANTS commented "bound".

Fairness. `Banking!FairSpec`: weak fairness of each transfer's progress (the Go
scheduler runs every goroutine, PostgreSQL executes every statement) and of the deadlock
detector. The wait for the pool and for rows needs no strong fairness in the
instance checked, where each request enters once. Nothing is assumed of failures.
`Server!FairSpec`: weak fairness of the main goroutine, of the goroutine of
ListenAndServe and of the appends (Bolt's transactions are short), none of handlers, so
they may hang, none of signals or crashes. `Stats!FairSpec`: the routine runs.
`Page!FairSpec`: weak fairness of loading the page's chunk, and of serving and receiving each request: a browser ends every request, with
an answer or an error, and runs its callbacks. None of the user, none of which answer is
given, so the liveness properties hold even when every request fails. The other
specifications have none.

Symmetry is used on requests and on processes of one host, and in runs without liveness.

## 4. Findings

Shown by a run, with the trace TLC prints:

1. `banking_service.go:51`: the funds check reads the balance without a lock and the
   debit is unconditional: concurrent transfers overdraw an account. `FundsRace` says
   precisely when: only if another transfer of the same account was posted in between.
2. `auth.guard.ts:22`: when a session expires the pages say "log in again" and navigate to
   `/login`, but the user stays cached, and `guestGuard` redirects to `/dashboard`. The
   user stays there with the message until the page is reloaded.
3. `fixtures.sql:14`: `ON CONFLICT DO NOTHING` has no constraint of `tasks` to work with, so
   loading the fixtures again doubles the tasks, and so does the seed command; the test that
   calls it idempotent (`db_test.go:314`) looks only for an error (`Setup!SeedIdempotent`).

Met while modelling; the module has the behaviour, and the property named says what
holds all the same:

4. `auth.go:111`, `:99`: logout ignores the error of DEL, and revokes nothing when sessions
   are signed cookies, and answers `logged_out` all the same. These are the only two
   exceptions (`Auth!LogoutEndsSession`).
5. `task_service.go:82`: an update that loses against a delete reports success when the
   store is PostgreSQL; Bolt's refuses (`Tasks!AnswersTruthful` says so).
6. `middleware.go:147`: fixed minutes, where the comment at :119 says rolling
   (`RateLimit!TwiceTheLimit`).
7. `migrate.go:48`: concurrent first starts are not safe, where :17 says they are:
   `IF NOT EXISTS` does not exclude a concurrent creator. The loser's transaction leaves
   nothing, and starting it again succeeds (`Setup!SchemaWhole`, `ConflictMeansDone`).
8. `user_service.go:73`: the duplicate that only the UNIQUE constraint catches is no
   `ConflictError` (`Auth!InsertConflicts` answers 500; `OneUserPerEmail` holds).
9. `router.go:50`: Logging is innermost; refused and panicking requests leave no
   request line, where `middleware.go:55` says every request is logged. The audit trail has
   them (`Server!Audited`).
10. `fanout.go:30`: a failing handler keeps the record from those after it, where :8 says
    all get it (not modelled).
11. `config.go:123`: a limit or a lifetime that does not parse is replaced by its default
    without a word (`AcceptedEnvironments`, `UnreadableNumbersAreAccepted`).
12. `auth.service.ts:55`, `auth.go:228`: the answer to a check sent before a login, arriving
    after it, is taken for the new session's (`Page!ShownUserActs` says that nothing else has
    this effect); a late 401 also clears the new cookie, which no property forbids.
13. `app.component.ts:52`: a click on a link to the page in view, while logout's
    navigation is under way, cancels that navigation, and the user, logged out, stays on
    a page that the routes reserve to users (`left = "held"`). `Page!LogoutReachesLogin` says
    that no other click has this effect: whatever page the user asks for, the login page
    comes.
14. `banking_service.go:67`: the form of the page refuses an amount that is not positive
    (`payments-page.component.ts:27`, `:76`), the backend takes any: a negative one moves
    money from the receiver to the sender, unchecked. `Banking` has such inputs, and balances
    and totals still agree (`LedgerAgrees`, `MoneyConserved`).

## 5. What TLAPS proves

Every safety invariant and every refinement that a run checks is also a theorem, for all
values of the constants under the named assumptions of the modules: the opening table is
well typed, `Null` and `None` are none of the values, inputs are well typed, and accounts,
requests of the limiter and seeding processes are finite sets (there is no sum over an
infinite one).

* **BankingProofs.** `TypeCorrect`, `VersionsCorrect`, `RowsAreFaithful`,
  `AnswersAreTruthful`, `OverdraftsAreRaces`, `BankingImplementsLedger`, and
  `SeparateTransfersAreCovered`: however large the pool, there is no overdraft while no two
  transactions are open of which one moves the account the other debits (`Apart`, a
  condition on behaviours that the code does not ensure; a lock on the sender's row, taken
  with its SELECT, would). The inductive invariant `IInv` has three
  parts: types, with the fact that a request in flight has an input; `VersionInv`,
  which says for each row and holder which of its own increments the holder has
  written on top of the committed balance, and that a row nobody holds has no other
  version; and `KnowsInv`, what each step of a transaction still knows of its checks
  (owner and currencies, which never change once set, and the balance seen, which only
  postings since then can have lowered). `VersionInv` gives the effect of a commit
  (`CommitEffect`): exactly `Moved` on each account, which is `Ledger!Post`. Every other
  step leaves `book` alone or opens an account.
  `BalancesAreTheBook` and `MoneyIsConserved` are about sums over the rows and over the
  accounts of a currency. They are proved of `Ledger`, as an invariant of its own
  (`LedgerInv`), and carried over to `Banking` by the refinement: a property that the
  abstract machine has need not be proved again through every concrete action. A sum is a
  fold that chooses its next element; what has to be shown is that the choice does not
  matter. No induction theorem of the library can be used (they take an
  operator), so `Sums` argues by a smallest counterexample: among the finite sets for which
  some order of summing gives something else there is a least (`SmallestSubset`, from the
  well-foundedness of the strict subsets of a finite set), and taking one element from it
  contradicts that. `SumAdd` and `SumChange` are what the ledger needs: a new row adds what
  it moves, and a posting changes the total of its currency by a debit and an equal credit.
  `PostConserves` has the case of a transfer to oneself on its own.
* **AuthProofs.** `TypeCorrect`, `EmailsAreUnique`, `CookiesAreBacked`,
  `RequestsActForTheirLogin`, `DroppedSessionsStayDead`, `LogoutsEndSessions`, for both
  kinds of session. The invariant says that a request
  still working has published nothing, and that a cookie in circulation belongs to a
  request that has finished, so its session's user is settled; and that the session of a
  logout that was answered is dropped, or kept by a Redis that refused, or a token.
  `AuthImplementsIdentity` adds two facts: who is about to be given a session has a user
  (`KnownIssuer`), who is about to be authenticated acts for nobody yet
  (`NotYetActing`). `RegisterMaps`, `BeginMaps`, `EndMaps`, `CarryMaps`,
  `AuthenticateMaps` take one abstract step each; to end a session twice, or to begin one
  whose SET was not executed, is a stutter.
* **TasksProofs.** `TasksImplementRepository`, and from the same invariant `TypeCorrect`,
  `OnlyOwnTasks`, `AnswersAreTruthful`, `OwnersWrite`, `DeletedTasksStayDeleted`. The
  invariant `Checked` keeps what the ownership check established until the write: the row
  is still the user's, or gone, and then the request is in `raced`. With it the step of
  the write is a step of `Repository`, on either store, and every other is a stutter.
* **ServerProofs.** `TypeCorrect`, `AnswersAreAudited`, `TrailIsTruthful`,
  `StopsAreOrderly`, `TrailIsAppendOnly`. The invariant says where in the chain a request
  has which status and append result, that every record belongs to a request past its
  append, that a process past Run has outcome error or no request under way, and that only
  the holder of the file appends. `ServerImplementsAuditLog` follows from it: an append is
  unsettled until the request leaves `append` (`Unsettled`), and what `TrailInv` says of
  stored requests is what the abstract log calls recorded. Of the configuration:
  `AcceptedEnvironments`, which environments `Validate` accepts after `Load`, no more and no
  fewer, and its consequence `UnreadableNumbersAreAccepted`.
* **StatsProofs.** `TypeCorrect`, `LoadsAreInBounds`, `CountsAreExact`,
  `CountsAddUpToTotal`, for every `Lanes` and every length. The invariant: `si + cx` is the
  length and each counter is the number of matching bytes among the first `si`; a round
  adds the matches of a disjoint interval (cardinality of a disjoint union).
  `RoundsAreBounded` is the provable half of termination: `StepsLeft` decreases with every
  round.
* **RateLimitProofs.** `LimitIsHeld`, `TwiceTheLimitAtMost`, `RetryAfterIsLater`,
  `ExpiryIsAccounted`, for windows of any length. The invariant has two facts: a key's
  expiry lies two windows after the start of its own (`Lasting`), and the requests that
  have counted on a key have different counts, none above the counter while the key can
  still be counted on (`Distinct`, `RequestInv`). `Counting` shows that whoever counts does
  so before the key can be dropped: that is where two windows of life are needed, and
  `Prompt`. The requests served on a key then inject into `1..Limit`. `RefusalsAreEarned`
  counts the other way: `TrafficInv` bounds every counter, and every count that a request
  has been given, by the INCRs that the requests of that key have had run (`OwnHits`, a set
  of pairs of a request and a number). No INCR is ever taken back, a counter may be
  (`Tick`), so the bound survives the key (`CountsStep`).
* **SetupProofs.** `TypeCorrect`, `SchemaIsWhole`, `TasksAreOwned`, `ConflictsMeanDone`,
  `SeedingsAreComplete`, for any number of processes, users and tasks. The invariant `WalkOf`
  says what a process has seen to on its way to where it is: every table before the
  statement at hand is there or its own, and once its transaction has committed, or lost,
  the schema is whole. `SeedingsAreComplete` needs a finer count than the property states
  (`CountInv`): a title has a row if some seeding has inserted it for certain (`Sure`: past
  it, or successful), and no more rows than it had and those that may have inserted it
  (`Maybe`: past it, or ended in any way). A step is neutral to both sets, or inserts and
  adds one process to `Maybe` (`NeutralStep`, `InsertsStep`).
* **PageProofs.** `ShownUsersAct`, for any users, sessions, slots and acts. The property is
  inductive once three variables have their types: an answer that sets the cached user
  sets the cookie with it, or was sent with the cookie the browser has, or is late.

Only model-checked: liveness (`EveryTransferAnswered`, `SignalEndsRun`, `Returns`,
`NavigationEnds`, `FormsUnlock`, `LogoutReachesLogin`), which rests on fairness and on
ENABLED and is out of the prover's reach. `AppendOnly`, `DroppedStaysDead` and
`CountsAddUp` are proved and no run checks them: the first two follow from the refinements
of `AuditLog` and `Identity`, which runs do check, the third from `CountsExact`.

## 6. Not modelled, and what could follow

Left out: the looks of responses, logging text, passwords and hashes, JSON, HTTP itself,
styles and the contents of the pages (presentation); the balance cache, cards and
transactions of `models.go`, `magefile.go` (no caller, or not the program). `BoltUserRepo`
has no caller either, and could not have one as it is: a user is stored as JSON whose tag
drops the password hash (`models.go:15`), and nothing keeps two users from one email.
`logging/fanout.go` is a loop without state; the rest of the system does not depend on what
its sinks hold.

What could follow: RateLimit, Auth and Banking composed on one request path, so that a
posting is traced to a login; several tabs over one cookie in Page.
