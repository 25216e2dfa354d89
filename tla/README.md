# go-hermes: a TLA+ model of the wallet service

This directory models the wallet service of this repository in TLA+: money
movement, idempotency, webhooks, reconciliation, accounts, rate limiting, the queries
and paged listings, and the way of a request through configuration, routes and
middleware.
TLC checks the models on small instances; TLAPS proves every invariant, action property
and refinement among the properties for every instance. Liveness is left to TLC.

Run a check with `tlc -config X.cfg M`, and the proofs with `tlapm M.tla`.
`PROJECT.json` lists the runs, the source lines every definition stands for, and
for every checked property a mutant of the model that breaks it.

## The system

| Component | State | Operations | Hard parts |
|---|---|---|---|
| Money movement (`usecase/transaction.go`, `repository/gorm.go`) | wallets, transactions, ledger, audit, deliveries | `TopUp`, `Transfer` | concurrent requests on one wallet, lock order, overflow, partial failure, lost commit |
| Idempotency (same files) | `idempotency_records` | `Reserve`, `Get`, `MarkCompleted` | a retry racing the original, reuse with another payload, rollback frees the key |
| Webhooks (`usecase/webhook.go`) | `webhook_deliveries`, a channel per process | `createDelivery`, `Enqueue`, `Start`, `ProcessDue`, `ProcessDelivery`, `markFailure` | full channel, crash, stale row saved after a slow POST, two workers |
| Reconciliation (`usecase/reconciliation.go`) | none of its own | `Run`, `reconcileState` | three reads without a snapshot; entries sorted by the clocks of several hosts; whether the checks decide consistency |
| Accounts (`usecase/auth.go`) | users, wallets, audit | `Register`, `Login` | check-then-insert race on the address |
| Startup (`cmd/api/main.go`) | the same tables | load, validate, `seedAdmin`, then serve | several processes seeding at once, environments that must not be served with |
| Configuration (`config/config.go`) | read once | `Load`, `Validate` | what is unset, misspelt or unparsable becomes a default |
| Rate limiting (`pkg/ratelimit`, `middleware/rate_limit.go`) | a counter per scope and caller, in Redis or in memory | `Allow` | death between INCR and EXPIRE, late EXPIRE, fail open, bursts across windows |
| HTTP layer (`delivery/http/router.go`, `middleware`, `pkg/auth`, `app`) | tokens, request-local values | `Auth`, `RequireRole`, `ProtectMetrics`, `RateLimit`, `ErrorHandler`, recover | order of the layers, expiry cut to seconds, panics |
| Observability (`pkg/metrics`, `middleware/metrics.go`, `request_logger.go`) | counters, log lines | `ObserveHTTPRequest`, `IncrementRateLimitExceeded` | the status is counted before the error is rendered |
| Single reads (`usecase/user_wallet.go`, `usecase/transaction.go`) | none | `GetMyBalance`, `GetMyTransaction`, `ListTransactionLedgers` | three queries by different columns must agree |
| Listings (`usecase/admin_health.go`, `usecase/transaction.go`, `pkg/pagination`) | audit rows of administrators' reads | `ListMy...`, `List...` | rows inserted, or leaving the filter, between pages and between COUNT and SELECT |
| Health, test kit | none that is written | | not modelled, see below |

The components meet in the database. A request of money movement inserts a
webhook delivery in its own transaction and hands the id to the worker's channel
after the commit; the reconciliation run and the users' queries read the tables that
money movement writes; accounts create the wallets that it moves money between; every
request passes the middleware of its route, in which the rate limiter sits before login,
top-up and transfer.

## Modules

| Module | Models |
|---|---|
| `Entities` | rows, requests, idempotency slots, int64 arithmetic |
| `Bank` | what the service promises about money: one indivisible step per request |
| `MoneyMovement` | `TopUp` and `Transfer`, statement by statement, over PostgreSQL |
| `MoneyMovement_proofs` | theorems about `MoneyMovement` and `Reads`: isolation; the tables; the answers, reads, locks and the channel |
| `Sums`, `Sums_proofs` | sums over finite sets, and their laws |
| `Reads` | a user's balance, transaction and entries, over the tables of `MoneyMovement` |
| `WebhookFeed` | what the requests promise the worker: rows committed, ids handed over after that and at most once, or lost |
| `Webhooks`, `Webhooks_proofs` | the delivery worker of one or more processes |
| `ReconcileState` | `reconcileState` as a pure operator on tables |
| `LedgerClock` | `MoneyMovement` with the hosts' clocks and `created_at` of the entries |
| `Reconciliation` | `Run` composed with `LedgerClock` |
| `TamperedTables` | `ReconcileState` against tables with any rows, of unknown types and missing wallets too |
| `Reconciliation_proofs` | theorems about `ReconcileState`, `LedgerClock`, `Reconciliation` and `TamperedTables` |
| `Accounts`, `Accounts_proofs` | `Register`, `Login`, `seedAdmin` |
| `RateLimit`, `RateLimit_proofs` | one key of `RedisLimiter.Allow` and `MemoryLimiter.Allow` in time |
| `Listings`, `Listings_proofs` | the paged queries under concurrent inserts and changes of status |
| `Configuration` | `Load` and `Validate` |
| `Pipeline`, `Pipeline_proofs` | routes, middleware, tokens, error handler and counters: the way of a request |
| `MC...` | constants for TLC |

### MoneyMovement

A handler is the goroutine of one request. `pc[h]` names the call it makes next.
What a transaction has written is recorded in `staged[h]`; `Commit` publishes all
of it at once, `Rollback` forgets it. PostgreSQL is modelled from how the code
uses it at READ COMMITTED:

- `Reserve` (`INSERT ... ON CONFLICT DO NOTHING`) waits while another open
  transaction owns the same slot (`owner`);
- `LockWallet` (`SELECT ... ORDER BY id FOR UPDATE`) takes the wallets one by one
  in the order of their ids, waits for a row another handler holds and then reads
  its committed balance;
- `UpdateDestination` fails on `CHECK (balance >= 0)`: the int64 sum wraps around
  (`Int64`) and turns negative;
- `Fail` is a failure of any statement, `CommitUnacknowledged` a commit whose
  answer is lost, `Crash` the death of the process with all its handlers and its
  channel.

The branches "wallet is not active" are left out because the migration admits no
other status. The branch "still being processed" (status code 0) is kept, and
`OncePerKey` shows that no committed record has that status, so it is never taken.
Descriptions and references are left out: they only travel.

### Webhooks

One worker per process; `todo` is the batch it works on, `copy` the row it read,
`answer` what the POST returned. Time is relative: `wait` is what remains of
`next_retry_at`, so no clock has to be bounded. `Record` saves the whole row from
the copy, as `Save` does. A lost answer may have been a success (`SendFails`).

With two processes a row can be in the hands of both workers, and the slower one saves
over what the faster one saved. `OverwritesBounded` says how far that goes: an attempt
counted in the row and in every copy of it is never forgotten, and a settled row that no
worker has in hand stays as it is.

`MoneyMovement` and `Webhooks` meet in the rows and the channel. Instead of one product
of both there is `WebhookFeed`, in which rows are committed and their ids are handed over,
lost or forgotten. `FeedsWorker` shows that the requests implement it (`rows`, `handing`
and `channel` are the committed deliveries, the handlers on their way to `Enqueue`, and
the queue). `Webhooks` takes it for its environment: `CreateDelivery`, `Enqueue`,
`TakeQueued` and `Crash` are the actions of `WebhookFeed`, with all their outcomes, as
one process sees them. That correspondence is by inspection, action by action; it is not a
run or a theorem.

### Reconciliation

`ReconcileState` keeps from a report the rows it complains about. `Reconciliation`
runs the three reads as three actions among those of `MoneyMovement`, and sorts the
ledger by `created_at` as the checker does; entries of one instant are sorted by their
random ids, so `Sortings` admits them in any order. `LedgerClock` supplies the times: a
host's clock is up to `Skew` ahead, `stamp` is the time a handler takes just before it
inserts its entries, and `created` keeps, for every entry, that time and what the host's
clock showed.

`TamperedTables` builds small databases that nobody's constraints protect: transactions
and entries of types the code does not know, entries of wallets and transactions that do
not exist, and any values of the integer width. The verdict is compared with a definition
of consistency in exact arithmetic, written independently of the checker's loops. The
checker's own sums and differences wrap (`Int64`), as Go's do. So it can miss an entry that
takes a balance over the end of int64, for the check wraps as the balance did; the balance
is then negative on one side of that entry, and `ReportDecides` excepts tables with such
an entry. It raises no false alarm on any tables.

### Accounts

A session is a database session of a starting process or of a request. `Register`
and `seedAdmin` share their three inserts. When `seedAdmin` meets a duplicate
address it returns nil, but its transaction is already aborted: COMMIT rolls back,
the driver (pgx) reports that as an error and the process ends with `log.Fatal`;
its next start finds the address. `since` is a history variable, the number of
accounts when a request arrived.

`seedAdmin` stores the admin's address as configured (`config.go:131`, `main.go:164`),
in whatever case (`adminEmail`, chosen once from `AdminEmails`), while `Login` and
`Register` look up and store `Normalize` of what was typed. `RefusalsAreTrue` excepts
the admin whose address is configured in another spelling, and nobody else;
`AdminOutOfReach` says what happens to him.

### RateLimit

One key stands for all: keys do not interact (which key a request uses is part of
`Pipeline`). `backend` is chosen once: Redis in two round trips, or the map of
`MemoryLimiter` under its mutex, whose entry still counts at the instant it is reset.
`current`, `granted` and `recent` are history variables. Counts above the limit are told
apart only up to `MaxCount`, since the code compares them with the limit and with 1
only.

### Listings

One client reads a listing to the first page that is not full. A row takes its
`created_at` at the INSERT and is visible from the COMMIT, so rows may appear below
rows already shown. `PagesOf` gives every page that ORDER BY, OFFSET and LIMIT allow
when rows tie. `Settle` is the worker changing the status of a delivery, which leaves
a listing filtered by status; a row that enters a filter is one that commits late.
`start`, `seen`, `twice`, `own`, `left`, `gone` and `quiet` are history variables; `gone`
holds the rows that left between the COUNT and the SELECT of the last page.
Only the order of timestamps matters, so a new row takes the latest instant or the
next one.

### Reads

Each query is one SELECT of committed rows, so it is an operator on the tables of
`MoneyMovement` and needs no state of its own. `ReadsAgree` is an invariant of the run
`money`.

### Pipeline

A configuration is what `Load` makes of one of the `Environments`, and `Configs` are
those `Validate` accepts: `main` ends otherwise. A name of an environment stands for its
spellings in upper and lower case, which `IsDevelopmentEnv` does not tell apart.
`Global` and `RouteLayers` give the chain of layers of a route as `RegisterRoutes`
builds it; `at[r]` is the layer a request is in. A layer passes it on (`Pass`) or ends
it with an `Outcome`: an answer it wrote, a fiber error, an application error or a
panic. `Return` is the whole way back: the layers passed finish in turn, the logger and
the counters with the status they foresee (`Observed`), the client gets what the error
handler renders (`Rendered`), and a panic skips every layer inside recover. Handlers
answer 200 or 400 or panic; what they do is the subject of the other modules. Tokens are
abstract: issued by this process, with the date cut to the second, or not. `judged`,
`panicked` and `told` are kept for the properties. The limiter here only counts; its
windows are in `RateLimit`. The address a request comes from is told apart on the routes
whose limiter is on, since nothing else reads it.

## Runs

| Run | Configuration | Result |
|---|---|---|
| `money` | `MCMoneyMovement.cfg` | 2 handlers, 2 users, amounts 0 and 2 with `MaxInt` 3 (so that a transfer overflows), an unknown wallet, a missing key, a channel of one; about 92,000 states |
| `retries` | `MCRetries.cfg` | 3 handlers of one caller on one key: liveness; about 16,000 states |
| `webhooks` | `MCWebhooks.cfg` | 1 process, 3 deliveries, channel of 2, 2 attempts, 1 crash, with liveness; about 220,000 states |
| `webhooks_two` | `MCWebhooksTwo.cfg` | 2 processes that share a delivery, 3 attempts, 1 crash, with liveness; about 18,000 states |
| `webhooks_early` | `MCWebhooksEarly.cfg` | violation, finding 2 |
| `reconcile` | `MCReconciliation.cfg` | a run among the requests of two hosts, clocks up to 1 apart, times 0 to 2; about 340,000 states |
| `reconcile_report` | `MCReconciliationReport.cfg` | violation, finding 1 |
| `reconcile_tables` | `MCTamperedTables.cfg` | databases of 2 wallets and the id of a third, up to 2 transactions and 3 entries, with integers of two bits; about 17,000 states |
| `accounts` | `MCAccounts.cfg` | 2 processes, 2 callers, the admin's address configured in lower or mixed case and typed in both, another address; about 1.4 million states |
| `listings` | `MCListings.cfg` | 4 rows, page sizes 1 and 2 (also as a missing and an excessive limit), all three kinds of listing; about 8.1 million states |
| `ratelimit` | `MCRateLimit.cfg` | 3 requests, a limit of 2, a window of 2, both backends, with liveness; about 190,000 states |
| `requests` | `MCPipeline.cfg` | 2 requests, a user and an administrator, 2 addresses, 10 kinds of route, 3 valid environments and 4 that are refused, limits 0 and 1, half seconds; with liveness; about 540,000 states |

Why the bounds are enough: the conflicts are between two handlers on one key or one pair
of wallets, and a third handler adds a waiter behind a waiter; a slot is spent at most
once, so runs of money movement end by themselves and need no bound on their length.
Workers of two processes meet in one row, so one delivery is enough for them. A
delivery's life is at most `MaxRetry` attempts, and the channel holds twice the batch,
so three deliveries fill it. Two entries per wallet are enough to break a chain, a third
to break a transaction's shape while the chain holds. In `reconcile_tables` the
constraint `Focus` keeps regular rows in any combination, as the handlers write them or
as int64 wraps them, and every database that is one odd row from them, or two where
there are few rows: with integers of two bits, one row already reaches every branch of
the checks and a balance over the end of int64. Four rows are two full pages of two,
with a third to come, and every pattern of equal timestamps. In `reconcile` the
constraint `Focus` keeps two parts of the product: both users, any amounts, one request
at a time on clocks that agree; and one user's small requests, two at a time on clocks
that do not. Reads torn by commits of both wallets are in the first, entries out of
order in the second (times 0, 1 and 2 hold two movements of a wallet more than a skew of
1 apart). Two requests are enough in `requests` because the only things requests share
are a counter of the limiter, with a limit of one, and the sums of the metrics.
Handlers, processes and callers are interchangeable, hence the symmetry in the safety
runs; runs with a liveness property use none.

What the main properties say:

- `LedgerExplainsBalance`: every wallet's ledger is a chain from zero to its
  balance; `JournalComplete`: the rows of a call are all there or none is;
  `Conserved`: wallets hold what was topped up.
- `OncePerKey`, `AnswersAreTrue`, `HistoryIsKept`: a key is spent once, every
  200 tells the truth about this request, and a replay is the same for ever.
- `NoDeadlock`, `EveryCallAnswered`: no cycle of waits, opposite transfers and
  shared keys included; and waits end.
- `ImplementsBank`: the whole machinery behaves like `Bank`.
- `FeedsWorker`: the requests hand ids to the worker as `WebhookFeed` says.
- `ReadsAgree`: who is shown a transaction is shown his entry of it, his balance is
  what his entries add up to, and what he was told of is among them.
- `RetryBudget`, `SuccessWasAccepted`, `SettledIsFinal`, `EventuallySettled`: the
  life of a delivery; `OverwritesBounded`: what two workers can undo of it.
- `SkewTolerated`, `VerdictIffSnapshot`, `ReportDecides`: the report and the writers
  agree, also in the order of the hosts' clocks when movements of a wallet are further
  apart than those; a torn read is always noticed; and the checks decide consistency, but
  for balances that wrapped.
- `AccountsComplete`, `RepliesAreTrue`, `RefusalsAreTrue`, `AdminIsSeeded`,
  `AdminOutOfReach`.
- `WithinLimit`, `AtMostTwiceTheLimit`, `DenialEnds`: a key lets through its limit, any
  stretch of a window twice that at most, and nobody is locked out for ever.
- `NothingMissed`, `CountIsFloor`, `QuietSweepExact`, `SweepAdvances`: paging with
  OFFSET loses nothing as long as timestamps differ and rows stay; each row that leaves
  a filter costs at most one other; the audit log grows by being read, so there a page
  is worth one row less.
- `ServedToEntitled`, `RefusedOnlyWhenExpired`, `DeniedForOwnTraffic`: who reaches a
  handler, who is refused, and for whose traffic, across groups, layers, tokens and
  configurations.
- `CountedAsAnswered`, `EveryRequestAnswered`: counters and log tell what the clients
  were told, and everybody is answered.

`TypeOK` of `Accounts`, `Listings`, `RateLimit` and `Pipeline` is proved
(`TypeCorrect`); no run lists it.

### Fairness

`MoneyMovement`: weak fairness of each handler's own steps, because a runnable
goroutine is scheduled; strong fairness of `Reserve` and `LockWallet`, because
PostgreSQL serves the waiters of a lock in turn. Nothing is assumed about
requests arriving, failures or crashes. `Webhooks`: weak fairness of time, of the
worker and of `Enqueue`; strong fairness of the scan, the read and the save, which
says that the database does not fail every time it is asked. `EventuallySettled`
does not need the target to accept: attempts are counted and end in FAILED.
`RateLimit`: time passes and a request in the limiter goes on. `Pipeline`: a request that
is in a layer or a handler leaves it, if need be by a panic; nothing is assumed about
requests coming.

## Findings

1. `reconcile_report`: the report can be unhealthy while the tables are healthy,
   because a commit can fall between its three reads
   (`internal/usecase/reconciliation.go:37`); `docs/reconciliation.md:15` presents
   it as "whether the system is currently healthy".
2. `webhooks_early`: a delivery whose id is still in the channel after the scan
   tried it is retried before its `next_retry_at`
   (`internal/usecase/webhook.go:201`); `docs/webhooks.md:86` describes an
   interval-based backoff.

Smaller differences without a run of their own: `RegisterRoutes` puts recover outside
`Metrics` and `RequestLogger` (`internal/delivery/http/router.go:48`), which work after
`c.Next()` without defer, so a request whose handler panics is answered 500 and neither
counted nor logged, while `internal/pkg/metrics/collector.go:34` calls the counter
"Total HTTP requests handled by the API." (`CountedAsAnswered` says that the counters
hold the answered requests that did not panic). An administrator whose address is
configured in mixed case is seeded and cannot log in (`AdminOutOfReach`); no document
says that he can. A token is refused up to a second before the `expires_at` that `Login`
reported. `docs/webhooks.md:87` says FAILED comes "once `max_retry` is exceeded", the
code marks it when `max_retry` is reached; `:84` says a failed first attempt moves to
RETRYING, which with `max_retry` 1 it does not. With two processes `SettledIsFinal` does
not hold: the slower of two workers that posted the same delivery can overwrite a
settled row (`OverwritesBounded` is what remains). `docs/webhooks.md:141` names the lack
of coordination as a limitation.

## Proofs

Every theorem holds for any sets of users, wallets, handlers, processes, deliveries,
rows or requests and any bounds, under the named assumptions of the modules. Those are
what the code provides: wallet ids are numbers, users have different wallets, amounts
fit the integer width, and there are finitely many wallets (`Entities`); amounts and
balances in tampered tables are of the integer width, and finitely many ids are of no
wallet (`TamperedTables`); skew and time are natural numbers (`LedgerClock`); intervals,
retries and limits are positive (`Webhooks`, `RateLimit`); the default limit of a page
is no more than the greatest, and a client starts at the first page (`Listings`); an
admin is configured and normalising an address twice changes nothing more, but nothing
is assumed about the spelling of the admin's address (`Accounts`); a number in the
environment is one that `strconv.Atoi` accepts, or it does not parse, and finitely many
requests are made (`Pipeline`). TLC evaluates the assumptions in every run.

### Money movement

- `Isolation`: `Spec => []IsolationInv`. None of the properties is inductive by
  itself; what makes them so is that a handler's private view agrees with the
  tables. `IsolationInv` says, for every handler and place: its request passed the
  checks made so far (`RequestInv`); it alone owns its slot, which is unspent
  (`ReservationInv`); it holds exactly the wallets it asked for (`LockInv`); the
  balances it read are still the committed ones and its copies differ by the
  amount (`CopyInv`); the statements staged are those before its place and the
  credited balance is not negative (`WriteInv`). One lemma per action shows that a
  step keeps it; a commit of one handler cannot disturb another because they hold
  different locks and slots.
- `TypeCorrect`: `Spec => []TypeOK`, with balances in `0 .. MaxInt`.
- `LedgerCorrect`: `Spec => []LedgerExplainsBalance`. Only a commit changes a
  balance or a ledger (`TableStep`), and by isolation the entry appended starts at
  the committed balance.
- `Idempotent`: `Spec => []OncePerKey`. `HistoryKept`: `Spec => HistoryIsKept`.
- `Refinement`: `Spec => ImplementsBank`, with `done <- Done`: a commit is a
  `Move` of `Bank`, every other step a stutter.
- `Journal`: `Spec => []JournalComplete`, on top of isolation and the ledger.
- `Conservation`: `Spec => []Conserved`. What a commit adds to the sum of the balances is
  what it adds to the sum of the top-ups; both are sums over sets, see below.
- `Answers`: `Spec => []AnswersAreTrue`. The strengthening: every record shows what the
  ledger has (`RecordInv`), and a handler with a 200 is past its transaction, which did what
  its request asked for (`AnswerInv`); both survive because history is kept.
- `ReadsFit`: `Spec => []ReadsAgree`. A balance is the sum of what the committed
  transactions moved into its wallet (`BalanceInv`). A user is shown a transaction exactly
  when his wallet is a side of it, since every transaction is what a request asked for
  (`RecordInv`); by `Journal` he then has one entry of it, for the ids in a ledger rise.
- `DeadlockFree`: `Spec => []NoDeadlock`. In a set of handlers waiting for each other, those
  that wait for a key are waited for by nobody who holds a wallet; among the others take
  the one that waits for the greatest wallet: its holder waits for a greater one, since
  wallets are locked in the order of their ids (`LockOrder`).
- `WorkerFed`: `Spec => FeedsWorker`. Handlers on their way to `Enqueue` have an id of their
  own (`HandingInv`).

### Webhooks

- `Workers`: `Spec => []WorkersInv`, for any number of processes: types, `RetryBudget`,
  `SuccessWasAccepted`, and that a worker holds a copy of a row that had an attempt left
  and an answer that was given (`CopyInv`). `TypeCorrect`, `Budget` and `Success` follow.
  Two workers may hold copies of one row; the budget survives because each saves one
  attempt more than the copy it read.
- `SettledFinal`: with one process, `Spec => SettledIsFinal`. The copy in hand is what the
  table says of an open row (`CurrentInv`). Two processes break it, as the findings say.
- `Overwrites`: for any number of processes, `Spec => OverwritesBounded`. A save writes
  one attempt more than the copy it came from, or settles the row; a worker takes a copy of
  an open row only.

### Accounts

- `AccountsCorrect`: `Spec => []AccountsInv`: what a session has inserted and that it holds
  the address (`SessionInv`), that a claimed address is no user's (`ClaimInv`), what Login
  has read (`CallerInv`), that nothing is served before the admin's address is taken
  (`SeedInv`), and the properties. `TypeCorrect`, `Complete`, `Replies`, `Refusals` and
  `AdminSeeded` follow. `Refusals` holds for any spelling of the admin's address: the
  address of every other account is stored as `Login` looks it up (`Stored`).
- `OutOfReach`: `Spec => []AdminOutOfReach`. An administrator's row has the configured
  address (`Stored`, part of `SeedInv`), which no lookup asks for.

### Rate limiter

- `LimitKept`: `Spec => []WithinLimit`. Those let through, and those whose EXPIRE is still
  under way, are no more than the count and the limit (`CountedInv`).
- `TwiceTheLimit`: `Spec => []AtMostTwiceTheLimit`. The present key covers the last k units
  of time, for some k; in them no more than the limit was let through, in the rest of the
  window no more than the limit either, and when the key expires k is the whole window
  (`Covers`, `KeyInv`): a window meets two keys at most.
- `TypeCorrect`: `Spec => []TypeOK`.

### HTTP layer

- The chains of all routes and configurations are in order (`ChainFacts`): recover is
  outermost, logger and metrics are outside every layer of a route, Auth comes first on the
  protected routes, the role check next on `/admin`, the limiter just before the handler.
- `PipelineCorrect`: `Spec => []PipelineInv`. For a request (`RequestInv`): it is behind the
  global layers; every layer it has passed made sure of what it is for; Auth refused it for
  a reason; its log line tells its answer. For the limiter (`SpentInv`): a counter is no
  more than the number of requests of the caller it stands for, because the key is the user
  behind Auth and the address at login (`KeyIsCaller`). For the metrics (`CountedInv`):
  counters are numbers of answers.
- `Served`, `Refused`, `OwnTraffic`, `Observability` and `TypeCorrect` follow, for
  `ServedToEntitled`, `RefusedOnlyWhenExpired`, `DeniedForOwnTraffic`,
  `CountedAsAnswered` and `TypeOK`.

### Reconciliation

`Run` only reads, so a behaviour with it is one of `MoneyMovement` (`RunsOnMoney`:
`RSpec => Spec`) and everything proved there may be used.

- Healthy tables: with `RowInv` (a transaction moves a positive amount to a wallet, from
  none or from another), isolation, `LedgerExplainsBalance` and `JournalComplete`, none of
  the checks of `reconcileState` complains (`BooksHealthy`). That the derived balance is
  the wallet's is the sum of a chain (`TotalChain`).
- `VerdictCorrect`: `RSpec => []VerdictIffSnapshot`. What a run has read of the
  transactions is a prefix of them (`ReadInv`), because history is kept. If it is a proper
  one, an entry has no transaction; if only a balance has changed, its chain ends
  elsewhere; either is reported.
- `SkewHarmless`: `RSpec => []SkewTolerated`. The times taken rise along every ledger, and
  who holds a wallet's lock past the stamp took his last (`OrderInv`): a handler takes its
  time after all its locks and lets go of them with the commit that appends its entry
  (`WalletStep`). The clocks are ahead by the skew at most (`CreatedInv`), so movements
  further apart than that have their `created_at` in the same order; no two
  are equal and every order by them is that of the ledger (`OrderIsIdentity`,
  `SortedIsLedger`), and the ledger is healthy.
- `ReportCorrect`: `TSpec => []ReportDecides`, for tables of any rows. An entry whose
  balances are not negative passes the wrapping check exactly when it is right in exact
  arithmetic (`EntryDecided`); wallet by wallet the two loops over the entries amount to
  the chain from zero (`WalletDecided`); transaction by transaction the comparison of
  counts, types, wallets and amounts amounts to having exactly its legs
  (`TransactionDecided`).

### Listings

- What a page holds: of the rows created after any instant, a page has as many as fall
  in its window of places (`PageAbove`). Rows of one instant may come in any order, so this
  is shown group by group, from the newest. A row at an instant of its own is on the page
  exactly when its place is in the window (`PagePlace`), and a page is full unless the rows
  end (`PageSize`).
- The base (`BaseInv`): types, that finitely many rows have been written, which rows may
  be in `start`, `own` and `left`, and that nothing is remembered between sweeps.
  `TypeCorrect` follows. Rows stay with their `created_at`; those listed or left only grow
  (`Growth`).
- `CountHolds`: `Spec => []CountIsFloor`. What COUNT found is still listed or left since
  that COUNT (`CountInv`, `GoneGrows`).
- `SweepMoves`: `Spec => []SweepAdvances`. When a full page was found, the rows for it and
  all the pages before it were there, and of them the sweep's own reads had added one a
  page at most (`SweepInv`).
- `QuietExact`: `Spec => []QuietSweepExact`. The rows seen are those whose place the sweep
  has passed (`QuietInv`).
- `SweepComplete`: `Spec => []NothingMissed`. A row is missed when the sweep has passed its
  place without showing it. Rows that come push places down, where the sweep is still to
  come; a row that leaves moves the others up by one, so at most one more row at a place of
  its own slips behind. There are never more missed than left (`MissInv`).

### Sums

`Total(f, S)` is a fold over a finite set. The laws that the proofs need (the empty sum, one
element apart, disjoint sets, an update, a shift of the index, a chain of differences) are
proved in `Sums_proofs` from the definition of the fold: a law that failed would fail on a
set of smallest cardinality, which the well-founded order on the numbers gives
(`LeastNatural`), without an induction rule that takes a predicate. The groups of rows in
`PageAbove` are taken the same way.

### Model-checked only

Liveness (`EveryCallAnswered`, `EventuallySettled`, `DenialEnds`, `EveryRequestAnswered`)
needs fairness and ENABLED, which the provers do not handle. The two findings are
counterexamples of TLC. Everything else that a run checks is a theorem.

## Not modelled

- Opening the database and Redis, the wiring of `main` and the shutdown after a signal:
  a process that stops anywhere is a crash in `MoneyMovement`, `Webhooks` and `Accounts`,
  and nobody waits for the worker.
- `GET /users/me` and `GET /admin/webhooks/:id` (one row by its id), and health: they
  change nothing and relate nothing.
- Latencies, trace and request ids, log formats, the counter of webhook events, the
  rendering of bodies: output that nothing reads back.
- Validation of request bodies beyond the guards of the `Receive` actions.
- The settings of the webhook worker and the window of the limiter: constants of
  `Webhooks` and `RateLimit`, which assume them positive. The worker replaces values
  below one (`internal/usecase/webhook.go:299-319`); the limiter does not, and a window
  of zero or less would switch it off.
- The in-memory repositories: used by the tests only.
- PostgreSQL's deadlock detector and lock timeouts beyond `Fail`.

## Plan

1. Done: `Entities`, `Bank`, `MoneyMovement` with its proofs, `Webhooks`,
   `ReconcileState`, `Reconciliation`, `TamperedTables`, `Accounts`, `RateLimit`,
   `Listings`; then `WebhookFeed`, `LedgerClock`, `Reads`, `Configuration`, `Pipeline`,
   the memory limiter and the filtered listings.
2. Done: the proofs of money movement, reads, webhooks, accounts, rate limiter, HTTP layer,
   reconciliation and listings.
3. Open: liveness has no proof, only its runs; health checks and the wiring of `main` have no
   module.
