# A TLA+ model of Demo Credit, the wallet service

Demo Credit (`src/`, Node.js, Express, Knex, MySQL) keeps users' money in
wallets.  Deposits and withdrawals are initiated by a user and confirmed later
by a payment gateway; transfers are made at once.  Every movement is written to
a double-entry ledger, and every write endpoint is guarded by an idempotency
key.  These modules model it where requests meet (the services that move money,
the key table, registration, the HTTP layer that joins them, the pool of
connections) and where numbers have edges (amounts, queries, rate limits).

Paths below are relative to `src/src/`.

## Inventory

| Part | State it keeps | Operations | What makes it correct |
|---|---|---|---|
| Deposits (`modules/Transactions/Deposit`) | `transactions`, `fundings`, `wallets` | `initiateDeposit`, `confirmDeposit` | credited once, from SYSTEM, with its ledger |
| Withdrawals (`.../Withdrawal`) | `transactions`, `withdrawals`, `wallets` | `initiateWithdrawal`, `confirmWithdrawal` (settled or failed) | covered by the balance; HOLDING is the escrow; settled or refunded, never both |
| Transfers (`.../Transfer`) | `transactions`, `transfers`, `wallets` | `initiateTransfer` | both legs or none; covered; no deadlock with its like |
| Wallets (`modules/Wallet`) | `wallets.balance` | locking read, plain read, increment, decrement | no MAIN wallet below zero; nothing created or lost |
| Ledger (`modules/Ledger`) | `ledger_entries` | `createDoubleEntry` | the entries of a wallet add up to its balance |
| Transaction rows (`modules/Transactions`) | `transactions` | create, update status; list with filters, show with details | a final status is final; a view is never a lie about money |
| Amounts (`utils/helpers.ts`, `sanitize`) | the row object of a service | naira to kobo, kobo to naira in place | each amount converted once, rounded fairly |
| Idempotency (`modules/Idempotency`, `utils/helpers.ts`) | `idempotency_keys` | middleware, `createKey`, `completeKey`, `deleteKey`; expiry | one handler per key, one execution per key, faithful replays, no key blocked for ever |
| Registration, users, Karma (`modules/User`, `modules/Karma`) | `users`, `wallets` | `createUser`, profile | one account per e-mail, with its wallet; who was listed stays out |
| Authentication (`modules/Auth`) | none: the token, for seven days | login, `authenticate` | a token is refused only for its age |
| Rate limiter (`middlewares/rateLimiter.ts`) | counters in memory | count, refuse, restart | at most n per window, nobody refused without cause or for ever |
| Validation, errors, answers | none | coercion, checks, status codes | - |
| InnoDB and Knex's pool | row locks, snapshots, indexes, connections | lock, wait, commit, roll back, queue | (assumed, see below); no wait that nobody sees |

How they interact.  A request passes the limiters, authentication, validation and the
idempotency middleware (three statements of its own, outside any transaction), then
one controller calls one service.  The service runs one database transaction, on one
connection of the pool, and awaits each statement, so that other requests run between
any two of them.  The wrapper `idempotentControllerWrapper` then answers the client and
fires `completeKey` or `deleteKey` without awaiting them.

What is hard here: the interleaving of transactions that read with and without
locks; deadlocks between services that lock the same wallets in different
orders; the status of a transaction tested on an unlocked read; the window
between a commit, the completion of its key and the answer; a crash in that
window; keys that expire; registrations of one e-mail that all pass the check;
views put together from statements that run at different moments; row objects
converted in place; windows that turn.  `PROJECT.json` lists these hazards line
by line with the properties that watch them.

## Modules

| Module | Models | Extends |
|---|---|---|
| `Payments` | the three services as concurrent transactions | - |
| `Bank` | what the platform promises: an abstract bank | - |
| `Bookkeeping` | the ledger's sums, and the refinement of `Bank` by `Payments` | `Payments` |
| `Idempotency` | key table, middleware, `createKey`, wrapper | - |
| `Api` | a request through `Idempotency` into `Payments` and back | `Bookkeeping`, instance of `Idempotency` |
| `Pool` | the connections that the services run on | `Payments` |
| `History` | the two views of the history beside running services | `Payments` |
| `Accounts` | registration with its blacklist, login, tokens, profile | - |
| `Naira` | the two conversions of an amount | - |
| `Amounts` | one user's amounts from body to wallet to answer | `Naira` |
| `TransactionQuery` | filters, order and page of `GET /transactions` | `Naira` |
| `RateLimiter` | the global limiter and that of a route | - |
| `MCPayments`, `MCApi`, `MCHistory`, `MCAccounts` | small instances for TLC | |
| `MCProgress` | `Pool` and `Api`, one of them per behaviour, with their fairness | `Pool`, `MCApi` |
| `MCEdges` | `Amounts`, `TransactionQuery` and `RateLimiter`, one of them per behaviour | all three |
| `PaymentsProofs`, `IdempotencyProofs`, `AccountsProofs` | theorems, checked by TLAPS | the module of their name |
| `Sums` | what a sum over a finite set is: lemmas | - |
| `BankProofs` | `Payments` implements `Bank`, and the sums of the ledger, proved | `PaymentsProofs`, `Bookkeeping`, `Sums` |
| `ConcurrencyProofs` | deadlocks, the pool and the history, proved | `PaymentsProofs`, `Pool`, `History` |
| `ApiProofs` | calls from end to end, proved | `Api`, `BankProofs`, instance of `IdempotencyProofs` |
| `EdgesProofs` | amounts, rate limits and queries, proved | `Amounts`, `RateLimiter`, `TransactionQuery`, `Sums` |

### Payments

A request `r` is one call of a service.  `pc[r]` is the statement it is about to
run: `lock` (the rows of `SELECT ... FOR UPDATE`, one at a time), `check` (the
guards that follow), `shareTxn` (the foreign-key lock of a REVERSAL row),
`updateTxn` (`updateTransactionStatus`), `updateWallet` (`incrementBalance` or
`decrementBalance` of a row not locked yet), `commit`, and then the answer.
`seen[r]` holds the balances it has read, `held[r]` and `txnLock[r]` its row
locks, `todo[r]` the wallets it has still to lock.  `balance`, `txns`, `ledger`
and `details` are the committed tables; a service's writes appear in its commit
action (`CommitWithdrawal`, `CommitTransfer`, `CommitDeposit`,
`CommitSettlement`, `CommitReversal`), which is sound because the rows it
updates are locked until then and nobody reads uncommitted data.  A statement
that fails before it, also between the two legs of a transfer, is `Abort`: MySQL
rolls back what the earlier ones wrote, so that no property can be about half a
movement.  `initiateDeposit` writes one row that nobody waits for, and is one step.

| Code | Actions |
|---|---|
| `initiateDeposit` | `InitiateDeposit` |
| `initiateWithdrawal` | `InitiateWithdrawal`, `LockWallet`, `ReadHolding` or `Refuse`, `UpdateWallet`, `CommitWithdrawal` |
| `initiateTransfer` | `RefuseSelfTransfer`, or `InitiateTransfer`, `LockWallet` twice, `ReadHolding` or `Refuse`, `UpdateWallet`, `CommitTransfer` |
| `confirmDeposit` | `RefuseConfirmation`, or `ConfirmDeposit`, `UpdateTxn`, `UpdateWallet` twice, `CommitDeposit` |
| `confirmWithdrawal(_, true)` | `RefuseConfirmation`, or `Settle`, `UpdateTxn`, `UpdateWallet` twice, `CommitSettlement` |
| `confirmWithdrawal(_, false)` | `RefuseConfirmation`, or `Reverse`, `ShareTxn`, `UpdateTxn`, `UpdateWallet` twice, `CommitReversal` |
| any failure, any deadlock | `Abort`, `Victim` |

What is assumed of MySQL, and where it shows: REPEATABLE READ (`BeginConfirming`
takes the whole snapshot, `LockWallet` reads the committed row), exclusive row
locks until the end of the transaction (`Granted`), shared locks from foreign
keys (`ShareTxn`; those on rows that nobody locks exclusively are left out),
detection of deadlocks (`Victim`).  `whereIn(...).forUpdate()` is assumed to
lock only the rows it finds, by the unique index on `user_id` and in its order;
a plan that scans the whole table would lock more.  Generated references and
the HOLDING and SYSTEM rows are taken to be unique.

### Idempotency

A row is identified by the request that inserted it, and holds the body (for its
hash), the status, whose result is cached, and whether it is still valid.
Lookup, recheck, clearing an expired row and insert are separate steps.
`effects` holds the statements the wrapper has fired and not awaited: they land
in any order, or never when the process dies.  `Expire` lets 24 hours pass; it
assumes that no handler and no statement takes that long.  `LostAcks` lets a
COMMIT succeed and be reported as failed.

### Api

Requests are drawn from the set `Calls` (caller, key, body).  The two components
share only the request: the service starts when its key is inserted, the commit
is `ServiceCommits` of the middleware's state machine, and the answer becomes
`Succeed` or `Fail`.  `ServerDies` ends all handlers and rolls back all open
transactions in one step.  Confirmations use their reference as key, and
`confirmDeposit` completes a second key, that of the deposit's owner.

`Coerced` is what `z.coerce.boolean()` makes of the field `success`: a string
that is not empty is true, so a report of `"false"` settles the withdrawal.  The
hash is taken of the validated body, as in the code.

### Pool

`Transaction` is `db.transaction` up to the wait for a connection, `Acquire` hands
a free one to the head of the queue, `Run` is a statement of `Payments` by a
request that has a connection, and `Released` returns it with the commit or the
rollback.  `AcquireTimesOut` is Knex's refusal after waiting too long.  Every
statement of a service is given `trx`; `MaySendUnscoped` is the slip of
forgetting it once, and with it the pool wedges itself.  The middleware's
statements, which take a connection for one statement each, are left out.

### History

A reader `v` asks for one transaction (`Ask`) or for its history (`Search`);
`left[v]` holds the statements it has still to run, `got[v]` what the others
returned.  The row and its details are read one after the other, the count and the
page at the same time (`Promise.all`), none of them in a transaction.  Readers run
beside any action of `Payments`.

A search has a type, a status and a limit.  `Selection` is the WHERE clause of
`findWithFilters`, which the count and the page share; a status enters and leaves it
while it is read.  Bounds on the amount or the date compare columns that never
change, as the type does, and are left to `TransactionQuery`.  `IsPage` is ORDER BY
and LIMIT; the controller passes no page, so that OFFSET is 0.  `create` sets
`created_at` when it inserts (`transaction.repo.ts:47`), not at the commit, so of two
rows of overlapping requests either may be the newer, and `IsPage` leaves it open;
but a row is newer than the one it refers to (`Newer`), if the server's clock is not
set back.  `always[v]` and `ever[v]` are not part of the program: they remember
which rows the search of `v` selected at every, and at some, moment so far.

### Accounts

| Code | Actions |
|---|---|
| `createUser` | `Register` (the check), `KarmaAnswers` for each identity, `Forbid` or `Admit`, `InsertUser` or `DuplicateUser`, `InsertWallet`, `CommitUser` |
| `login` | `Login` |
| `authenticate`, `GET /users/me`, `GET /wallet` | `Request`, `Authenticate`, `ReadUser`, `ReadWallet` |
| seven days pass | `Expire` |
| failures | `Abort`, `CommitUnacknowledged`, `Crash` |
| Adjutor | `BlacklistChanges` |

The rows of a user and of its wallet are inserted by two statements.  `drafts[r]` is
the set of tables the open transaction of `r` has written; a failure or crash between
the statements, or after them, empties it, and COMMIT publishes what is in it, be it
one row or two (`Stores`).  `users` and `wallets` are the committed rows.  The insert
of a user waits while another open transaction has inserted the same e-mail
(`Inserters`) and fails when that one has committed (`EmailTaken`).

A token is named by the call that returned it, and `issued` has the user it names.
`Request` verifies the token once, when the call arrives; it may expire while the
call goes on.  No token, and one that nobody issued, are refused alike.  A call of
Karma ends as listed, as clear, or failed, and failing admits the user, as the code
does.  `throughout[r]` is not part of the program: it remembers which of the
identities were on the blacklist ever since `r` arrived.

### Naira, Amounts

Numbers of the program are written exactly, in thousandths of their unit: `Kobo`
is `Math.round(amount * 100)`, `Formatted` is `formatAmount`.  `Amounts` runs the
services one after the other and follows the amount of the row object through
`Steps`: the wallet is updated from it, `sanitize` converts it in place, and the
answer carries it.  `told` is the balance as the user can add it up from answers.

### TransactionQuery

One call on a fixed table: `Valid` is what zod and the controller refuse,
`Filters` and `Pagination` what the controller passes on, `Selected`, `Newer`,
`Ordered` (`ORDER BY`, by the number of newer rows) and `FindWithFilters` the two
statements of the repository.  `Meant` is the reference:
what the caller means, in amounts as they are shown.

### RateLimiter

Time is a number of ticks, and a window a number of them.  `hits` and `left` are
the two fields of the library's store for a key; `recent` is not part of the
program, and counts by age what was let through.  The global limiter runs before
authentication, so that its key holds no user.

### Bank

`Bank` has balances and postings and nothing else.  A step moves one amount
between two wallets, or through a third one, posts it, and may overdraw only a
wallet of the platform.  `Bookkeeping!Bank` maps a CREDIT and a DEBIT that one
request wrote for one transaction to a posting; `ImplementsBank` says that each
step of `Payments` is a step of the bank or changes nothing the bank sees.

## Properties and runs

| Run | Expected | Instance | States | What it shows |
|---|---|---|---|---|
| `payments` | holds | 2 users, 3 requests, amounts 1 and 2 | 221 315 | `MainNeverOverdrawn`, `LockDiscipline` (the inductive invariant of the proofs), `OnlyReversalsDeadlock`, `Conservation`, `LedgerReplay`, `LockedAuditTrail`, `ImplementsBank` |
| `payments_progress` | holds | 1 user; 3 services on 2 connections, or 2 calls of 3 that may be made and 1 crash | 50 107 | `PoolNeverWedged`; `Served` and `EveryCallAnswered`: every call is answered |
| `idempotency` | holds | 3 requests, 1 key, 2 bodies, 2 crashes | 98 693 | `RowsOwned` (the inductive invariant of the proofs), `OneHandler`, `ExecutedOnce`, `ReplayFaithful`, `KeyReleased` |
| `api` | holds | gateway and owner, 3 requests, 1 crash | 550 528 | `Escrow`, `ConfirmedOnce`, `StatusFinal`, `FailedIffReversed`, `AnswersTrue` |
| `accounts` | holds | 2 calls on 2 e-mails and 1 phone, or 3 calls on 1 e-mail | 200 958 | `Consistency` (the inductive invariant of the proofs), `OneAccount`, `EveryUserHasWallet`, `Compliance`, `HoldersServed`, `RegistrationTrue`, `RequestAnswered` |
| `history` | holds | 2 users, 2 requests, 1 reader, 6 searches | 344 025 | `DetailsFollow`, `HonestHistory`, `TotalBracketed` |
| `edges` | holds | 6 amounts in chains of 3 transactions; 8 rows and 9 600 queries; 2 users behind 1 client, 1 restart | 253 993 | `BalanceAsTold`, `RoundedFairly`; `AnswerMeant`, `PageIsNewest`; `WindowBound`, `RefusedForCause`, `ShutOutEnds` |
| `audit_trail` | violated | 2 users, 2 requests | | README, 5, against the unlocked reads of the confirmations |
| `retry` | violated | as `idempotency` | | README, 6, against the unawaited `completeKey` |
| `lost_ack` | violated | as `idempotency`, acknowledgements may be lost | | README, 6, against `deleteKey` on every error |
| `two_callers` | violated | two callers confirm one deposit | | the comment at `deposit.route.ts:33`, against keys scoped by caller |
| `wrong_endpoint` | violated | a withdrawal confirmed as a deposit | | README, 1 (escrow), against the missing test of the type |

The five violated properties are statements of the repository about itself;
`findings` in `PROJECT.json` quotes each with its line.  `OnlyReversalsDeadlock`
and `LockedAuditTrail` state how much of the documentation does hold: every
circle of waiting requests contains a reversal, and the entries that
withdrawals and transfers write on users' wallets are exact.

`api` holds for a gateway that is one user and calls the endpoint of each
transaction's kind; `two_callers` and `wrong_endpoint` lift one condition each.
`OneConfirmer` and `RightEndpoints` state the two conditions, for the theorems too;
that the calls of `api` meet them is the assumption `GatewayAssumption` of `MCApi`.

What the others are about.  `PoolNeverWedged`: whenever all connections are
taken, one of their requests can go on, or waits in a circle that InnoDB sees.
`Compliance`: the blacklist is asked before the insert and changes at any time,
so the code cannot promise that no user is listed; it does keep out whoever was
listed all along, but for a failed call.  `EveryUserHasWallet` is what all services
rely on, and the transaction around two inserts is what keeps it; a wallet that
fails without failing the transaction (`InsertWalletOrNot`) breaks it.
`HoldersServed`: `authenticate` and the profile look the user up again, outside any
transaction, and never miss it; `InsertUserAtOnce` (the first insert not given
`trx`) lets somebody log in whose wallet is not there yet.

`HonestHistory` is README, 7, for a reader who asks in the middle of a reversal, with
any limit and without filters: `?type=WITHDRAWAL` or `?status=FAILED` leave the
reversal out because they were asked to.  It needs the order of the page as well as the
common commit.  `TotalBracketed` says how wrong the unsynchronised total and page can
be, with any filters: both lie between the rows that matched throughout the request
and those that matched at some moment of it, and only a full page leaves out one of
the former.  `AnswerMeant` compares kobo with the naira of the query, with half a kobo
of slack, and excepts a maximum that rounds to 0 kobo, which the code
drops.  `PageIsNewest` is about the first page only, which is the answer to every query
(see below for `page=2`).  `WindowBound` is what fixed windows guarantee: twice the
limit within any period as long as a window, and once more for each restart.

Bounds.  Two users and three requests are enough for each hazard of the
services: a race for one balance needs two requests, a circle of waiting
requests needs two (three for a circle through HOLDING, a wallet and a row of
`transactions`), and a third is the bystander that must not be disturbed.
Amounts 1 and 2 against an opening balance of 2 make one withdrawal succeed and
the next fail.  The opening state has a deposit and a withdrawal pending, as
after earlier calls, so that three requests suffice to confirm, to confirm again
and to race with a new one.  Requests are symmetric and declared so where no
liveness is checked.  `MaxCrashes` is 2 for the keys and 1 with the services.

* `payments_progress`: `PoolSize` is 2 for three services, so that one waits;
  with the calls, `Unsent` is the third request, which is not sent.  Two callers
  who both report the withdrawal as failed deadlock over its row, and a withdrawal
  can take the place of either.
* `accounts`: two calls race for one e-mail, with a phone or without, or one holds
  a token of the other; three calls on one e-mail let one register, one log in and
  one ask for a profile while the first is still at work (`crowd` of `MCAccounts`,
  `Third` is the call that only a crowd of three makes).  `Volatile` is the one
  identity that the blacklist gains and loses.  That the safety properties hold for
  any number of requests is proved.
* `history`: one reader, who shares no state with another; what it reads can fall
  before, between and after the commits of both requests.  A user has up to three
  rows, so that limits 1 and 2 cut a page off and 20, the default, does not;
  `MCSearches` filters by type, by a status that rows leave, and by one that they
  enter.
* `edges`: the amounts lie below, on and above half a kobo.  Three transactions
  (`MaxRows`) leave two conversions behind a third.  The table has equal times, a
  row older than one with a smaller id, and an amount of 0; each of eight
  parameters is absent, at a bound or refused.  Limits 3 and 1 with windows of 2
  and 3 ticks let one limiter refuse what the other counts; `MaxRestarts` is 1.

Nothing else is cut off: a request runs to its answer, and then the system
really may stop, which is why deadlock is not checked.

Fairness.  `FairSpec` of `Payments` assumes that an enabled statement is run (Node
continues every promise and MySQL grants a free lock) and that a deadlock is
broken.  `MCProgress` states the same for the calls of `Api` (`Goes`), and for the pool
that a free connection is handed out.  `FairSpec` of `Accounts`, and `MCSpec`, assume
that every await ends (a call of Karma has a time-out of ten seconds).
`IdempotencyFairSpec` assumes that statements run, fired effects land, and 24 hours do
pass; `RateLimiter` that the clock ticks.  None of them obliges a request to arrive, a
statement to fail, a transaction to time out or the process to crash; after a crash a
row in PROCESSING is released only by its expiry.

Each property of a run that holds has a mutant: a definition such as
`GrantedUnlocked` (the lock flag of `findByUserId` forgotten) or
`CanAlwaysInsert` (the unique index missing) that stands beside the one it
would replace, and with which TLC finds the property violated.

## Proofs

`PaymentsProofs` proves, for any number of users and requests and any amounts
and opening balances that meet the assumptions of `Payments`:

* `TypeCorrect`: `Spec => []TypeOK`
* `Disciplined`: `Spec => []LockDiscipline`
* `NeverOverdrawn`: `Spec => []MainNeverOverdrawn`
* `AuditTrailUnderLock`: `Spec => LockedAuditTrail`

`MainNeverOverdrawn` is not inductive: a commit debits a balance that was tested
statements earlier.  `LockDiscipline` closes the gap.  It says that row locks
are exclusive (`Exclusive`), that a request at each statement holds exactly the
rows its service has asked for by then (`OnPlan`), that it knows the row it
confirms (`JobKnown`), and that what a withdrawal or transfer has read of a
user's wallet under its lock is the committed balance, and still covers the
amount (`StillAccepted`).  The lemma `Frame` carries it through the steps of
others: a step of `r` changes only balances that `r` has locked, so it disturbs
nothing another request relies on.  Then there is one lemma per action.  Money
leaves a user's wallet only in `CommitWithdrawal` and `CommitTransfer`, where
`StillAccepted` gives the balance; confirmations debit the platform's wallets.
The audit trail follows from the same invariant at the same two commits.

`BankProofs` proves `PaymentsImplementBank`: `Spec => ImplementsBank`.  The invariant
adds `Posted` to that of `PaymentsProofs`: entries are those of requests that have
committed.  A request commits once, so the entries of a commit pair with each other
and with nothing else, and each double entry is one new posting (`NewPostings`,
`OnePair`); `StillAccepted` makes the movement a covered one (`CommitIsMovement`).

`IdempotencyProofs` proves, for any requests, keys and bodies, `KeysTyped`,
`RowsAlwaysOwned`, `OneHandlerPerKey`, `ReplaysFaithful`, and `ExecutedAtMostOnce`
under the assumption that no acknowledgement of a COMMIT is lost (the run
`lost_ack` shows that it is needed).  None of the last three is inductive:
whether a handler may start depends on what statements fired long ago will do to
the row.  `RowsOwned` is the strengthening: a live row belongs to the request that
inserted it, with its body (`RowKnown`); a request in its handler owns the row
(`HandlerOwns`); an effect under way belongs to the owner of its row or finds none
of anybody else (`EffectOwns`); who is about to clear a row clears only an expired
one (`ClearsExpired`); and what was executed keeps its row until it expires
(`ExecutedOwns`).

`AccountsProofs` proves, for any requests, e-mails, phones and blacklist,
`AccountsTyped`, `OneAccountPerEmail`, `WalletWithUser`, `BlacklistedKeptOut`,
`HoldersAlwaysServed`, `RegistrationsTold` and the invariant they rest on,
`AccountsConsistent`: an inserted row that is not committed is the only one with
its e-mail (`DraftsExclusive`), an open transaction has written what its statements
so far insert (`DraftsKnown`), a row of `users` belongs to a registration that ended
and a token to a row (`RowsComplete`), no answer of Karma is better than the
blacklist has been since (`VerdictsFair`), and a profile is read for somebody who was
given a token (`SessionsKnown`).  `WalletWithUser` follows from `DraftsKnown` at the
two commits (`WalletStep`): whoever reaches COMMIT has written both rows.
`HoldersAlwaysServed` combines it with `RowsComplete`: users are never deleted, so that
what a token names is there whenever it is looked up.

`EdgesProofs` proves, for the three components of `edges`:

* `BalanceIsTold` and `AmountsRoundedFairly`, for any amounts and any number of
  transactions.  The balance shown is ahead of, or equal to, what was told by
  exactly the amount of the call in progress, before and after each of its
  conversions; formatting whole kobo is exact, so conversions do not add up errors.
* `LimitsHold` and `RefusalsDeserved`, for any limits, windows, clients and number of
  restarts.  Neither bound is inductive.  `Books` says of one key what its open
  window accounts for: its hits, cut off at the limit, lie between what was let
  through after and since the tick in which the window began, and the rest fits
  into one limit and one more for each restart.  The tick itself must be counted
  apart because a restart within it forgets requests of the same tick.
* `AnswersMeant` and `PagesAreNewest`, for any table and any query.  The number of
  newer rows (`Rank`) is a bijection from the chosen rows to the first numbers,
  which is what makes `Ordered` a sorting; the rest is the half kobo of `Kobo`.

### Sums

The sums of the community modules recurse over subsets, and the theorems on
induction cannot be used here.  `Sums` goes around them: it states its claims as
sets of subsets and derives a contradiction from a minimal subset outside
(`SubsetsSet`).  That gives a function that satisfies the recursion
(`AddsExists`), at most one (`AddsUnique`), and with them that a sum may be
taken apart at any element (`SumRemove`), which the recursion itself says only of
the element that CHOOSE picks.

With it, `BankProofs` proves `LedgerAlwaysReplays` (`Spec => []LedgerReplay`) and
`MoneyConserved` (`Spec => []Conservation`): a commit changes balances by
amounts that cancel out, and adds an entry for each of those changes, which is a
new one because a request commits once (`Posted`).

### Concurrency

`ConcurrencyProofs` proves, of requests that overlap:

* `DeadlocksContainReversal`: `Spec => []OnlyReversalsDeadlock`, from the invariant
  of `PaymentsProofs`.  But for a reversal, a request that waits for a wallet holds
  only lower ones, the users' wallets being numbered before HOLDING and SYSTEM
  (`LocksAscend`), and one that waits for the row of a transaction holds nothing.
  So in a circle without a reversal all wait for wallets, and whoever holds the
  highest of them would wait for a higher one.
* `PoolAlwaysGoesOn`: `PoolSpec => []PoolNeverWedged`, for a pool of any size.  A
  running request has a connection (`PInv`).  If none of them can go on, each waits
  for another of them, and a smallest set with that property is a circle
  (`SmallestCircle`).
* `HistoryHonest`: `HistorySpec => []HonestHistory`, for any number of readers beside
  any services, any searches and limits.  The page is read in one statement, a
  reversal commits its row and the status of its withdrawal together, and it is newer
  than the withdrawal, so that a page that has the one has the other.
* `DetailsAlwaysFollow` and `TotalAlwaysBracketed`.  `WInv` adds to the invariant of the
  services that a row of a withdrawal or transfer has its details (`Described`), and
  that a confirmed deposit has them from whoever confirmed it (`ConfirmedBy`); rows
  and details are never deleted.  `Reads` says what a half-finished view may already
  rely on: a row read as confirmed stays confirmed, so the details read later are
  there; and what was counted or shown was taken from one set of rows between
  `always` and `ever` (`CountBetween`, `PageBetween`), which stays between them as
  services go on, because the one only shrinks and the other only grows.

### Calls from end to end

`ApiProofs` joins the two invariants.  `ApiSpec` is not a run of `Idempotency` by
itself: `confirmDeposit` completes a second key, which that module knows nothing of.
If a transaction is confirmed by one caller (`OneConfirmer`), nobody ever has that
key, so that the effects on own keys (`OwnEffects`) do behave as `Idempotency` says:
`IdempotencyProofs` is instantiated with them, and its lemmas are used for every
step of the middleware.  `AInv` adds that a service runs only while its request is
being handled (`Staged`), that it does what the validated body says (`Serving`), and
that effects are on the keys they may be on (`EffectKnown`).  From it follow, all
`ASSUME OneConfirmer(Calls)`:

* `AnswersAlwaysTrue`: `ApiSpec => []AnswersTrue`.
* `ConfirmedAtMostOnce`: `ApiSpec => []ConfirmedOnce`, and `StatusNeverChangesAgain`:
  `ApiSpec => StatusFinal`.  The services alone do not promise either: they test the
  status on an unlocked read.  `CInv` adds that who is confirming a transaction
  finds it pending to the end (`Confirmation`), because two requests that confirm it
  have one key, and the row of a key has one owner.  It holds although no
  assumption is made on crashes, expiry or lost acknowledgements: a confirmation
  that is executed again reads the final status, and is refused.
* `FailedExactlyIfReversed`: `ApiSpec => []FailedIffReversed` (`FInv`).
* `EscrowBalanced`: `ApiSpec => []Escrow`, `ASSUME RightEndpoints(Calls)` as well.
  `EscrowInv` follows HOLDING through the five commits and needs that a withdrawal is
  confirmed once, as a withdrawal.

`two_callers` and `wrong_endpoint` show that the hypotheses cannot be left out.

### Assumptions

The theorems hold for all constants that meet the named assumptions, which TLC
evaluates on every run.  Those worth a word: the rows at the start are finitely many,
a `parent_transaction_id` is one of them (a foreign key), a REVERSAL has one, and a
withdrawal that FAILED has its REVERSAL with the same owner (`OpeningAssumption`,
`RefundsAssumption`, `ReversalsAssumption`: only `confirmWithdrawal` writes either);
HOLDING starts with what the pending withdrawals reserve (`EscrowAssumption`: both
start at zero in the seed); a confirmation is named by its reference
(`CallsAssumption`: the two confirm routes overwrite the header); `None` is none of
the values it stands in for (`NullAssumption`, `KeyedAssumption`, `ReadersAssumption`,
`NothingAssumption`); in a query zod leaves numbers (`QueriesAssumption`), and a search
has a positive limit (`SearchesAssumption`).

### What is only model-checked

Every invariant and every action property of the runs that hold is proved.  What
is left to TLC is liveness (`Served`, `EveryCallAnswered`, `KeyReleased`,
`RequestAnswered`, `ShutOutEnds`), which is out of the prover's reach, on the
instances and under the fairness given above.

## Where code and documents differ, beyond the findings

Met while modelling; each is one step of one call, which the modules translate as
the code has it, and no run is about it.

* `utils/APIError.ts:75` answers a violated unique constraint with 409, but knows
  it by Prisma's code; through Knex and mysql2 a duplicate is 500 (`DuplicateUser`,
  `RefuseDuplicate`).
* `deposit.type.ts:13` asks for a positive amount; 0.004 naira is one, and moves 0
  kobo (`Kobo`).
* The repository's README (lines 99 and 199) says that amounts are sent in kobo;
  the services multiply them by 100.
* The history is documented as paginated (README:217), but the controller drops
  `page` (`Pagination`), so that `page=2` is answered with the first page, and
  `PageIsNewest` says nothing of it; `amount_max=0` is no filter (`Given`).
* README, 8, promises ten transfers an hour, and the comment at
  `transfer.route.ts:13` ten a minute; fixed windows let twenty through within an
  hour, around the turn of a window (`WindowBound`).  `auth.routes.ts:23` says five
  registrations and passes 10.
* A failed withdrawal reported with the string `"false"` is settled, against
  README:84 (`Coerced`).

## Not modelled

Signatures of tokens, and the code of the answer to a bad or expired one (500, because
`jwt.verify` throws no `APIError`); the routes' order, by which a repeated transfer
is refused with 429 before the idempotency middleware could replay it; formats and
wording of answers; ties of half a kobo that binary fractions decide; start-up and
configuration; the down migrations.  The seeds leave one HOLDING and one SYSTEM
row, and the models start there.  `failKey` and the status FAILED of a key are
never used.  A statement that fails for a reason of its own is `Abort`, whatever
the reason, and a lock wait that times out is one.
