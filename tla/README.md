# CapitalFlow in TLA+

CapitalFlow is a personal-finance server: a Go HTTP API and a command-line tool over one
PostgreSQL database. This directory holds TLA+ models of the parts of it that keep state and
share it between requests, TLC runs that check them on small instances, and TLAPS proofs of
the invariants that matter most. Paths below are relative to the repository.

Contents: [inventory](#inventory) · [how the code is modelled](#how-the-code-is-modelled) ·
[modules](#modules) · [runs](#runs) · [bounds](#bounds) · [fairness](#fairness) ·
[proofs](#proofs) · [where documents and code disagree](#where-documents-and-code-disagree) ·
[observations](#observations) · [not modelled](#not-modelled) · [plan](#plan)

## Inventory

Requests run in parallel goroutines, and several server and command processes may share the
database. A service (`internal/services`) validates a request, usually on rows it reads
without a lock; a repository (`internal/postgres`) then opens a transaction (READ COMMITTED),
locks rows and writes. Nothing but the rate limiter, the exchange-rate cache and the time of
the last passkey clean-up is kept in memory.

| Component | State | Operations | What is hard | What makes it correct |
|---|---|---|---|---|
| Ledger (`transaction_service`, `transfer_service`, `account_service`, `postgres/transactions.go`, `postgres/accounts.go`) | tables `accounts`, `transactions`, `transfers`, `audit_events`; row locks | create, cancel, soft-delete, reverse a transaction; transfer with conversion and fee; create, update, archive an account | validation on unlocked reads; two rows to lock; foreign keys that lock too; all-or-nothing writes | transfers stay whole and never overdraw; a transaction is undone once; the audit trail replays; the currency is frozen; no request waits for ever |
| HTTP idempotency (`middleware/idempotency.go`, `postgres/idempotency.go`) | table `idempotency_keys` | claim, run the handler, complete, replay, purge | retries that race; crashes between mutation and completion; lease and retention | no second execution while the outcome is stored or uncertain; answers are true |
| Interest engine (`interest_rule_service.go`) | none: calculates from rule, transactions and accruals | `Accrue`, `Recalculate`, `Forecast` | periods, month ends, terms, promotional rates, deferred capitalization | each day paid once, for what it earns; recalculations and forecasts agree |
| Interest lifecycle, rules, jobs, commands (`interest_lifecycle.go`, `interest_rule_management.go`, `jobs/interest.go`, `application/commands.go`, `postgres/interest_*.go`) | `interest_rules`, `interest_accruals`, interest transactions; account locks; advisory job locks | accrue, recalculate (API and commands); create and update rules; daily and monthly jobs | commands read without locks; jobs race requests; rules change meanwhile | one accrual per rule and date, linked to its transaction; calculated on all rows there are; no rule update lost; everything started ends |
| Sessions (`auth_service.go`, `authentication_policy.go`, `postgres/auth.go`) | `users` (password, failures, lockout), `refresh_tokens` | setup, login, refresh, logout, revoke one or all, change password | rotation races; reuse detection; revocation of rows that others hold; counters | one setup; a session is one line of tokens; revocations are final; failures all count |
| Passkeys (`passkey_service.go`, `postgres/passkeys.go`) | `webauthn_challenges`, `passkey_credentials`, time of last clean-up | registration and login ceremonies, rename, delete | a challenge answered twice; the clean-up of others' challenges; deletion during login; sign counts from stale reads | a challenge is used once; live challenges stay; deleted is final; counts fall only in overlaps |
| Goals and limits (`financial_goal_service.go`, `category_limit_service.go`) | `financial_goals`, `category_limits` | create, update with a version | lost updates; amount, account and currency changed separately | no lost update; amounts fit their currency |
| Dashboard (`dashboard_reporting.go`, `postgres/dashboard.go`) | none: reads the ledger's tables | net worth, monthly cash flow | two reports that count statuses and currencies by different rules | the flow of money explains the net worth |
| Exchange rates (`currency_service.go`) | in memory: rates per base currency with their expiry | latest, convert | overlapping and late answers, expiry, a clock read before the lookup | no rate is used after it was outlived |
| Rate limiter (`middleware/ratelimit.go`) | in memory: a bucket per client address | admit or refuse | addresses behind proxies, eviction at capacity, a clock read before the mutex | a window admits its limit; running windows are evicted last |
| Legacy import (`legacyjson`, `application/commands.go`, `postgres/migration.go`) | `accounts`, `interest_rules`, `transactions` by legacy id; the owner | import a file: create deposits, repair half-migrated ones, report | stops and repetitions, statements that commit alone, two imports, the first set-up meanwhile | a deposit comes once; a matching report is true; accounts get their owner |

Interactions: every mutation of the API passes the idempotency middleware, then a service,
then a repository. Transfers convert with the exchange-rate service. The interest lifecycle
locks the same account rows as the ledger and inserts into the same `transactions`. Jobs call
the lifecycle per account. Passkey logins issue sessions through the same policy as
passwords. Goals take their currency from an account. Mutations and currency conversions pass
a rate limiter first. The first set-up claims the accounts that an import left without an owner.

The hazards that follow from this, line by line, and the properties that cover each of them
are listed in `PROJECT.json`.

## How the code is modelled

- A *process* (`Proc`) is a request in flight. `pc` is its stage, `req` what was asked,
  `draft` (or `snap`, `target`) what it has read or built. One action stands for what the code
  does between two points where another request can run: a statement on the database, or the
  wait for a row lock. A service's unlocked reads and validation are the first action; the
  locked re-reads, checks and writes of one database transaction follow.
- Writes of one database transaction become visible at its commit, so a commit action holds
  all of them, audit events included. `Abort` (or `Crash`) drops what is not committed: a
  lost connection, a cancelled context or a failing statement at any stage.
- PostgreSQL is external: `FOR UPDATE` excludes other lockers, the `FOR KEY SHARE` locks of
  foreign keys conflict with it, `DeadlockVictim` aborts one transaction of a cycle of waits,
  unique keys and exclusion constraints are guards that refuse.
- Amounts are integers in the finest unit; a currency's `Unit` is its smallest amount, so a
  coarse currency (JPY beside USD) has a larger one. Rounding is half away from zero, as in
  `decimal.Round`. A rate is any member of a small set each time it is read.
- Time is a day (`Ledger`, `Interest`) or an abstract clock with a bound.
- What is kept in memory (`buckets`, `cache`, `lastCleanup`) is lost by `Restart`; a time that the
  code reads before a mutex or a statement is kept by the request, so that it may be old when used.
- Left out: text, formatting, descriptions, categories, logging and metrics.

## Modules

| Module | Models | State and actions |
|---|---|---|
| `Ledger` | the ledger | the six tables and logs; `Submit*` are services up to their transaction, `LockAccount`, `LockTransaction`, `ReferenceAccount` the lock waits, `Commit*` and `Reject*` the ends of `CreateForUser`, `CreateTransfer`, `updateManualTransactionStatusForUser`, `ReverseForUser`, `UpdateForUserEnforcingCurrencyInvariant`, `ArchiveForUser` |
| `AtomicLedger` | what the ledger promises | the three tables and no requests: posting, moving, withdrawing, undoing and amending, each atomic and with its conditions on the current rows |
| `Dashboard` | the reports, on top of `Ledger` | operators only: the queries `AccountBalances` and `MonthlyFlow`, and the reports built from them |
| `Sums` | the sums that loops build | operators only: running sums, and the sum over a set of indices |
| `MCLedger` | instances | two or three accounts in two currencies; request sets per scenario |
| `Idempotency` | the middleware and its table | `Arrive`, `Purge`, `InsertPending`/`InsertConflicts`, look-ups, `Commit`/`Decline` (the handler behind the middleware), `Complete`/`CompleteFails`, `Crash`, `Tick`; `effects` records the committed mutations |
| `InterestEngine` | the calculation | operators only, named as the functions they translate |
| `InterestTerm` | the engine run day by day | one rule, one history; `RunJob` posts what `Accrue` answers for the next day; a reference definition, with none of the engine's functions, of the days of the term (`InTerm`), the days that pay (`PaysOn`), the rate of a day (`RateOn`), what each day earns (`Earned`) and what is due on a date (`Due`) |
| `Interest` | lifecycle, rules, jobs and commands, on top of `InterestEngine` | the tables, `rowLock` per account, `jobLock` per job; an action per statement. What the rest of the system does to the tables: `Post` (a posting or the row of a reversal, which wait for the account), `Withdraw` (a cancellation or deletion, which does not) and `Archive` |
| `MCInterest` | an instance of `Interest` and of `InterestTerm`, which share their constants | `scenario` says which of the two a behaviour is about |
| `Sessions`, `MCSessions` | setup, login, refresh, revocation, password change | `user`, `tokens` with their predecessor, the rows a running `UPDATE` has still to visit |
| `Passkeys`, `MCPasskeys` | ceremonies and credentials | `challenges`, `credentials` with sign count and clone warning, `lastCleanup`; `yields` records what a consumed challenge produced |
| `Planning`, `MCPlanning` | goals and limits | rows with versions, accounts with their currency |
| `RateLimit` | the limiter | operators on the map of buckets: `clientIP`, `MakeRoom`, `Count`, `Allowed` |
| `ExchangeRates` | the cache of rates | operators on the cache: `Cached`, `Store` |
| `Server`, `MCServer` | requests that pass the limiter and ask for rates; composes `RateLimit` and `ExchangeRates` (`INSTANCE ... WITH`) | `buckets`, `cache`, a clock; `Arrive`, `CountRequest`, `Lookup`, `Fetch`, `Store`, `Use`, `Restart` |
| `LegacyImport`, `MCLegacyImport` | the import beside set-up and owner | `accounts` by legacy id, the `run` of each import; an action per statement; `contested` and `overtaken` record overlaps |
| `LedgerProofs`, `IdempotencyProofs`, `InterestProofs`, `SessionsProofs`, `PasskeysProofs`, `PlanningProofs`, `ServerProofs`, `LegacyImportProofs` | theorems | see [Proofs](#proofs) |

Definitions headed "Mutant" are not part of the models. Each is a plausible mistake in the
definition that follows it, and substituting it makes the property that `PROJECT.json` names
fail: a check that the property depends on the code.

## Runs

`tlc -config <run>.cfg <module>`; distinct states in parentheses.

| Run | Module | What it shows |
|---|---|---|
| `Ledger` (90 K) | `MCLedger` | Transfers in both directions between a USD and a JPY account, with a fee and a shared key, against postings, cancellations, deletions, reversals, account updates, openings and archivals. `LedgerInv`: the inductive invariant of the proofs. `TransferIntegrity`: legs, fee and currencies match for ever. `TransfersNeverOverdraw`: transfers out never exceed all credits. `OnlyReversalsDeadlock`: locking by id leaves no cycle of waits without a reversal in it. `ReversedOnce`. `AuditReplays`: each log joins and ends in the row. `FlowExplainsNetWorth`: the net worth, with what archived accounts hold, is the cash flow of all months, what transfers moved, and manual initial balances and adjustments; nothing else moves one report and not the other. `ImplementsAtomicLedger`: the interleaved requests refine `AtomicLedger`. `RequestsReturn`: every request ends. |
| `LedgerArchived`, `LedgerScale` | `MCLedger` | Counterexamples; see [below](#where-documents-and-code-disagree). |
| `Idempotency` (430 K) | `Idempotency` | Two clients, one key, two bodies, three requests. `AtMostOnce`: a key runs again only after a stored response outlived its retention. `RepliesAreTrue`: success is told only of committed mutations, refusal only of executions that changed nothing, and a replay repeats the first answer. `ClaimIsKept`. `IdempotencyInv`. `RequestsAnswered`. |
| `IdempotencyUncertain` | `Idempotency` | Counterexample; see below. |
| `Interest` (200 K) | `MCInterest` | Two kinds of behaviours. Requests (130 K): API, commands, daily and monthly jobs, postings, cancellations, an archival, rule changes, failures and crashes on two accounts with four rules. `AccrualsLinked`: an accrual and its transaction come and go together, one for a rule and date. `OnlyWithdrawalsEscape`: what the lifecycle writes is calculated on all rows there are; only a cancellation or deletion can have removed some since they were read. `PaysNewDays`. `OnlyItsRangeIsReplaced`. `RuleUpdatesApply`. `RequestsReturn`. Terms (70 K): 144 rules (accrual, capitalization, promotion, start, end) × 81 histories × five days. `AccruesWhatIsEarned` and `EveryDayPaidOnce` against the reference; `RecalculationConfirms` for every range in the past, and for a forecast of it made on the evening before. |
| `Sessions` (1.27 M) | `MCSessions` | Any two of setup, login, refresh, logout, revocation, password change at a time, five in all. `SetupOnce`. `SessionsAreLines`: a token has one successor at most, and only if it was rotated. `RevokedForGood`. `OnlyNewTokensOutlive`: what outlives a password change or a detected reuse was issued since its `UPDATE` started, by a login or by a refresh of a token it saw or of a newer one. `FailuresCount`. |
| `SessionsSurvive` | `MCSessions` | Counterexample; see below. |
| `Passkeys` (1.68 M) | `MCPasskeys` | Two ceremonies at a time, four requests in all, with restarts, on a passkey that is registered or not. `ChallengeUsedOnce`, `LiveChallengesKept`, `RevokedForGood`. `OnlyOverlapLosesCounts`: a sign count falls, or a clone warning is lost, only to a login that had read before another one wrote. |
| `Planning` (587 K) | `MCPlanning` | Updates against updates, creations and currency changes. `UpdatesApply`, `AmountsFit`. |
| `Server` (7.4 M) | `MCServer` | Three clients, directly and through a proxy, with forged headers, in a map of two buckets. `AdmittedWithinLimit`: since the process started no client has passed more than the limit for each window that can have begun, unless its bucket was removed while its window ran, by the clock or by the time of a request of its own that still waited. `LiveBucketsKept`: a running window is evicted only when as many are running as the map holds. `RatesAreFresh`: no amount is converted at a rate that was a time to live old when the request asked for it. |
| `LegacyImport` (2.29 M) | `MCLegacyImport` | Three imports, two at a time, of files that were changed in between, list an id twice or hold bad entries. `DepositOnce`, `MatchIsTrue`, `ImportedAccountsOwned`, each with the one exception that the statements leave open. |

No run checks for deadlock: once `MaxRequests` requests have been served the models stop.
What a deadlock check would find, a request that never returns, is `RequestsReturn` and
`RequestsAnswered`.

## Bounds

- `Proc` has two members: every race in the code is a conflict on one row (or two, for
  locks), and two requests at a time reach it; `MaxRequests` (3 to 5) leaves room for requests
  before and after the race.
- Two accounts, a third that does not exist yet, two currencies of different scale, and
  amounts that make the rounding of conversions and the balance check decide both ways.
- A month has two days and a year of the model has its leap days among them (`MonthLength`,
  `LeapDay`), so that five days hold two month ends, a term end inside a month and a
  promotional rate that ends inside a period. Histories post on the first four days. The rates make a day's interest half of the
  balance or all of it, so that compounding and rounding show.
- Leases, lifetimes and retentions are one or two ticks of clocks that reach two, enough to be
  before, at and after each of them. `Threshold = 2` failed logins lock; delays are two.
- Three clients share a map of two buckets, with a limit of one request in a window of two ticks:
  eviction, expiry and refusal all happen. There are five requests in all: with four, no older
  request that waits finds its bucket gone and restarts the count.
- Two legacy ids, of which one may be half-migrated; three imports leave room for one that stopped,
  one that overlaps and one that repeats.
- `MaxTokens = 3` refresh tokens: a session, its successor and a second session or successor.
- Processes are symmetric where no liveness is checked.

## Fairness

Fairness is assumed only of what the code or PostgreSQL runs by itself, never of clients, the
clock, crashes or lost connections.

- `Ledger`: weak fairness of a running handler (`Proceed`), strong fairness of lock waits
  (`Acquire`): PostgreSQL queues waiters, so a lock that is released again and again is given
  to each in turn; strong fairness of the deadlock detector, which runs after
  `deadlock_timeout`.
- `Idempotency`: weak fairness of `Step`: a statement returns or fails, a handler ends.
- `Interest`: strong fairness of lock waits (`Wait`, and `WriteEnds` for the commands, whose write
  waits for the account) and weak fairness of steps, for the same reasons. `WriteEnds` is the strong
  fairness of `Write` with the condition under which it is enabled written out.

## Proofs

Checked with `tlapm`. They hold for every set of processes, accounts, currencies, requests, files
and rules and for all bounds, limits and lifetimes that meet the `ASSUME`s of the modules; the
runs evaluate these on their instances. Every safety property has the same shape of proof: an
inductive invariant, stated in the component's module so that TLC can check it too; one lemma
per action; and lemmas that reduce the requests that did not move to the few facts about the
tables they rely on (`OthersKeep` in `LedgerProofs` and `SessionsProofs`). An action property follows from the invariant before the step.

What the `ASSUME`s ask, beyond types: account ids are naturals without 0, and a server runs
finitely many requests at a time (`ConstantsAssumption`, `ProcAssumption`); a value that stands
for "no row" is no row (`NoRecordAssumption`, `NobodyAssumption`, `NoneAssumption`); requests
name columns of their own and never the version (`PatchAssumption`, `OfferedAssumption`);
addresses of proxies are none of clients, and a trusted proxy passes on the address it sees
(`ServerAssumption`, `ProxyAssumption`); the database an import meets may be half-migrated, but
has no account without an owner once there is one (`OpeningAssumption`); a month has a day
(`CalendarAssumption`); days are counted from 1 in the reports, and the accounts that may be opened
have a last one (`PeriodAssumption`, `AccountsAssumption`); rules are active and as validation lets
them be, and a history gives each day of the term an amount (`TermsAssumption`).

`LedgerProofs`
- `InvariantHolds`: `Spec => []LedgerInv`, and `TypesHold`. `TypeOK` is not inductive: that a
  commit appends a well-formed row depends on what the request built some steps before
  (`DraftOK`), and that a withdrawal replaces the row it examined depends on the locks it holds
  (`LocksOK`, `Exclusive`). What a request in flight has built is of the kind its request asks
  for, with the amounts validated, a reversal is the exact opposite of what it undoes, locks are
  held as the stage says, nobody else holds them, and what was examined under a lock still holds.
- `LedgerRefines`: `Spec => ImplementsAtomicLedger`. Each commit is an event of `AtomicLedger`
  whose conditions hold on the rows at that moment, because `LedgerInv` carries them from the
  locked read to the write; every other step leaves the tables alone.
- `EntriesHold`, `TransfersIntact` and `ReversalsOnce`: `TransferIntegrity` and `ReversedOnce`.
  They are shown of the events of `AtomicLedger` and come over by the refinement. Neither is
  inductive: that a later row is taken for no leg or fee of an earlier transfer, and for no second
  reversal, needs that rows refer to rows that exist (`LinksOK`).
- `AuditHolds`: `AuditReplays`. A commit appends to a log what it does to the row, and the row it
  replaces is the one the log ends in.
- `DeadlocksNeedReversals`: `OnlyReversalsDeadlock`, for any number of requests and accounts. A
  request that locks by id waits for an account above all that it holds (`LockOrder`), so along
  a cycle without a reversal the awaited ids would grow for ever; `Proc` is finite.
- `NeverOverdrawn`: `TransfersNeverOverdraw`. The balance is checked before the commit and other
  credits may be cancelled later, so the proof follows credits ever made, which only grow:
  `CoverInv` says that what transfers took is the sum of the debits in the rows, and that a
  transfer about to be written is covered, since the lock keeps other transfers out. Lemmas
  describe the running sums (`SumTo`) when a row is appended or its status changes.

- `FlowInvHolds` and `FlowExplained`: `FlowExplainsNetWorth`. A row counts for the balance, for the
  cash flow, for the manual entries or for none of them, by status and type; `FlowInv` says that
  over all rows the difference is what transfers moved into the currency. A reversal takes its
  original out of the flow and brings an adjustment that undoes it, so both leave the sums
  together; that needs the links of `EntriesHold`. The two reports group the same rows differently,
  by account and by month: `GroupedSums` exchanges the two sums.

`IdempotencyProofs`
- `InvariantHolds`: `Spec => []IdempotencyInv`. `AtMostOnce` alone is not inductive: it needs
  that a mutation that has happened is protected by the record of its key or that this record
  was completed, expired and purged (`EffectsOK`), that a running execution owns the pending
  record (`ClaimsOK`) and that ids are fresh (`IdsOK`). `MutationsRunOnce` and `ClaimsHold`
  follow.
- `AnswersAreTrue`: `RepliesAreTrue`, from `RepliesInv`: what an execution knows of its handler
  (`OutcomesOK`), what a completed record stores (`ResponsesOK`) and what a request is about to
  answer (`AnswersOK`) all say what `effects` holds.

`InterestProofs`
- `InvariantHolds`: `Spec => []InterestInv`. An accrual is linked (`AccrualsStayLinked`) because
  what is written was calculated for pairs; `StageOK` says what a process has read at each stage,
  which the account's lock keeps true for the lifecycle and nothing keeps true for the commands;
  the unique key of rule and date is what protects from them.
- What `Recalculate` posts is a recursion over the days of its range, of any length. `PassOK`
  states what the pass over a range posts (dates in the range, one of each, of this rule); it is
  shown for every number of days by the least number for which it would fail. `SnapshotsCover`,
  `OnlyRangesReplaced` and `NoRuleUpdateLost` need no more than that.
- `SnapshotsCover`: `OnlyWithdrawalsEscape`. What a process has read covers the rows there are
  (`Covers`): nothing is added while the account is locked. It is not shown that they are equal, which
  `Withdraw` makes false.
- `NewDaysPaid`: `PaysNewDays`, for any month length. The period of a payment starts after the
  last payment before it (`AccruePosts`); a recalculation starts its calculation before its range,
  but no payment lies between the two (`RangeStart`).
- The reference of a term is a definition of its own. `PostsWhenItPays` (the engine's posting days are
  the days that pay), `TermIsActive` and `InterestIsDaily` (its rate, divisor and rounding are those
  of the reference) tie the two; a promotional rate, a month or a term that ended a day early or late
  would contradict them.
- `TermInvHolds`: `TermSpec => []TermInv`, the engine against its reference, for every rule, history,
  calendar and number of days. After each run the tables hold the payments of the reference and
  nothing else, with the days they pay: `AccruesEarned` and `DaysPaidOnce` (`AccruesWhatIsEarned` and
  `EveryDayPaidOnce`) follow. `Earned` is a recursion over days whose value on a day depends on all
  days before; `EarnedDef` shows that a function meets it. The balance on which `Accrue` calculates
  is a sum over a set of rows, that of the reference a sum over days: interest paid together is
  capitalized together (`JoinsWithPayment`), so that the sum over payments and that over the days
  they pay are one (`GroupedSums`, `JoinedIsCredited`, `RowsBalance`), and the period of a payment is
  the days that the reference pays on its date (`PeriodOfPayment`).
- `RecalculationsConfirm`: `RecalculationConfirms`. `PassIs` says what the loop of `Recalculate` has
  after each of its days: as principal the interest capitalized by then, as waiting that which is
  paid and not capitalized, what the days since the last payment have earned, and as posted the
  payments of the reference since its first day. It holds at the start, whatever payments of the range and
  of later days are in the tables (`PassStarts`), and from day to day (`PassDay`); for the latter
  every capitalization must come with a payment (`CapitalizationsPay`), the hypothesis of the
  property. The forecast reads the payments before its range only, and its balance is a sum of the
  same parts (`ForecastBalances`).

`SessionsProofs`
- `InvariantHolds`: `Spec => []SessionsInv`. `RequestOK` says for each stage which rows a request
  has locked and what it may rely on: the token it rotates is not revoked while it holds it, and
  while an `UPDATE` of all sessions runs, a token that is not revoked and that it has not seen is newer
  than all it has, and so is the one it replaced, unless the `UPDATE` saw that (`Outlives`).
  `LinesHold`, `FailuresHold`, `RevocationsStay`, `NewTokensOutlive` and `UserIsSetUpOnce` follow; the
  last is about any number of racing set-ups.

`PasskeysProofs`
- `InvariantHolds`: `Spec => []PasskeysInv`. `ChallengeUsedOnce` needs that a request past
  `ConsumeChallenge` owns the challenge, used and by nobody else (`OwnsChallenge`), and that an
  unused one has yielded nothing (`UnusedRows`). `ChallengesOnce`, `LiveChallengesStay`,
  `DeletedForGood` and `CountsLostInOverlapOnly` follow.

`PlanningProofs`
- `InvariantHolds`: `Spec => []PlanningInv`. Versions only grow, so a draft with the version of
  the row is a patch of that row; hence `NoUpdateLost`. `AmountsAlwaysFit` is about rows whose
  amount, account and currency are changed by separate requests.

`ServerProofs`
- `InvariantHolds`: `Spec => []ServerInv`: the cached rates (`RatesInv`), the capacity of the map
  (`RoomInv`), and what each client has passed (`CountsInv`): in the windows before that of its
  bucket and in this one, and without a bucket in windows that are over for the clock and for
  every request of that client that still waits with an older time. `RatesFresh`, `LimitHolds`
  and `LiveBucketsStay` follow, for any limit, window, capacity and time to live.

`LegacyImportProofs`
- `InvariantHolds`: `Spec => []ImportInv`: an uncommitted insert is alone with its id
  (`InsertsInv`), a repair has its row and is contested if another one has it too (`RepairsInv`),
  and an account without an owner was claimed or its transaction overlapped that of the set-up
  (`OwnersInv`). `DepositsComeOnce` and `AccountsOwned` follow, for files of any length.
- `ReportsAccounted` and `MatchesAreTrue`: `MatchIsTrue`, for files of any length and any number of
  imports. `ReportsInv` says that an import without an error so far has added to its report the
  amounts of the entries begun and the balances recorded for those done, and that each of these has
  its account, its rule and its initial balance, which nothing takes away again; a balance that
  was read is the one in the table as long as no two repairs of the account overlap.

What remains model-checked only are `RequestsReturn` of `Ledger` and of `Interest` and
`RequestsAnswered`: liveness under fairness is out of the prover's reach. Every invariant and every
other action property of a passing run is stated by a theorem. The recursive functions of the
models (running sums, what a day earns, the loop over days) are proved about by the least number for
which a claim would fail.

## Where documents and code disagree

Each of the first four has a run whose counterexample shows it.

1. `LedgerArchived`. `docs/architecture/invariants.md:13`: "Financial writes to archived
   accounts are rejected." Cancelling, deleting and reversing lock the transaction only and
   never read `accounts.is_active` (`postgres/transactions.go:409`), so the balance of an
   archived account can change.
2. `LedgerScale`. `docs/architecture/invariants.md:24`: "Amount scale must match the account
   currency." The amount is validated against an unlocked read; the locked read
   (`postgres/transactions.go:65`) compares `is_active` and `opened_at`, not the currency. An
   update of the currency that commits in between leaves an amount too fine for it. Transfers
   do compare the currency (`TransferIntegrity` holds).
3. `IdempotencyUncertain`. `docs/architecture/idempotency.md:28` keeps operations that may have
   been committed pending for an operator. A request cancelled during `COMMIT` is answered with
   499 (`handlers/response.go:147`); that is below 500, so the middleware completes the record
   with it (`middleware/idempotency.go:147`), and a retry replays a failure of something that
   may have happened.
4. `SessionsSurvive`. `docs/wiki/Auth-Security-Model.md:65`: "Password change revokes all active
   refresh sessions", and line 17 says that the reuse of a revoked token "revokes the full session
   family for that user". Both are one `UPDATE` (`postgres/auth.go:239`, `:386`) on the rows committed
   when it starts. It waits for a row that a refresh is replacing and then skips it as revoked; the
   successor is not in its snapshot, and the session goes on (`EverySessionEnds`).
   `OnlyNewTokensOutlive` says what does hold.

Three more show in how a property that holds had to be stated, or in its mutant:

5. `docs/architecture/invariants.md:58`: "Financial writes lock related account rows in deterministic
   order." Cancelling and deleting lock the transaction row only (`postgres/transactions.go:428`) and
   take it out of the rows the balance counts (`postgres/interest_accruals.go:229`). One that commits
   between the lifecycle's reading of the transactions and its write makes it post interest on a
   transaction that is gone. Postings, reversals and archivals wait for the account: hence
   `OnlyWithdrawalsEscape`, which asks that what was read covers the rows there are and not that it
   equals them.
6. `docs/security/reverse-proxy.md:47`: "First valid IP in `X-Forwarded-For`." `forwardedClientIP`
   takes the last address that is not a trusted proxy (`middleware/ratelimit.go:154`). Here the
   document is wrong: the first is what the client may write itself, and with it
   `AdmittedWithinLimit` fails. The documented behaviour is that property's mutant
   (`forwardedLeftmost`).
7. `cmd/capitalflow/main.go:616` reports "owner_user_id: none (setup will claim unowned accounts)". An
   import that inserted its account before the first set-up committed (`postgres/accounts.go:267`),
   and commits after the claim, leaves the account without an owner, for which no later set-up
   comes. `ImportedAccountsOwned` shows that this overlap (`overtaken`) is the only way.

## Observations

Met while modelling; no run is about them.

- A reversal takes no account lock of its own, but its insert takes `FOR KEY SHARE` on account
  and related account in column order, whatever their ids (`invariants.md:58` speaks of a
  deterministic order). It can close a cycle with a request that locks by id; PostgreSQL breaks
  it, and one request fails (`RequestsReturn`).
- A pending idempotency record past its retention is no longer found by `Get`
  (`postgres/idempotency.go:22`) and is never purged: the key then answers
  `idempotency_key_conflict` for ever instead of `idempotency_outcome_unknown`
  (`idempotency.md:25`).
- The interest commands of the command-line tool do not ask whether the account is active
  (`postgres/interest_accruals.go:150`) and calculate on an unlocked snapshot; the properties
  `OnlyWithdrawalsEscape` and `PaysNewDays` are therefore about the lifecycle only, and
  `PaysNewDays` about payments later than all before them: monthly interest accrued out of
  order, or a month recalculated that was never accrued, can pay days twice.
- `RecalculationConfirms` assumes `EveryCapitalizationPays`: when the date on which earlier
  interest joins the balance posts nothing itself, `Recalculate` leaves that interest out of
  its principal for the days after, where `Accrue` includes it.
- An account update patches the row it read without a lock and writes all of its columns, `is_active`
  included (`account_service.go:170`, `postgres/accounts.go:148`): one that read the row before another
  update, or before the archival, takes the other's changes back. `Ledger` takes this step;
  `AuditReplays` shows that the log records it, no property forbids it.
- The reason of a revoked token is never missing: migration 16 filled it in and every `UPDATE` sets it,
  so the case without one in `isRefreshTokenReuseCandidate` (`auth_service.go:533`), which counts as
  reuse like "rotated", is not modelled.
- A goal keeps the currency its account had when it was linked.
- The dashboard's summary reads balances, flows, goals and limits in separate statements without a
  common snapshot: a transaction committed in between is in some of its numbers only.
- The exchange-rate cache has no single flight, and an answer that was asked for earlier may replace
  one asked for later. Each is used within its own time to live, which `RatesAreFresh` is about. An
  answer that lacks the target currency is cached like any other.
- At capacity the limiter forgets the oldest running window, so that many addresses free one
  another; `AdmittedWithinLimit` excepts evicted windows.
- The limiter reads the clock before its mutex. A bucket that is over for a later request, which
  removes it, may not be over for an older one of its client that still waits: that one starts a
  new count at its own, earlier time, and the client passes the limit again in a window it has
  used up. The proof of `AdmittedWithinLimit` failed on this; `evicted` records these removals too.
- A login whose sign count did not grow is recorded as a clone warning and admitted.
- Two imports that repair one half-migrated account at once may both insert its initial balance:
  nothing but the description identifies it, and no index is on it (`contested` in `DepositOnce`).
- A file that lists an id twice with the same amount is reported as matching, although the ledger
  holds the amount once; and differences of two deposits that cancel out match as well.
  `MatchIsTrue` is about the sums over the entries for this reason.
- A deposit of amount zero passes the importer's check and is refused by the table
  (`transactions_amount_sign_check`), at every import.
- A forecast that starts on a day whose interest has been posted and capitalized counts that day
  twice in its balance: `Recalculate` replaces the posted interest, the balance keeps it
  (`interest_rule_service.go:455`). `RecalculationConfirms` is about forecasts from the next day on.

## Not modelled

Pure functions and I/O without shared state: access tokens, password hashing, parsing and
formatting of amounts, HTTP decoding, CORS, security headers, metrics, logging, configuration.
Read-only queries: lists, the dashboard's summary and its interest report. Single-statement
writes: categories, primary currency. Operator tools: backup and restore (around `pg_dump`), demo
data, migrations. The web client is where requests come from. The adjustment service has no
caller.

## Plan

Done, in this order: `Ledger` with `AtomicLedger`, `Idempotency`, `InterestEngine`,
`InterestTerm`, `Interest`, `Sessions`, `Passkeys`, `Planning`, `Dashboard`, `RateLimit` and
`ExchangeRates` in `Server`, `LegacyImport`; and the proofs of every safety property, those of the
calculations last: the cash flow, the import's report, and the interest of a term.

Next, most valuable first:

1. A composition of `Idempotency` with `Ledger`, in which the handler behind the middleware is a
   ledger request, so that `AtMostOnce` speaks of rows.
2. The dashboard's interest report and its summary, read in several statements.
3. Categories, of which a deletion meets goals, limits and transactions that name them.
