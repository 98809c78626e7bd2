# BudgetFlow: specifications, model checks and proofs

BudgetFlow is a Go REST API (Echo, pgx, PostgreSQL) for personal finances. These
TLA+ modules describe what its services do to the database when requests, replicas
and failures interleave. Everything is translated from the Go and SQL sources; the
behaviour of PostgreSQL itself (row locks, unique indexes, cascades, the deadlock
detector, rounding) and of Go's `time` package is external and modelled from how the
source relies on it. `PROJECT.json` lists, for every definition, the lines it stands for.

## 1. The system

| Component | State it keeps | Operations | What makes it correct | Modelled in |
|---|---|---|---|---|
| Transactions (`service/transaction_service.go`, `repository/transaction_repository.go`) | `transactions_v2`, `transaction_categories` | CreateIncome, CreateExpense, CreateTransfer, Delete, Update, List, GetByID | all or nothing; one transaction per idempotency key; one successful delete; retries are answered alike; an answer stays true; an edit does what it says | `TransactionService`, `Edits` |
| Ledger and balances (`ledger_repository.go`, `account_balance_repository.go`) | `ledger_entries`, `account_balances(balance, version)` | insert, list, delete entries; SELECT FOR UPDATE; versioned UPDATE | balance = opening + entries; never negative; the version counts every change | `TransactionService`, `Ledger` |
| Accounts (`accounts_service.go`, `accounts_repository.go`) | `accounts` | Create (with opening balance), Update, Delete (cascades) | nothing is left of a deleted account | `TransactionService` |
| Connection pool (`database.go`) | up to `MaxConns` connections | Acquire, Release | a request that waits for a connection gets one | `TransactionService` |
| Reconciliation (`repository/reconciliation_service.go`, wired to nothing yet) | none of its own | compare each balance with its ledger sum, fix | a fix loses no transaction | `Reconciliation` |
| Recurring rules (`recurring_service.go`, `recurring_repository.go`) and the scheduler (`main.go`) | `recurring_rules`, `recurring_rule_runs` | Create, Update, SetActive, Delete, RunDue | no date made twice, skipped or early; a pause sticks; a due rule runs; dates are those of the calendar | `Recurring`, `Calendar` |
| Categories (`category_repository.go`, `category_service.go`) | `categories` | FindOrCreate, list | one category per name and type | `Categories` |
| Budgets (`budget_service.go`, `budget_repository.go`) | `budgets` | Create, Update, Delete, CopyFromPreviousMonth, list with what is spent | an expense counts once, under the budget of its category | `Budgets` |
| Goals (`goal_service.go`, `goal_repository.go`) | `goals` | Create, Update, Contribute, Delete | a goal's status agrees with its money | `Goals` |
| Summary (`summary_service.go`, `summary_repository.go`) | reads only | Get: totals, budget statistics, monthly data | its parts agree | `Planning` |
| Handlers (`handler/*.go`, `respondError`) | none | bind, call one service method, answer | a 4xx of the planning half says that nothing has changed (not so everywhere: `RecurringService.Update` and `SetActive` turn every error into a 404, a broken connection after the write included) | `Api`, for the planning half |
| Users and tokens | `users`, signed tokens | register, log in, authenticate | a token names a user that exists | no |
| Configuration, logging | none after start-up | | | no |

Interaction: a handler calls one service method, in a goroutine of its own. Services
share nothing in memory but the pool; they meet in PostgreSQL, at READ COMMITTED. The
recurring service calls the transaction service with a key made of the rule and the
date. The scheduler goroutine of each replica, and any user's
`POST /api/recurring/run`, call the same `RunDue`. Deleting an account cascades into
ledger entries, balances and rules. Creates and edits of transactions, and budgets, all
find their category by name with the same FindOrCreate, and budgets and summaries compute
what was spent from the links between transactions and categories.

What is hard about it: read, compute in Go, write back, over two or more statements;
a lookup followed by an insert; transfers and deletes that lock two balance rows in
different orders; a connection held while waiting for another one; runs that work
on a copy of a row that others are changing; a process that stops between the
transaction and the record of it; edits whose statements are each committed on
their own; amounts in `float64` that two columns round separately; months of different
lengths. `PROJECT.json` lists each hazard at its line, with the properties that
would notice it going wrong or the reason there is none.

## 2. The modules

| Module | What it is |
|---|---|
| `Money` | amounts: `Scale` units to the cent, `Round` is what a column with two decimals stores |
| `TransactionService` | creates, deletes, account creation and deletion, one action per SQL statement |
| `Ledger` | the abstract specification: post, reverse, open and close in one step each |
| `Reconciliation` | extends `TransactionService` with callers of ReconcileAllAccounts |
| `Recurring` | rules, schedulers and runs, one action per statement or committed call |
| `Calendar` | the dates of one rule: `advanceDate` and Go's `AddDate` |
| `Api` | the life of a request of the planning half, its cancellation, its status |
| `Categories`, `Edits`, `Budgets`, `Goals` | the methods of those services, one action per statement; each extends the one before (`Goals` extends `Api`) |
| `Planning` | composes the four over one database and adds the summary |
| `MC...` | instances of them for TLC |
| `TransactionServiceProofs` | theorems about `TransactionService`: types, locks and balances, keys, deletes |
| `Totals` | lemmas about sums over finite sets of rows; two facts about finite sets and naturals |
| `LedgerProofs` | what is posted, balances, the refinement of `Ledger` |
| `ReconciliationProofs` | theorems about `Reconciliation`, on top of `LedgerProofs` |
| `RecurringProofs`, `CalendarProofs` | theorems about `Recurring` and `Calendar` |
| `PlanningProofs` | theorems about `Planning` that hold whoever races |
| `UndisturbedProofs` | those about what a request achieves while nobody else writes |

Definitions named in a comment as *mutants* are plausible bugs of the code beside the
definition they would replace. Each checked property has one: replacing the definition
by the mutant makes TLC find the property violated.

### TransactionService

A request is a member of `Creates` or `Deletes`; `pc[r]` is the statement it is about
to execute. Committed rows are `account`, `balance`, `version`, `txns`, `ledger`. What an
open database transaction has written stays in `inserted`, `written` and `newBalance` and
reaches the tables in `CommitCreate` and `CommitDelete`, so that other requests read
only committed rows; `lock` holds the row locks of `account_balances`.

| Code | Actions |
|---|---|
| validation, requireAccount, Acquire, Begin | `BeginCreate` |
| idempotency lookup | `LookupKey` |
| `INSERT ... ON CONFLICT (user_id, idempotency_key) DO NOTHING` | `CheckArbiter` (the named index), `InsertTx` (the other indexes) |
| lookup after a lost race | `LookupWinner` |
| per line: entry, SELECT FOR UPDATE and check, UPDATE ... WHERE version | `InsertEntry`, `LockBalance`, `UpdateBalance`, `NextLine` |
| COMMIT, enrichTransactionDetail | `CommitCreate`, `Enrich` |
| Delete | `BeginDelete`, `ListEntries`, `LockBalance`, `UpdateBalance`, `DeleteEntries`, `DeleteTx`, `CommitDelete` |
| error return, cancelled context, broken connection | `Rollback` inside each action, `Fail` |
| PostgreSQL's deadlock detector | `DeadlockDetected` |
| account creation and deletion with its cascade | `CreateAccount`, `DeleteAccount` |

The id of a transaction is the request that inserts it: the sequence gives no id twice.
`UpdateBalance` has the three outcomes of the statement: the version does not match, the CHECK of
migration 0013 aborts it, or the row is written. `NoOverdraft` says that the second never
happens, so that the check in Go is not propped up by the one in the database.
A delete answers "ok" or "error" after COMMIT, since the reply may be lost; `Fail` at
`enrich` is the same for a create. Entries come to a delete in any order, because they
all have the same `created_at`.

The pool: a request holds a connection from BEGIN until it returns. `BeginCreate` and
`BeginDelete` also need one for the reads before; these are released before the next
is acquired, so they are not counted as held.

`Ledger` has no requests, locks, versions or failures. `TransactionService` maps its
four tables to those of `Ledger` (`Books == INSTANCE Ledger WITH ...`);
`ImplementsLedger` says that every step is a whole posting, a whole reversal, an
opening, a closing, or nothing. It relies on the amounts being whole cents.

### Reconciliation

A caller lists the accounts of a user (`ListAccounts`), then takes each in turn: the sum of
its entries (`SumLedger`), its balance and version (`ReadBalance`), and, if they differ and
it is to fix, the versioned UPDATE (`Fix`), which can be refused by the version, by the CHECK
on the balance or by the foreign key on `last_updated_txn`. Each statement commits on its
own, so every one is a step between any two steps of the creates and deletes; the UPDATE
waits for a row lock. `Abandon` ends a call between two statements. Errors are collected and
do not stop the list. `ImplementsAdjustedLedger` is the refinement with reconcilers at work:
`Ledger`, and in addition a live account may be given another non-negative balance.

### Recurring

A runner (a scheduler, or a request to `/recurring/run`) reads the due rules into `batch`
in one statement and works through its copies: `Lookup`, `Insert` and `Post` stand for the create
of `TransactionService` under the rule's key, `Enrich` for the load of its detail,
`AdvanceRun` and `RecordRunFailure` for the two methods of the repository. Each of the
last two is one atomic step: AdvanceRun's INSERT and UPDATE are one database
transaction, and whoever touches the same rule or run row waits for it.

Of the create, `Recurring` keeps the statements that decide a race between runners. `Lookup` sees
committed rows only, so that several runners may find nothing. `Insert` waits for a row with the
key that is not committed yet (`RowWait`, the unique index); if one has been committed since the
lookup it replays it or fails. `Post` is the rest up to COMMIT. A transaction has, beside its key,
the date it was made for (`of`), which is what `OnePerDate` counts: a key that lost its date, or
had another, would be noticed.
The detail of a transaction deleted after the commit is nil, and `materialize`
dereferences it: the run ends there. A failure of the create for want of money or of
an account is `payable`, which its owner changes at any time.

`Stop` ends a run between two statements. `Behind` is by how many days the Go process's
date may lag the database's `CURRENT_DATE`. Dates are numbers of days and a period is a
number of days. A rule's transactions stay when the rule is deleted; its run rows go.

### Calendar

The dates themselves: years, months of 28 to 31 days, `AddDate` with Go's normalisation
(days beyond the end of a month go into the next), the three frequencies, `interval_count`
(nothing or less means one), and the end date, compared as a string. `Run` is one
completed run; `Update` and `SetActive` are the owner's, which leave `next_run_at` alone.
`DayNumber` is an independent, closed formula for the day of a date: `OnSchedule` and
`RunsToItsEnd` measure the walk of the rule against it.

### The planning half: Api, Categories, Edits, Budgets, Goals, Planning

A request has an input (`request[r]`, with its `op` and user), the statement it is about to
execute (`pc[r]`) and in the end a `result`, which `Status` turns into the HTTP status as
respondError does: 4xx for what a client may take as "nothing happened". Apart from the
creation of a transaction nothing here runs in a database transaction of more than one statement:
every action is one committed statement, and `Cancel` leaves a request between two of them.

| Code | Actions |
|---|---|
| `FindOrCreate`: SELECT, INSERT | `FindCategory`, `AddCategory` |
| `TransactionService.Update`: GetByID, UpdateTransaction, FindOrCreate, SetCategory's DELETE and INSERT, enrich | `BeginEdit`, `Update`, (categories), `ClearCategories`, `LinkCategory`, `Enrich` |
| creation and deletion of a transaction, at their commit | `BeginCreate`, (categories), `Post`, `Delete` |
| `BudgetService`: Create, Update, Delete, CopyFromPreviousMonth | `BeginBudget`, (categories), `AddBudget`, `MoveBudget`, `DropBudget`, `Copy` |
| `GoalService`: Create, Update, Contribute, Delete | `AddGoal`, `Retarget`, `Contribute`, `DropGoal` |
| `SummaryService.Get`: three queries | `ReadTotals`, `ReadStats`, `ReadMonthly` |

Amounts are stored by `Round`, as everywhere. `Contribute` decides the status on `current_amount + $1`
before the column rounds the sum, as the UPDATE does, and `NewTarget` may round a target to nothing,
which the CHECK of `goals` turns into an error. Refusals that depend on what this half leaves out (the
form of an input, the money of an account at a delete) may come at any time.

Data are reduced to what these properties tell apart: of a date the month, of a note whether
there is one, of a budget its category and month. A row's id is the request that inserted
it, or `Seed`. `wrote` and `alone` are histories: which requests have written, and during which
requests nobody else has. They let the properties say what a request promises when nobody
raced it, since most of these methods promise nothing more.

## 3. What the runs show

| Run | Instance | Shows |
|---|---|---|
| `transaction_core` | two creates over five inputs (one invalid), two deletes of anything, two accounts, one key, failures everywhere | `TypeOK` and nine properties: balances agree with the ledger, no overdraft, all or nothing, keys, versions, retries answered alike, answers that stay true, deletes, refinement of `Ledger` |
| `transaction_live` | opposite transfers, a shared key, a delete; a pool of three for three requests | `EveryRequestAnswered` |
| `reconciliation` | an income or a transfer twice, a delete, two accounts that hold something, one caller that fixes | `SumIsCurrent`: while the version stands, the sum that was read stays right; `NoBlindFix`: a fix overwrites only the balance it has compared; `NoOverdraft` and `NoVersionConflict` hold next to it; `ImplementsAdjustedLedger` |
| `recurring` | one rule, two runners that race from lookup to commit, two days, two frequencies, two end dates, one deletion, one cut-off run | `OnePerDate`, `NothingSkipped`, `NeverEarly`, `RecordsAreTrue`, `PauseSticks` |
| `recurring_live` | two rules due on one day, one scheduler, one cut-off run, one deletion | `DueRuleRuns` |
| `calendar` | five start dates at month ends, every frequency, counts up to twelve, two end dates or none, fourteen runs before and after one change by the owner | `OnSchedule`: daily and weekly rules keep their days, a monthly one passes over at most one month in its life; `DriftsOnce`; `RunsToItsEnd`: the last day is run, none after it |
| `planning` | any three of 25 requests of two users, over an expense, its category (a default or the user's own), a budget for it and a goal | ten properties, below |

What clients of `transaction_core` are told. `RepliesAgree`: attempts of one user under one key that
are answered with a transaction are answered with the same one, unless it was deleted; they may
meet at the first lookup, at the arbiter index or at the lookup of the winner, and the mutant has no
unique index that an insert between two of these would meet. `AnswersStand`: a transaction that was answered is there
until its user deletes it; an answer without a detail means such a delete; a create that was refused
left no row; what was deleted does not come back. The mutant ignores the error of COMMIT.

The properties of `planning`. `RefusalLeavesNothing`: a request answered 4xx has changed
no row but, perhaps, a new category. `NamedOnce`: a user sees one category of a name
and type. `OneCategoryUnlessRaced`, `EditTakesEffect`: an edit that nobody raced and that
was not cut short leaves one category and what it asked for. The exemption is needed: two
edits of one transaction that both execute SetCategory's DELETE before either INSERT leave
two categories, although `transaction_repository.go:402` speaks of a single one. `FiledRight`,
`BudgetsFiledRight`: links and budgets are under categories of the right type that the
user sees. `CountedOnce`: no expense with one category counts towards two budgets.
`StatusTellsTheTruth`: until its target is changed, a completed goal has its money, and one that has
its money is completed, except that a contribution finer than a cent may round it up to exactly its
target and leave it active (a target of 10.00, 9.99 saved, 0.005 paid in: `goal_repository.go:118`
compares 9.995). `CompletionSticks`: a completed goal stays so. `SummaryAgrees`: the three parts of a summary
agree if nobody wrote meanwhile.

Five runs end in a violation: the repository states the property and the code does
not have it.

| Run | Statement | What happens |
|---|---|---|
| `pool_exhaustion` | in-flight requests drain (`main.go:156`) | as many creates as connections each hold one and wait for a second, in `enrichTransactionDetail`, for ever |
| `shared_key` | keys are scoped to the user (migration 0008) | the column constraint of migration 0004 is still there: two users' equal keys collide |
| `sub_cent` | balances consistent with entries (`README.md:12`) | entry and balance round different numbers |
| `stale_fix` | the reconciliation service fixes the consistency of balances (`reconciliation_service.go:26`) | a transaction committed between the ledger sum and the read of the balance makes it overwrite a right balance with the old sum |
| `recurring_double_fire` | the unique index of runs prevents double-firing (`main.go:117`) | the index is written after the transaction; if the owner deletes that transaction before the rule has moved on, the date fires again |

An opening balance has no ledger entry, so an account opened with money is always
"inconsistent" to the reconciliation service; `stale_fix` therefore opens its account with
nothing, so that what it finds is the race alone.

### Bounds

Two creates and two deletes are the least in which a lost update, a race on a key, a
double delete and a delete that meets a create of the same transaction's accounts can
happen; two accounts make opposite lock orders possible. The opening balance of one is
chosen so that a second expense, or the delete of an income already spent, is refused.
The core run has one user; that users do not meet but through `shared_key`, where there are two, is
what the theorems show, which hold of any number.
`MaxConns = 10` in the safety runs never binds with four requests; the liveness runs make it
bind. Symmetry over the requests is used in the safety runs, and over the runners in
`recurring`; never under a liveness property.

In `reconciliation` one caller is enough for its races, which are with the transaction
service: two callers meet only in the versioned UPDATE, of which the second then matches
no row. The accounts hold something, so that a fix changes them even without a race, in
both directions.

In `Recurring` the bounds are `LastDay` (the clock stops), `MaxUndone` (deletions of
transactions by the owner) and `MaxStops` (runs cut short). Two days and a period of one
or two give a rule that advances, one that ends, and a runner two dates behind another.
The liveness run has a single day: the question there is whether one rule of a batch
blocks another.

In `Calendar` `MaxRuns` is 14 runs after creation and 14 after `MaxTouches` = 1 change by the
owner: with a count of one more than a year of months, with a count of twelve 28
years of them. The start dates lie before short months in leap and other years, at the turn of a
year and in 2100.

In `planning` `Scale` is 10, and some amounts are in half cents or below: a contribution of one and a
half cents to a goal of two reaches it only by rounding, and a target of 0.4 cents is none. There are
three requests of one statement to seven each: two that race and one that
is under way when they do, or that comes after. Every input of `MCPlanning` meets every
other. `MaxPoints` is 6 as in the code and does not bind with two months.

Deadlock is not checked in the runs of `Recurring` and `Calendar`, since all rules may be
deleted, over, and the clock at its end. The others stutter explicitly when every request
has been answered, so that a deadlock TLC finds would be one of requests that wait for each
other.

### Fairness

`TransactionService`: a goroutine that has started keeps running and a statement that can
execute does (weak fairness of each request's steps once it is past "idle"), and the
deadlock detector runs. No request has to be sent, and no failure has to happen, so that a
timeout is not what answers a request. `Recurring`: the tickers of the schedulers go on, and
so does a run that has begun; after a process has stopped another scheduler's tick, or its
own after a restart, comes. Owners need do nothing. The planning half has no loops and no
waits beyond PostgreSQL's own: there is no liveness to it worth a run.

## 4. What is proved

Every invariant and every action property that a run checks is also a theorem, for any sets of
users, accounts, keys, rules, runners, requests and inputs, any pool size and any bounds; only
the two liveness properties are not. The theorems rest on the assumptions named in the modules,
and on nothing else:

| Assumption | Module | Says | Because |
|---|---|---|---|
| `ScaleAssumption` | `Money` | `Scale` is a positive number | it names the units of an amount |
| `InputAssumption`, `RequestAssumption` | `TransactionService` | owners and inputs are of their types, creates and deletes are different requests, opening balances are natural numbers, the pool is not empty | binding; the CHECK of migration 0013; pgx |
| `AskAssumption` | `Reconciliation` | a call names a user and whether to fix | the parameters of `ReconcileAllAccounts` |
| `CalendarAssumption` | `Recurring` | periods are of a day or more and not longer than the clock runs; end dates are days of the clock or none | `interval_count` of nothing or less becomes 1; the bound of the model |
| `DateAssumption`, `FrequencyAssumption`, `BoundAssumption` | `Calendar` | dates are dates, counts are integers, frequencies are the three | columns of type DATE and INT; `validateRecurringInput` |
| `RowAssumption`, `OwnerAssumption`, `MonthAssumption` | `Api`, `Categories`, `Edits` | the seeded row is not a request's, "no row" is no id, the owner of default categories (NULL in the table) is no user; months are finitely many numbers | names of model values |
| `InputAssumption`, `StartAssumption`, `PointAssumption` | `Planning` | requests are of the types of their methods; the rows at the start are filed as the program files them; the number of months shown is a natural number | binding; the seed is a state the program reaches; a constant of 6 |

TLC evaluates each of them in the runs of its module.

| Theorem | Module | States |
|---|---|---|
| `TypeCorrect` | `TransactionServiceProofs` | `Spec => []TypeOK` |
| `NeverOverdrawn` | | `Spec => []NoOverdraft` |
| `VersionNeverConflicts` | | `Spec => []NoVersionConflict` |
| `KeysAreUnique` | | `Spec => []OneTransactionPerKey` |
| `DeletesOnce` | | `Spec => []OneDeleteSucceeds` |
| `AnswersKept` | | `Spec => []AnswersStand` |
| `RepliesAgreeAlways` | | `Spec => []RepliesAgree` |
| `PostsAllOrNothing` | `LedgerProofs` | `Spec => []AllOrNothing` |
| `ServiceImplementsLedger` | | if `Scale = 1`, `Spec => ImplementsLedger` |
| `BalancesAddUp` | | if `Scale = 1`, `Spec => []BalanceConsistent` |
| `ReconciliationTyped` | `ReconciliationProofs` | `ReconciliationSpec => []ReconciliationTypeOK` |
| `SumsStayCurrent` | | `ReconciliationSpec => []SumIsCurrent` |
| `FixesAreNotBlind` | | `ReconciliationSpec => NoBlindFix` |
| `FixesDoNotOverdraw`, `FixesDoNotConflict` | | `NoOverdraft` and `NoVersionConflict` next to reconcilers |
| `ReconciledLedger` | | if `Scale = 1`, `ReconciliationSpec => ImplementsAdjustedLedger` |
| `RulesTyped` | `RecurringProofs` | `Spec => []TypeOK` |
| `OneTransactionPerDate` | | `Spec => []OnePerDate` |
| `DatesComeFirst` | | `Spec => []NeverEarly` |
| `RunsRecordTheTruth` | | `Spec => []RecordsAreTrue` |
| `DatesNotSkipped` | | `Spec => []NothingSkipped` |
| `PausesStick` | | `Spec => PauseSticks` |
| `CalendarTyped` | `CalendarProofs` | `Spec => []TypeOK` |
| `KeepsItsDays` | | `Spec => []OnSchedule` |
| `DriftIsOnce` | | `Spec => []DriftsOnce` |
| `EndIsLastRun` | | `Spec => []RunsToItsEnd` |
| `RefusalsLeaveNothing` | `PlanningProofs` | `Spec => []RefusalLeavesNothing` |
| `CategoriesAreOne` | | `Spec => []NamedOnce` |
| `TransactionsFiledRight` | | `Spec => []FiledRight` |
| `BudgetsAreFiledRight` | | `Spec => []BudgetsFiledRight` |
| `ExpensesCountOnce` | | `Spec => []CountedOnce` |
| `GoalsTellTheTruth` | | `Spec => []StatusTellsTheTruth` |
| `CompletionsStick` | | `Spec => CompletionSticks` |
| `EditsTakeEffect` | `UndisturbedProofs` | `Spec => []EditTakesEffect` |
| `OneCategory` | | `Spec => []OneCategoryUnlessRaced` |
| `SummariesAgree` | | `Spec => []SummaryAgrees` |
| `PlanningTyped` | | `Spec => []PlanningTypeOK` |

Three of them assume `Scale = 1`, amounts in whole cents. They are false otherwise: that is what
the run `sub_cent` shows. `SumIsCurrent` does not need it, since it is about the entries alone.

The argument, one strengthening upon another.

**Transactions and ledger**

- `BaseInv` is the type invariant with two additions: the ledger rows are finite (their
  number bounds the loop of a delete), and the loop index points at a line while the loop
  runs. `LockInv` adds what row locks give: who holds a lock is between its first SELECT
  FOR UPDATE and the end of its transaction and the account exists (`LocksHeld`); who has
  written a balance holds its lock (`WritesLocked`); what the SELECT returned is still the
  committed row at the UPDATE and the balance suffices (`RowCurrent`); no balance, committed
  or not, is negative (`NonNegative`). `NoOverdraft` alone is not inductive: the commit
  writes `newBalance`, which is non-negative only because the check was made on a balance
  nobody could change since. The version conflict cannot happen for the same reason.
- `KeyInv` strengthens key uniqueness to the transactions in flight, of whatever user: the
  unique index makes an insert wait for those, and two commits would otherwise break it.
  `DeleteInv` says that a delete about to commit has its target still there and no
  rival about to commit, and that a removed transaction never comes back, since its create
  request is past its commit.
- `AnswerInv` says what a request in flight may rely on. One that is about to show a transaction
  shows one that is there or that a delete of its user has taken away (`Settled`), and one that has
  not committed has no row, which makes its refusals true: this is `AnswersStand`. With
  `ShowsOwn` (what is shown has the request's key and user) and `KeyInv`, two attempts show
  the same transaction as long as neither's was deleted: a deleted one frees its key, and the next
  attempt may then insert. That is `RepliesAgree`.
- `PostInv` says how far each request has come: a loop has written the accounts of the lines
  it has passed, each once (`LoopDone`); a create has inserted the entries of those lines
  (`EntriesDone`); a delete has listed the entries its target still has, but for those that
  went with a deleted account (`EntriesListed`). Without them the commit of a create
  could post part of its lines, and the commit of a delete could leave one behind.
- `BalanceInv` adds that a balance written but not committed is the committed one and the
  amount of the line, which the row lock keeps true. So every commit is a `Post` or a
  `Reverse` of `Ledger`, and every other step opens or closes an account or leaves the books
  alone: the refinement. `BalanceConsistent` is then shown of the ledger's steps.
- `Totals` is about the sum of a value over a finite set of rows, which is defined by
  recursion on an arbitrary member. That it exists, does not depend on the order, grows by
  a row's value with the row and is the sum of its parts is shown by a counterexample of least
  cardinality, since the prover cannot instantiate the library's induction rules.

**Reconciliation.** A successful fix is one more step under which the invariants of the service
are still inductive: it gives an account whose row nobody has locked another balance and counts
its version up, and every request that relies on a balance has the row locked. `SumIsCurrent` is
not inductive alone. `SumTrue` and `SeenTrue` add that the version of an account that lives is at
least the one that was read: versions only grow, an account once deleted does not return, and
a change of balance or entries raises the version (`Counted`). `NoBlindFix` follows from `SeenTrue` at the UPDATE.

**Recurring rules.** A runner works on copies, so the invariant is about them: a copy's date was once
its rule's next one, and its period is the rule's if the owner has not changed that
(`CopiesTrue`); what is shown or recorded was made (`MadeTrue`). `OnePerDate` needs the rows in flight:
a runner between its INSERT and its COMMIT is the only one there under its key, and no committed
transaction has that key (`AloneToPost`). `RowWait` keeps the first part and the lookup under the unique
index the second; the key determines the date. With these `OnePerDate`,
`NeverEarly` and `RecordsAreTrue` are inductive. `NothingSkipped` is not: an old copy moves
`next_run_at` back, to a date after which others had already run. `Chain` says that the dates a
rule has ever had as its next one follow each other at one period, and that the transaction of each
but the last was made. Wherever a copy puts the rule, it is on that chain.

**Calendar.** `Normalise` is a recursion over data, which the prover cannot follow by induction.
Here it need not: `DayNumber`, which does not mention it, gives every date a number of its
own (`NumbersAreUnique`) in their order (`BeforeIsEarlier`), and one step of the recursion keeps
the number (`CarriedSame`). So "the date with this number" solves the recursion (`CarryExists`),
and that it ends on a date follows from the least number of days for which it would not
(`NormaliseKeepsDay`). Of `AddDate` the rule needs two facts: days add up (`AddDays`), and
months add up but for one carried month, possible only after the 28th, which ends on one of the
first three days (`AddMonths`). With them the four invariants are inductive together.

**Planning.**

- `RequestsInv` follows the flow of each method: which statements it has, and which lie past every
  refusal. A request that has written is past refusal, and so `RefusalLeavesNothing`.
- `CategoriesInv`: a request in FindOrCreate looks for the type of what it files, and in front of its
  INSERT no default category would have done; whoever is past it has a category of that type
  that its user sees. `EditsInv`: what an edit has loaded is of its user and still has the kind it
  had, since no step changes a kind and an id that was deleted is not inserted again. Together they
  give `NamedOnce` and `FiledRight`, and with `BudgetsInv` (one budget for each user, category
  and month) `BudgetsFiledRight` and `CountedOnce`.
- `GoalsInv`: each `Contribute` decides on the row it changes. That the sum is decided on unrounded and
  stored rounded is bridged by lemmas about `Round`: it changes nothing in whole cents, it
  keeps what has reached a target in whole cents at or above it (`RoundBounds`, `CentsApart`),
  and what it lifts to a target from below ends exactly on it. So a status is true of
  its goal, with that one exception, until its target is moved. `CompletionSticks` needs that a goal's row is inserted once.
- `AloneInv` of `UndisturbedProofs` says how far an edit that is alone has come, statement by
  statement: what it has read is there until its UPDATE, what it asked for from there on, and no
  category between its DELETE and its INSERT. `FiledInv` counts categories: none is missing but under
  an edit that is between these two, failed or was raced, and two come only of a race.
- `FiguresInv`: what a summary has read is, as long as it is alone, the totals of the rows as they are.
  That the parts then agree is a matter of sums: what was spent under each budget is a part of the
  expenses, and the parts are disjoint by `CountedOnce`; the months shown cover the one asked for.

Only model-checked: the two liveness properties, `EveryRequestAnswered` and `DueRuleRuns`, since
fairness and ENABLED are out of the prover's reach. The five violations are counterexamples and
stay with TLC too.

## 5. What is not modelled

- Users and tokens: each method is one statement on one table whose e-mail is unique; what is
  left is hashing and signing, in libraries. Nothing happens between two steps.
- Configuration, logging, routes, binding and formatting of requests and answers.
- Lists and GetByID, GetAccountHistory and the other reads, except those of the summary and of what
  is spent of a budget. `account_balances.last_updated_txn` is reported, and nothing is decided by it.
- `UpdateAccount`, which changes a name and a type; it answers 500 instead of 404 for an
  account that is gone, which needs no model to see.
- The methods of `ledger_repository.go` and `account_balance_repository.go` without a caller, and the
  table `transactions` of the first migrations, which nothing writes any more.
- Binary fractions: amounts are integers. That `0.1 + 0.2 - 0.3` is not zero in `float64`
  is a hazard without a property.
- The connections of the planning half, whose methods each return one before they ask for the
  next, and those of reconcilers. ReconcileAllAccounts keeps the one of its list while each
  account takes another, so that a pool full of such calls would block as in
  `pool_exhaustion`; it is listed as a hazard, and nothing calls the service yet.
- Effects of concurrent edits on one another beyond those the properties name: the last one to
  write wins, and nothing in the repository says otherwise.

## 6. Plan

Done: everything of section 2; all safety properties proved.

1. The safety part of the liveness arguments: that a request which waits for a row lock waits for one
   that holds a connection and can take its next step, unless there is a cycle for the deadlock
   detector; that with a connection to spare a request at `enrich` is never the last one waiting.
2. An abstract specification of `Recurring`, in which a rule's dates are made one after the other, and
   a proof that the copies of its runners implement it up to deletions by the owner.
3. Likewise for `Categories`: FindOrCreate as one atomic step.
