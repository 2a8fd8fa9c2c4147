# Verification of merch-backend

TLA+ models of the MERCH loyalty backend (Go, `src/`), their TLC runs and TLAPS proofs.
The code issues loyalty cards, keeps a ledger of points that cashiers earn and redeem for
customers, and keeps copies of the balance in Apple Wallet and Google Wallet. It runs on
Postgres or, for a single shop, on SQLite.

Run a configuration with `tlc -config X.cfg MCModule`, check proofs with `tlapm XProofs.tla`.

## 1. The system

| Component | Code | State | Operations |
|---|---|---|---|
| Point arithmetic | `loyalty/rules.go` | none (stored settings) | parse settings, earn, redeem limit and check, quote |
| Points ledger | `loyalty/service.go`, `store/tx.go`, `store/store.go` | `customers.points`, `receipts`, `ledger` | Commit, Refund, Adjust, each one transaction |
| Card standing | `httpapi/admin.go`, `store/customers.go` | `blocked`, `deleted_at` | block, unblock, delete, restore |
| Programme settings | `httpapi/admin.go`, `store/customers.go` | `loyalty_settings` | save (a transaction of upserts in random order), read |
| Enrolment | `loyalty/service.go`, `httpapi/public.go` | `customers`, cookie `merch_cid` | enroll by cookie, by phone, insert |
| Wallet queue | `jobs/queue.go`, `store/apple_jobs.go`, `wallet/wallet.go`, `wallet/google`, `wallet/apple/apns.go` | `wallet_jobs`, wake channel, Google's copy | enqueue, claim, push, patch, complete, save link |
| Apple pass web service | `httpapi/apple.go`, `public.go`, `store/apple_jobs.go` | `apple_devices`, `customers.updated_at`, the device's copy | register, unregister, list updated, download or 304 |
| Staff and sessions | `httpapi/cashier.go`, `admin.go`, `middleware.go`, `store/staff.go` | `staff`, `staff_sessions`, signed tokens | login, logout, authenticate, hire, patch, delete |
| Stores, shift receipts | `admin.go`, `cashier.go`, `store/receipts.go`, `store/staff.go` | `stores`, `staff.store_id`, `receipts.store_id` | create, patch, delete a store; the store of a hire, a move, a sale; the shift's receipts of a day |
| Activity feed | `store/activity.go`, `httpapi/activity.go` | `activity` | append, list |
| Pass building, tokens, pages, configuration, start-up | the rest | | |

**How they interact.** Every request runs in a goroutine of its own (a *handler*) under a
15 s deadline. Handlers share only the database; its connections come from a pool of
20 (Postgres) or 1 (SQLite). A money operation is one transaction that takes the card's
row with `FOR UPDATE` on Postgres; on SQLite holding the one connection plays that part.
After the commit the handler puts a row into `wallet_jobs` and pokes one worker
goroutine through a channel of capacity one; the worker also has a 400 ms ticker. Every
change of a card sets `updated_at`, which is what the Apple web service compares.

**What is hard.** Checks made before a transaction and relied on in it (card standing,
settings, receipt); the receipt read before the row lock; answers that are lost and
requests that are repeated, at once or much later; two databases with different locking
under one code; coalescing of queue rows while the worker is at the same card; partial
updates that write a whole row back; statements without a transaction (enrolment,
logins, deactivation, the store of a sale, the activity feed); upserts in the random order
of a Go map, which deadlock on Postgres; comparisons of truncated times and of a day cut
at midnight in Moscow. `PROJECT.json` lists each at its
line under `hazards`, with the property that watches it or the reason there is none.

**What makes each component correct.**

- *Arithmetic*: the till offers exactly what the commit accepts, a quote adds up to the
  receipt, nobody gains by splitting a receipt or by paying with points - whatever
  strings an administrator stored as settings.
- *Ledger*: a balance is the sum of its ledger rows and never negative; a receipt posts
  once, is refunded at most once and never changes otherwise; a repeat is answered the
  recorded result or the standing of the card; a purchase needs a card that is usable at that very moment; every
  request ends.
- *Settings*: a save is seen whole or not at all, and every save ends.
- *Enrolment*: one phone number never has, nor is answered, two cards; a browser holds no
  card but of a number typed there.
- *Wallet queue*: no row leaves the table unserved; what is queued reaches Google and the
  devices; the table stays small; no wake-up is lost.
- *Apple passes*: a change that comes more than a second and a request's deadline after the
  times a device has is never answered 304 or 204, and a device that asks gets it in the end.
- *Stores, receipts, feed*: no employee and no receipt hangs on a store that is gone; the
  feed has a sale once, as its receipt has it; a shift list is today's sales, all of them
  and no other, and loses none.
- *Staff*: a deletion is never undone and the deleted are kept out, a deactivation ends all sessions, a partial update
  changes only what it was sent.

## 2. Modules

| Module | What it is |
|---|---|
| `LoyaltyRules` | `rules.go` as operators: settings, clamps, `ComputeEarn`, `MaxRedeemable`, `CheckRedeem`, `QuoteRedeem` |
| `LoyaltyRulesProofs` | its theorems |
| `LoyaltyBook` | the abstract service: a book in which a purchase, a refund, a correction, a change of standing is one entry |
| `Ledger` | `EXTENDS LoyaltyRules`: the handlers of Commit, Refund, Adjust, block, delete and settings, database call by database call |
| `LedgerRefines` | `Ledger` implements `LoyaltyBook` (`INSTANCE ... WITH`) |
| `LedgerProofs` | the inductive invariants of `Ledger` on either database and on one connection, the refinement of `LoyaltyBook` |
| `SettingsBook` | the abstract settings: a save replaces its keys at once |
| `SettingsWrite` | `EXTENDS LoyaltyRules`: PutSettings upsert by upsert, row locks, the pool, deadlock victims; what the rules guarantee under any history of saves |
| `SettingsWriteProofs` | its invariant, the refinement of `SettingsBook`, the guarantees of the rules |
| `Enroll`, `EnrollProofs` | enrolment behind its two endpoints |
| `WalletOutbox`, `WalletOutboxProofs` | the queue, its worker, Google's copy, the devices it wakes |
| `PassKit`, `PassKitProofs` | the Apple web service over the times of cards |
| `StaffSessions`, `StaffSessionsProofs` | staff rows, sessions, tokens |
| `Shops`, `ShopsProofs` | stores, employees' stores, the store of a sale, the feed, the shift list |
| `MC...` | instances for TLC |

**State and actions.** Columns are functions from ids to values, a row that does not
exist has a value of its own (`"absent"`, `NoPhone`). A handler has a `pc` naming its
next database call, the request it serves and the local variables of the Go function
that later steps use. One action is one database call together with the Go code up to the
next; guards are the code's conditions, and every early return ends the handler. `Accept`
takes any request of a set at any time, so every request is also repeated arbitrarily
often. `Drop` ends a handler between any two calls: the deadline, a failing statement, a
client that went away and a crash all look like this, and an open transaction rolls back.

In `SettingsWrite` a handler *begins* (takes a connection), *upserts* (takes the lock of
one row, writes its draft), *commits* (its drafts become the stored rows) or *rolls back*;
`Yield` lets `range` pick any key that is left. Postgres' deadlock detector is
external: it ends one of a ring of waiting transactions. A purchase reads the settings
in one statement, so it sees `stored`; `Ledger` replaces the map in one step, which
`SettingsBook` states and `SettingsWrite` is shown to implement.

In `Shops` each of `createStaff`, `patchStaff`, `createStore`, `patchStore`, `deleteStore`,
`postCommit`, `postRefund` is a walk through labels: `Authenticate` (the middleware's read
of the staff row, with the store of the row), the GetStore check where there is one, the
receipt, the write, the feed. `Stamp` is the `created_at` a sale draws before its insert, so a
sale may be stamped before and inserted after midnight. The clock counts hours: the
bounds of a day are whole hours in UTC. `feed` counts rows by kind, receipt, cashier and
store. Logging in gives a token that keeps the store of the row at that time.

In `Ledger` block and delete are statements outside a transaction: `ResolveBlock` and
`ResolveDelete` read the card, `Connect` takes a connection for the UPDATE, and `UpdateCard`
waits with it for the row, as a money transaction does. So `inTx` is whoever keeps a
connection while it waits.

In `Enroll` a visitor is a browser with its cookie, `Typed` the numbers that are typed in it;
both endpoints read the cookie (public.go:39), only the public one sets it. Hence a
request may bring the cookie of one person's card and the number of another.

In `PassKit` `Draw` is the moment a money transaction, with the row locked, takes the time it
will write, `CommitPoints` the moment others see it, at most a `Deadline` later;
`SetStanding` writes a time drawn up to a `Deadline` before. Nothing else holds points back.
`owed` is a history: a registered pass enters it when its points change more than a
second and a deadline (`Silent`) after the times the device has, its `since` and the pass's `dated`,
and leaves it with the next pass fetched.

In `WalletOutbox` `Push` is the Apple leg of UpdateWallet. A failing ListAppleDevices
(wallet.go:39-41) is `ListFails`, a fault of the database: it is logged, nobody is woken, the
row is completed all the same, and `missed` remembers the balance. A device token that is
no URL ends the loop over the devices (apns.go:82-84) and so falls under the fault "apple",
not under `Deaf`. `OpenCard` is any caller of SaveURL, which writes Google's object from a
customer read before: the card page (card.go:91-107) and enrolment (public.go:69-76). What a
device fetches after a push is not older than the balance at the push, which is what `told` records; `Deaf`
are devices whose push always fails. In `StaffSessions` `late` marks a request that
arrived when the row of who sent it was deleted already; nothing reads it.

**Merged steps.** The INSERTs and UPDATEs of a money transaction and its COMMIT are one
step (`WriteCommit`, `WriteRefund`, `WriteAdjust`). Under READ COMMITTED nobody sees them
before the commit, the card's row is locked throughout, and an INSERT of a `receipts` id
that another transaction has inserted waits for that transaction, so no other handler can
act on a part of them. That one of them may fail half way is the other outcome of the
step: all or nothing is written. A partial transaction is therefore excluded by the
model, on the word of the database, and not checked.

**Abstractions.** A receipt in the ledger is kept as sums by receipt and reason, enough to
tell double and missing postings. Amounts are integers without the 64-bit width of Go;
what an INTEGER column cannot hold is refused at `ColMax`. In `WalletOutbox` and `PassKit` a
balance is the number of its change, so that newer and older can be told. A phone number
is a model value, its spellings are mapped to it by `Number` (what `NormalizePhone` and
`IsValidPhone` compute). Password hashes, signatures, barcodes and ids are fresh values.
In `PassKit` an exchange with a device is one step, because its answer is decided by one
statement.

**Slip operators.** An operator named `Slip...` is a plausible mistake in the operator that
follows it (a lookup dropped, an index forgotten, a wrong order). No specification uses
one; each is there to substitute for that operator and see the property fail, so that a
property that passes is known to depend on the code.

## 3. Runs

Passing runs (each explores its whole state space):

| Run | Shows | Bounds and why they suffice |
|---|---|---|
| `settings_saves` | `Inv`, `SavedAtOnce`, `SavesEnd`, and `OffersAreSharp`, `QuotesAddUp`, `SplitsLose`, `RedeemsEarnNothing` of whatever is stored | two handlers, two connections, three saves that meet in one key or in two: they overtake, wait for and deadlock each other. The table starts from each of 192 maps with texts, negatives and percentages above 100; amounts to 7, balances to 5: both roundings and all clamps occur. Every value is covered by the theorems |
| `shops` | `Inv`, `RecordedOnce`, `ShiftIsADay`, `StaysListed`, `GoneForGood` | two handlers, two stores (one opens and closes), a cashier who is hired and moved, one receipt id rung up in either store, two hours with midnight in Moscow between them: every check of a store is followed by its deletion, every sale by its repeat |
| `ledger_sqlite` | `SingleInv`, `RefundedOnce`, `RefundsAgree`, `ReceiptsAreFinal`, `RepeatSettles`, `ImplementsBook` with one connection | two handlers, one card that is blocked, deleted and restored, a receipt that earns, one that redeems, one id reused with other fields, their refunds, corrections of +1 and -1. `ColMax` = 2 bounds balances: spending before a refund and overflow both occur |
| `ledger_postgres` | `Inv`, `BalanceIsLedgerSum`, `NonNegative`, `PurchasePosted`, `CommitsAgree`, `MarkedIsPaid`, `SalesAreCovered`, `PurchasesAreFinal` with two connections and FOR UPDATE, while cards are blocked, deleted, restored and rules change | two handlers, two cards, one receipt id rung up on both, a purchase that redeems, refunds of both receipts, corrections, a negative amount, a setting that does not parse: two transactions overlap at every pair of steps. `ColMax` = 1, since one point already tells a lost update, an overdraft and an overflow |
| `ledger_queue` | `Answered` under fairness | three handlers, two connections, one card, a purchase, a refund, a correction and a block: someone waits for a connection while whoever has the other waits for the row |
| `enroll_visitors` | `Inv`, `OneCard` | two handlers, three browsers: one where two numbers are typed, a till where both are typed too (one in another spelling) and which may hold the cookie of either, one where none is; three cards for two numbers, so that a third could be made |
| `outbox_faults` | `Inv`, `BacklogBounded`, `JobsNotSkipped` with failing statements, a failing Google, save links and a crash | no devices (nothing there depends on them); a claim of two rows: one drain meets two rows of one card, and rows stay behind a full claim; four changes, spread over the two cards in every way, so that a card could collect more rows than there are handlers |
| `outbox_delivery` | `QueuedIsShown` under fairness, with database faults and a restart | two devices, one of which never gets its push; a claim of two rows; two changes over the two cards, so that the second can come at each step of serving the first or find both cards in one drain; no symmetry, as liveness needs. By hand, with three changes and no restart, it holds too |
| `pass_updates` | `Inv`, `OwedIsSeen`, `PassesConverge` | one device, two cards, two ticks a second, a deadline of one tick, five ticks: the points of one card change twice, first where a comparison may hide it, then where it may not, while the other card's time is told or either standing sets a time back. By hand it holds with both cards' points changing, with six ticks, and over seven ticks with a deadline longer than a second. Any second and deadline are covered by the theorems |
| `staff_lifecycle` | `TypeOK`, `LateIsRefused`, `DeletedForGood` | an administrator and an employee, three sessions, two handlers, all ten requests, failing revocations |

Runs that find a disagreement between the code and its documents (`findings` in
`PROJECT.json` quotes the lines):

| Run | Property violated | What happens |
|---|---|---|
| `ledger_double_refund` | `RefundedOnce` | Postgres: two refunds of one receipt both read it before either locks the row; the redeemed points come back twice |
| `outbox_forgotten` | `NothingForgotten` | a change after the worker's read is coalesced with the row being completed; Google keeps the old balance |

Further configurations, one property each. They answer narrower questions about the same
modules and are run by hand; all but the last three end in a counterexample:

| Configuration (module) | Property | What happens |
|---|---|---|
| `LedgerRepeatRace.cfg` (`MCLedger`) | `RepeatIsReplay` | Postgres: a commit repeated while the first runs fails on the primary key with 500; docs/api.md:70 promises 200 and the first result |
| `LedgerRepeatBlocked.cfg` (`MCLedger`) | `RepeatIsReplay` | one connection or many: Commit looks at the standing (service.go:216) before the receipt, so a repeat after the card was blocked or deleted is refused, where docs/api.md:70 promises the first result; `RepeatSettles` is what does hold |
| `LedgerBlockDeleted.cfg` (`MCLedger`) | `DeletedKeepsBlocked` | a card deleted between check and update is blocked; docs/api.md:423 excludes it |
| `EnrollRace.cfg` (`MCEnroll`) | `RepeatGetsCard` | two requests with one phone at once: the second is answered 500 |
| `EnrollTill.cfg` (`MCEnroll`) | `TillGetsNumber` | a till whose browser used the public form is answered the card of its cookie, whatever number the cashier types; docs/api.md:294 has no cookie at that endpoint |
| `PassHidden.cfg` (`MCPassKit`) | `NotModifiedIsTrue` | a change within the slack of a second (public.go:131) is answered 304; docs/api.md:460 |
| `PassLate.cfg` (`MCPassKit`) | `NotModifiedIsTrue` | an UPDATE that waited for its row sets `updated_at` back |
| `PassRules.cfg` (`MCPassKit`) | `RulesAreCurrent` | a change of the rules leaves passes "not modified" |
| `PassUnlisted.cfg` (`MCPassKit`) | `ChangesAreListed` | a commit becomes visible with a time older than what the device was told |
| `StaffDeactivate.cfg` (`MCStaffSessions`) | `DeactivationRevokes` | a login during a deactivation leaves a session unrevoked |
| `StaffPatch.cfg` (`MCStaffSessions`) | `PartialUpdate` | of two patches at once the later one undoes the other's field |
| `StaffLockout.cfg` (`MCStaffSessions`) | `SomebodyAdministers` | two administrators delete each other at once; the bootstrap makes no new one, because the login is taken |
| `ShopMoved.cfg` (`MCShops`) | `SaleFromToken` | after a move a till's sales go to the store of the employee's row (cashier.go:172) and its shift list shows the store of the token; docs/api.md:253 says the store is taken from the JWT |
| `ShopUnrecorded.cfg` (`MCShops`) | `Recorded` | a deadline or a crash between the sale's commit and its row in the feed |
| `ShopPatch.cfg` (`MCShops`) | `PatchKeeps` | of two patches of a store at once the later one undoes the other's field |
| `SettingsSqlite.cfg` (`MCSettingsWrite`) | those of `settings_saves` | hold with the one connection of SQLite, where no transactions overlap |
| `LedgerQueueSqlite.cfg` (`MCLedger`) | `Answered` | holds: three handlers queue for the one connection of SQLite, which none asks for twice |
| `OutboxWake.cfg` (`MCWalletOutbox`) | `WakeIsKept` | holds: with two handlers, no fault and a claim that takes all rows, no row is left on an idle worker without a token in the channel |

`PassHidden.cfg`, `PassLate.cfg` and `PassUnlisted.cfg` are why `pass_updates` speaks of changes
later than a second and a deadline: within the second the slack of public.go:131 hides a
change, within the deadline a time that is written late does, and the list misses what commits
late. Such a change stays hidden until the card is written again. `OwedIsSeen` says that
this is all: nothing later is hidden, on any device, whatever is written in between.
`RefundedOnce`, `RefundsAgree`, `ReceiptsAreFinal`, `RepeatSettles` and
`ImplementsBook` hold on SQLite only; the races of `ledger_double_refund` and `LedgerRepeatRace.cfg` are what breaks them on Postgres.
`outbox_delivery` assumes that Google answers and Apple can be reached, since the code completes a
job whose Google call or push failed. Of the devices `QueuedIsShown` promises no more than
the code keeps: each is woken, or the statement that lists the devices failed when a
balance as new was served (`missed`).
`Shops` assumes what `store.go` sets up by a PRAGMA for the connection it opens first: that
SQLite enforces foreign keys on every connection it uses.

**Deadlock** is checked in every run: no state is without a successor.

**Fairness.** `Ledger` has strong fairness on a handler's `Work`, because the pool of
`database/sql` and the lock queue of a Postgres row both serve waiters in the order they
came, so a wait that keeps coming free is not lost for ever; `SettingsWrite` has it for the
same reason, the deadlock detector included, which ends a ring after a second. `WalletOutbox` has weak
fairness on the worker (its goroutine runs, its ticker ticks) and strong fairness on
`Claim`, `Read` and `Complete`: a database that refuses a statement now and then does not
refuse the same one for ever. `PassKit` has weak fairness on a device's `Sync`: a device
that is pushed to, or whose user pulls, asks in the end. Nothing is assumed of clients, of
the administrator or of the clock.

## 4. Proofs

All theorems hold for every value of the constants allowed by the modules' `ASSUME`s.

- **`LoyaltyRulesProofs`** - `OfferSharp`, `QuoteExact`, `SplitLoses`, `RedeemEarnsNothing`, and
  `EarnIsNat`, `AllowedIsCovered`, `VerdictCodes` that the ledger uses. The argument is about
  `\div`: x div 100 is the number whose hundredfold lies at most 99 below x, so sums and
  products of quotients compare as their dividends do; clamps keep the divisor positive.
- **`LedgerProofs`, either database** - `Invariance` (`Spec => []Inv`), from it `TypeCorrect`,
  `BalancesAreRight`, `NoOverdraft`, `PostedOnce`, `NoRing`, and the action property `SalesCovered`.
  The balance being the sum of its ledger rows is not inductive: a handler writes an
  absolute balance computed from one it read before (`seen`). `Inv` adds why that
  is safe. A handler about to write *holds the row it will write*: on Postgres because
  `holder[card]` is the handler (`RowsHeld`), on SQLite because the handlers inside a
  transaction are exactly those holding connections and there is one (`Pooled`). Hence
  what it read is *still* the balance, covers what it takes, and the card is usable
  (`Fresh`). `HoldersWrite` is the converse: who holds a row is at its writes and waits for
  nobody, so handlers never wait in a ring, whatever the size of the pool, which is what `Answered`
  rests on. (Within the merged step a commit may wait for another that is inserting the same
  receipt id on another card; that one is past its only INSERT of a receipt, and holds the
  row it still updates.) `DriverAssumption` (rows are locked, or there is one connection) is what
  `store.go` sets up.
  `ReceiptChange` lists the two ways a row of receipts changes: a commit inserts it where
  there was none, a refund marks it. From it `PurchaseFinal` (what a receipt says of its
  purchase is never altered, even by refunds that race), `AnswersAgree` (`CommitsAgree`: the row
  that a commit answered from cannot change under its answer) and `RefundsAreMarked`
  (`MarkedIsPaid`: the mark, the ledger rows and the balance of a refund are one transaction).
  The last is as much of "refunded once" as Postgres gives: a marked receipt has been paid
  *at least* once.
- **`LedgerProofs`, one connection** - the receipt is read before the row is locked, and
  `ReceiptsSound` says of a refund's copy only that all but its status stays true. That is the
  exception which `ledger_double_refund` exploits, so `RefundedOnce` is not, and cannot be, in
  `Inv`. Under `MaxOpenConns = 1`, as `store.go` sets for SQLite, `SingleInvariance` proves
  `SingleInv`, which adds `ReadStaysTrue`: while a transaction is open nobody else is in
  one (`SingleTransaction`), so a commit at its lock or its writes still finds no receipt,
  and a refund finds the very row it copied, still committed. From it `RefundPaidOnce`,
  `RefundAnswersAgree`, `ReceiptFinal`, and `RepeatsSettle`: a repeat is answered the recorded
  result, or the block or deletion its card is under at that moment, since Commit looks at the
  standing of the card before it looks for the receipt (`LedgerRepeatBlocked.cfg`). No race, balance
  or rule gives another answer. It needs `Validated`, as a repeat
  has the fields of a purchase that was accepted.
  `BookKept` is the refinement (`Spec => ImplementsBook`): a commit's write is
  `LoyaltyBook`'s `Purchase`, a refund's `Cancel`, an adjustment's `Correct`, an update of the card
  `SetStanding` or, when it changes nothing, a stutter, like every other step. The
  code takes back the smaller of the points earned and the balance, the book floors the
  difference at zero; that the two agree is a step of the proof.
- **`WalletOutboxProofs`** - `Invariance`, `NoneSkipped` and `BacklogBound`. `Complete` marks rows it never
  claimed. `Covered` is why none of them is newer than the balance read: from the read on
  there is a pending row of the card, so a handler that counts inserts nothing, and one that
  is past its count changed the balance before the read. Whom the push reaches plays no part.
  `BacklogBounded` is not inductive, because two handlers may count before either inserts;
  `Coalesced` counts a handler about to insert as a row: one can only join them while the card
  has no row, and then there are at most as many as there are handlers.
- **`SettingsWriteProofs`** - `Invariance`; `Refinement` (`Spec => SavedAtOnce`): a commit is the
  one step that changes `stored`, and by `Isolated` what it stores is the whole of its own save:
  the rows a transaction has written are the rows it holds, nobody else's draft is in them,
  and a row nobody holds is committed. `AlwaysSharp`, `AlwaysExact`, `SplittingNeverPays`,
  `PointsNeverEarn`: the lemmas of `LoyaltyRulesProofs` for whatever map is stored at any time.
- **`ShopsProofs`** - `Invariance`, `SaleRecordedOnce`, `ListIsADay`, `ListKeeps`, `StoreGone`.
  The check of a store (GetStore) proves nothing about the later insert: `Housed` is kept by the
  foreign keys alone, and `Serving` says only that a request is of the kind its label is for.
  `Telling` is why a sale is recorded once: the handler that inserted the receipt is the only
  one that goes on to record it, until it has. `ListIsADay` is about `\div`: the interval
  of DayBounds is the set of hours with one quotient by 24, for every clock.
- **`StaffSessionsProofs`** - `TypeCorrect`, `DeletedAreOut`, `DeletionStays`. Rows and sessions
  only grow older (`Older`): a deleted row stays deleted, a session keeps its owner. Hence a
  late request's asker is deleted at each of its steps (`Barred`), and each path from `Accept`
  to a write passes a check of that row.
- **`EnrollProofs`** - `Invariance` and `NoSecondCard`: a cookie is of a card whose number was
  typed in its browser, an answer is the card of the request's cookie or else of its
  number (`Holds`), phones never change, and the index keeps them unique.
- **`PassKitProofs`** - `Invariance` and `ChangesAreSeen`, for every second, deadline, number of
  devices and cards, with no assumption on how often or in which order anything changes.
  `updated_at` may go back, so `OwedIsSeen` is not inductive. `Behind` adds why it stays: the
  times a device has lie more than a deadline behind the clock, hence behind every time that
  a request can still write (`SeenKept`). An `Ask` moves the device's `since` past the
  card only by putting the card on its list (`AskInv`, which needs that the latest time
  of the list is one of its cards': `LatestIsPast`).

**Only model-checked**: the liveness properties `Answered`, `SavesEnd`, `QueuedIsShown` and
`PassesConverge`, because fairness (`ENABLED`) is beyond the prover; and `WakeIsKept`, which holds
only where a claim takes all rows.

## 5. Not modelled

- *Activity rows* about cards, employees, stores and settings, the wording, the order and the
  limit of the list: nothing reads them but the list.
- *Pass building and signing, APNs' and Google's tokens, JWT, bcrypt, barcodes*: cryptography and
  external services; modules take their results as fresh values or as steps that may fail.
- *Card page, documents, texts, logo, configuration, CORS, rate limiter, logging*: no state
  that the properties depend on. The save links of the card page and of enrolment are in `WalletOutbox`.
- *The bootstrap at start-up*: the initial states of `StaffSessions` and `Shops`. A crash between
  its two inserts leaves the demo cashier out for good, as the next start finds the
  administrator and returns.
- *The names, points and balances* a row of the shift list shows beside the receipt.
- *The authorisation of a device by its ApplePass token*, and push tokens.
- *Integer widths*: products in `rules.go` are computed without the 64 bits of Go.

## 6. Plan

1. (done) `LoyaltyRules`, `LoyaltyBook`, `Ledger`, their proofs; `WalletOutbox`, `Enroll`, `PassKit` with
   proofs; `StaffSessions`.
2. (done) `SettingsBook`, `SettingsWrite`, `Shops`, the Apple push in `WalletOutbox`, late requests in
   `StaffSessions`, with their proofs.
3. Further modules (a new question takes the place of, or joins, a run it subsumes, so
   that the whole check stays short):
   - `LedgerOutbox`: `Ledger` and `WalletOutbox` composed, so that the row is enqueued by the very
     handler that committed and lost when it is dropped in between;
   - `WalletOutbox` with `PassKit`: a push lost or coalesced against a device that asks;
   - 64-bit products in `LoyaltyRules`.
4. (done) Proofs of `RefundedOnce`, `RefundsAgree`, `ReceiptsAreFinal`, `RepeatSettles` and
   `ImplementsBook` for one connection; of `CommitsAgree`, `PurchasesAreFinal`, `MarkedIsPaid` and
   `HoldersWrite` for both databases; of `BacklogBounded`.
5. Further theorems: `WakeIsKept` for a claim that takes all rows and no faults; a bound on the points a
   receipt of two racing refunds can give back on Postgres, by the number of handlers.
