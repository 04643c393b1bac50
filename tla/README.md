# Formal models of the Streple backend

TLA+ models of the NestJS backend (`src/`): what moves value, decides on trades, and keeps
the users, documents and followers around them; the TLC configurations that check the
models, and TLAPS proofs about them.
Paths below are relative to `src/src/app/` unless they start with `src/`.

    tlc -workers 2 -config MCWallets_cross.cfg MCWallets              # one run
    tlc -workers 2 -config MCPublishing_documents.cfg MCPublishing
    tlapm WalletsProofs.tla                                           # all proofs about wallets
    tlapm TradesProofs.tla                                            # ... about trades
    tlapm GamifiedProofs.tla                                          # ... about the game
    tlapm CryptoWalletsProofs.tla                                     # ... about crypto wallets
    tlapm CommunityProofs.tla                                         # ... about follows, notices and lists
    tlapm PublishingProofs.tla                                        # ... about documents and their jobs
    tlapm AccountsProofs.tla                                          # ... about users, referrals, privileges

## 1. The system

One Node process (NestJS, TypeORM, PostgreSQL), plus a job queue kept in a sqlite file
and a price feed over websockets.  Handlers run concurrently: between two `await`s on the
database any other handler may run.  Isolation is what PostgreSQL gives at READ COMMITTED:
row locks where the code takes them (`pessimistic_write`), unique constraints, and the
atomicity of a transaction.  The models take one process; deployed replicas would share
the tables but not the price cache, the `canQuery` flag or the queue file.

| component | source | state | operations | module |
|---|---|---|---|---|
| Wallet ledger | `wallets/service/wallets.service.ts` | `wallets`, `transactions`, `beneficiaries`, `fiat-accounts` | `internalTransfer`, `adjustWallet`, `fundWallet`, `saveBeneficiary`, conversion, `createVirtualAccount` | `Wallets`, `AtomicWallets`, `WalletRows`, `Conversion`; `CryptoWallets` for the last |
| Trades | `trades/services/trades.service.ts` | `trades`, `canQuery` | `create`, `copyTrade`, `cancelTrade`, `update`, `remove`, `systemUpdate`, `checkTradingConditions` | `Trades`, `TradeRows` |
| Trade jobs | `trades/services/trade-schedule.service.ts`, `src/src/global/services/scheduler/` | sqlite queue | starting and expiring jobs, notices to followers | `Trades`, `Community` |
| Price feed | `trades/binance.gateway.ts`, `price-caches.ts` | `PriceCache` | tick, significant change | `Trades`, `TradeRows` |
| Community | `trades/services/trade.community.service.ts`, `src/src/global/helpers/find-many-wrapper.ts` | `follow_traders` | follow, paged lists, curves, drawdowns, rates | `Community`, `TraderStats` |
| Crypto wallets, webhooks | `wallets/service/usdc.service.ts`, `webhooks/`, `users/service/user-schdule.service.ts` | `walletsets`, `crypto-accounts`, queue | wallet for a new user, transfer out, notifications | `CryptoWallets` |
| Gamified learning | `gamified/gamified.service.ts` | onboarding, progress, badges | `create`, `trackUserProgress`, `earnBadges`, `fundUser` | `Gamified` |
| Users, auth, roles | `users/`, `auth/` | `users`, `privileges` | register, verify, codes, passwords, pins, second factor, profile, role, privileges | `Accounts` |
| Referral | `referral/referral.service.ts` | referrals, reward settings | `create`, settings | `Accounts` |
| Mail and blog | `email-center/`, `blog-manager/` | rows, two queues | write, schedule, send or publish, remove | `Publishing` |
| Learning hub | `learninghub/` | rows | write, edit, remove | `Publishing` |
| Subscriptions | `subscription/service/` | subscriptions, jobs | subscribe, expire, repair | - (cannot be created, see 13) |
| Balances | `balance/balance.service.ts` | balances, reservations | reserve, execute, release | - (unreachable, see 13) |
| Uploads, mail transport, websockets, seeders | | files | | - (libraries) |

How they meet: gamified progress and the admin call `adjustWallet` on the wallet service;
trades read the price cache and put jobs on the queue, the queue and the feed call
`systemUpdate` back, and posts are told to followers by the same queue; a verification
of `AuthService` adds the job that makes a crypto wallet, a registration makes a referral;
webhooks write transactions next to those of the wallet service.

What is hard here: several handlers on the same rows (who has locked what, who has read
before whom); values read before an `await` and written after it; calls that nobody awaits
(`void ...`, `Promise.all` over updates that swallow errors); jobs that outlive the row they
speak of; a process that restarts with an empty cache; retries with an idempotency key while
the first attempt is still uncommitted.  The list, at its lines, is `hazards` in PROJECT.json.

What makes each component correct: the ledger must behave as if every accepted call took
effect at one instant and each key once; a trade must be held once per user, copied only
while live, and come to its end; a phase of the game must be paid once and its badge given
once; a wallet at the provider must be named by a row, and a row tell of its payment; what
one request writes to a user must not be undone by another; a document marked as scheduled
must have its job, and one marked as sent must have been tried with everybody; a notice must
reach each follower once; a list read page by page must not lose rows, and the figures of a
trader's pages must agree.

## 2. Plan

1. **Ledger** (done): `Conversion`, `WalletRows`, `AtomicWallets` (abstract), `Wallets`
   (detailed, implements it), `MCWallets`, `WalletsProofs` over `Sums`.
2. **Trades** (done): `TradeRows`, `Trades`, `MCTrades`, `TradesProofs`.
3. **Gamified** (done): `Gamified`, composed with `AtomicWallets`, `MCGamified`,
   `GamifiedProofs`: the reward of a level is paid once because its key is; the badge and
   the progress are not.
4. **CryptoWallets** (done): wallet sets, crypto and naira accounts, and the provider's
   notifications, delivered twice and out of order; `CryptoWalletsProofs`.
5. **Publishing** (done): drafts, schedules and publication of mails, posts and courses over
   their queues; `PublishingProofs`.
6. **Accounts** (done): columns of users under whole-row saves, codes and pins, referrals,
   privileges; `AccountsProofs`.
7. **Community**, `TraderStats` (done): follows, notices, paged lists, the figures;
   `CommunityProofs`.

## 3. The ledger

`AtomicWallets` is the promise: `Deposit`, `Withdraw` and `Transfer` change the balances at
one instant, guarded by the balance and status of that instant, and `Spend` a key once.  It
knows no locks.  `Wallets` is the code: every request is at a program counter, each action
is the code from one database statement up to the next.

| action | code |
|---|---|
| `CheckPin`, `CheckIdempotency` | pin and username lookups, the search for the key in the history |
| `DebitWallet` / `RefuseDebit` | `lockAndFetchWallet`, the balance check and `applyWalletDelta` |
| `CreditWallet` / `MissWallet` / `CreateWallet` / `DuplicateWallet` | the recipient's wallet, found and locked, or inserted under unique (user, currency) |
| `Beneficiary` | `saveBeneficiary` |
| `LogHistory` / `DuplicateKey` | insertion of the rows, unique index on the key |
| `Commit`, `Rollback` | the end of the transaction |
| `DeadlockVictim`, `Fail` | PostgreSQL's deadlock detector; loss of connection or process, rates unavailable |
| `SetStatus` | an operator blocking or unblocking a wallet (external) |

`pend[r]` are the rows request `r` has written but not committed; a reader sees its own.
`owner` and `keyOwner` are row locks and uncommitted unique keys.  Rates may change between
two calls: `Credits` is the set of amounts any known table gives.

The amount of a transfer may be negative, as its DTO allows; those of `adjustWallet` and
`fundWallet` are not, as theirs demand.  A negative transfer passes the sender's check, raises
him and lowers the recipient, whose status is not looked at, or inserts for a recipient without
a wallet one below zero (`CreateWallet`).

Abstractions: an absent row, or one that does not match the query, is not
waited for; foreign keys do not conflict; the sender's history row reads its "previous"
balance after the debit, as the code does.  `createVirtualAccount` is in `CryptoWallets`, with
the other accounts somebody else opens.  Left out: queries, notifications.

## 4. Trades

`rows` is table `trades`; a trade is the set of rows with one identifier, the original and
its copies.  The row a request inserts carries the request's name.  `loc[r]` is the entity a
handler holds and the columns it will write: `save` writes what differs from the row it
reloads, `update` what the caller sent.  `jobs`, `updates` and `checks` are the calls that
nobody waits for: queued jobs, `systemUpdate` and `checkTradingConditions`.

| actions | code |
|---|---|
| `CreateFind`, `CreateRefuse`, `CreateSave` | `create`: duplicate search, then jobs and the wake-up, then the save |
| `CopyCount`, `CopyLock`, `CopyMiss`, `CopyCheck`, `CopyCommit` | `copyTrade` in one transaction with `FOR UPDATE` on the copied row |
| `CancelFind`, `CancelReload`, `CancelSave`, `CancelDuplicate` | `cancelTrade` without a transaction; `save` reads again, writes what differs and may re-insert |
| `FindOwned`, `CopiedRefuse`, `EditCount`, `EditSave`, `EditInvalid`, `RemoveCount`, `RemoveDelete`, `FindRefuse` | `update` and `remove`: find, count the copies, write or delete by id; an edit with custom dates fails at its write, its `endDate` being no column, when its jobs are queued |
| `RunJob`, `SystemUpdate`, `UpdateFails` | the queue worker and `systemUpdate` |
| `Tick`, `Check` | the feed, `PriceCache.set`, `checkTradingConditions` and its query |
| `Fail`, `DeadlockVictim`, `Restart` | lost connections, deadlocks between copies, a restart with the queue file kept |

Abstractions: `systemUpdate` is one step, since it locks all rows it will write before it
decides, and the price is read then (a deadlock met on the way is `UpdateFails`); identical
updates in flight are one; an update of the monitor that throws ends the process (below), one of
a job marks the job as failed; a margin is positive or zero; `createdAt` is in the current week
or not, and the week does not turn; prices are few integers around a take profit and a stop
loss.  A job without custom dates never runs before the save that follows its scheduling: its
delay is five minutes at least, the save milliseconds; with custom dates it may.
`calculateTradeResults` divides by the margin, so a trade entered at an unknown price (zero)
throws when it gains; `HasResult` keeps that, and such a trade is exempt from `Promised`.  Where
a run excludes restarts, an update of the monitor that would throw stays in flight for ever: what
is checked are the behaviours up to the first end of the process.  The worker of queue
`copyTrades` is never started and is not modelled; notices to followers, paged lists and figures
are in `Community`; activity feeds are left out.

Unhandled rejections.  The code calls `void f()` on promises and installs no handler for
their rejection; on the Node version of the `Dockerfile` the process then ends.  Whatever
fails among the calls nobody awaits (an update of the monitor, a reward) is therefore a
`Restart` in the models, which loses everything else in flight.

## 5. Gamified learning

`Gamified` is `gamified.service.ts` on top of the ledger: `Ledger == INSTANCE AtomicWallets`
is taken at its word, which `Wallets` implements.

| actions | code |
|---|---|
| `OnboardFind`, `OnboardSave` | `create`: answers are looked for, then saved |
| `TrackAgain`, `Rescore` | `trackUserProgress` of a level that is found: an update nobody awaits |
| `TrackNew`, `TrackSave` | of one that is not: `fundUser` is sent off, then the row is saved |
| `BadgeFind`, `Award` | `earnBadges` |
| `Pay` | the `adjustWallet` of a reward: a deposit, or "already processed" |
| `Fail`, `Restart` | a lost connection; the end of the process, by a reward that fails for one |

The key of a reward is phase, level and user; it is kept a tuple, apart from the keys of other
callers.  Rows carry the name of the request that inserted them.  `BadgePhases` are the
phases the seeder gives a badge.  `dropped` is a history variable: rewards a restart cut off.
The queries are left out.

## 6. Crypto wallets and naira accounts

`CryptoWallets` is `usdc.service.ts`, the sign-up job, the webhooks and `createVirtualAccount`.
The provider (Circle) is outside: `wallets` counts the wallets it has made, `payments` and
`notices` are what it knows and has yet to have answered.  The rows are sequences in the order
saved; `knew` in a row is history, how many rows there were when its writer looked.

| actions | code |
|---|---|
| `CheckOtp`, `Verify`, `Enqueue`, `TakeJob`, `EndJob` | a call of `verifyEmail` finds the user not verified, saves him, then adds a job, and so does another call that has checked by then; the worker takes one job at a time and does not try again |
| `FindSet`, `CountAccounts`, `SaveSet` | `createWalletSet`: any active set; a full one is retired, a new one saved |
| `FindAccount`, `Mint`, `SaveAccount`, `MintUnnamed` | `createWalletForUser`: look, have the provider make a wallet, save its row; an answer without wallets saves nothing and is a success |
| `ReadBalance`, `Submit` | `createCryptoTransaction` |
| `FindNaira`, `OpenNaira`, `SaveNaira` | `createVirtualAccount` of the wallet service |
| `PayElsewhere`, `Complete` | payments of others, and their completion (external) |
| `Deliver`, `OutboundFind`, `OutboundSender`, `InboundWallet`, `InboundFind`, `Record` | `processCircleEvent` and its listeners `tnx.outbound`, `tnx.inbound` |
| `FailTask`, `FailDelivery`, `Restart` | provider or database fails; an error in a listener is swallowed by the event emitter; the process ends and the queue gives its running job out again |

Abstractions: amounts are left out (a payment the provider accepts is covered); a notification
stays in `notices` until it is answered, and any number of calls may deliver it; an answer that
names no wallet may have made one, and does in the model.  The name by
which `createWalletSet` counts is `NameOf`, the one an account is saved with `ProviderName`:
they differ, so no set is ever full.  `externalRef` is looked up and never written, so `Known`
finds nothing and each delivery inserts a row: what is checked is what the rows still say
truly (`RowsTellPayments`) and that none is missing (`AnsweredIsRecorded`).

## 7. Users, referrals and roles

`Accounts` is `users.service.ts`, `auth.service.ts`, `twofa.service.ts`, the Google strategy,
`referral.service.ts` and `role.service.ts`.  A row is a record of the columns that operations
change; `task[r].entity` is what a request has loaded, without the columns marked
`select: false` unless `login` asked for them.  `log` is history: what each write *meant* to
change, whatever it changed in fact.

| actions | code |
|---|---|
| `Load`, `Reread`, `Save`, `AddJob`, `SendMail` | operations that save a whole entity: find, `save()` (which reads again and writes what differs), the job, the mail |
| `Load`, `FindName`, `Update` | operations that update named columns: `toggleRole`, `updateProfile`, second factor |
| `Login` | `login`, with or without a second factor |
| `FindByEmail`, `ResendOtp`, `FindReferrer`, `FindName`, `Insert` | registration, by form, by Google or by an admin |
| `ReadSettings`, `CountReferrals`, `SaveReferral` | `ReferralService.create`, which nobody waits for |
| `FindReward`, `WriteReward` | the settings of rewards |
| `FindGrant`, `RereadGrant`, `SaveGrant` | `assignPermission`, `removePermission` |
| `FailRequest`, `Restart` | a lost connection; the end of the process |

`save()` of TypeORM is external: it writes a loaded column that differs from a row it reads
first, and hidden columns always.  Abstractions: codes are numbered, and their age is ignored;
passwords, pins and secrets are the name of the request that set them; who enters a code has
been mailed it.

## 8. Documents

`Publishing` is `email-center/`, `blog-manager/` and `learninghub/`: rows in `docs`, both
queues in `jobs`, `task` the calls of requests and of workers, `sending` the batch an email job
is at.  `writer`, `setter` and `late` of a row are history: who wrote it and its status last,
and whether the job that one queued had been taken by then.

| actions | code |
|---|---|
| `Begin`, `UploadNew`, `RecipientsNew`, `Save`, `QueueNew` | `create`: file or addresses, row, then the job |
| `Find`, `Upload`, `RecipientsOld`, `Write` | `update`: row, file, then the job, then the row (the job first) |
| `FindToRemove`, `Delete` | `remove`; the job stays |
| `TakeJob`, `NextBatch`, `Mail`, `EndMails`, `Write` | the workers: batches with three tries each and a delay, then the mark of the row |
| `Tick`, `FailTask`, `Restart` | time; failures; the end of the process |

The queue (plainjob, external) hands a job out after its delay, one at a time, and again
after the process ended under it.  The mark of a sent email is written with nobody waiting.
Left out: the view counter, single recipients chosen by hand.

## 9. Community

`Community` takes the writes to `trades` in three steps: a call finds its row, begins to write,
which gives the write its time, and writes (what the calls do in between is `Trades`).
`updatedAt` is the time at which the transaction began, of the statement where there is none
around it, so a write that waited for a lock is older than what was committed meanwhile.  On top
of that are the readers, over several steps.

| actions | code |
|---|---|
| `FindTrader`, `FindFollow`, `SaveFollow` | `followTrader` |
| `BeginWrite`, `Post`, `QueueNotice` | `create`: the row, then the job of its notice |
| `FindOwn`, `Edit`, `RemoveTrade` | `update`, `remove` |
| `FindLive`, `Reload`, `Cancel`, `CancelDuplicate` | `cancelTrade`: the entity is closed in memory; `save` reads the row again and writes the columns that differ |
| `BeginWrite`, `Copy`, `CopyMiss` | `copyTrade`, which gives every row of the trade one status |
| `BeginWrite`, `SystemUpdate` | `systemUpdate` by a job or the monitor, which gives trades that stay open an outcome and a result too |
| `TakeNotice`, `ReadTrade`, `NextBatch`, `Mail`, `EndNotice` | the notice of a new trade, in batches |
| `BeginList`, `ReadRows`, `CountRows` | `findManyWrapper`: a page and the count are two queries, rows of one time come in any order |
| `Tick`, `Restart` | time without a write; the end of the process |

A job, a tick or a request is one call here with the status and the result the prices give it.
The label `torn` of a cancel is history: it has saved its columns over what another wrote after
the cancel had read the row.  So are `stood`, `left`, `known` and `told`.  `TraderStats` is what
the pages compute of the rows, as functions of the rows a query returned: `PerformanceCurve`,
`DrawdownCurve`, `MaxDrawdown`, the rates and sums of `tradeProfileStats` and
`getTradingStats`.

## 10. Runs

| run | question | bound |
|---|---|---|
| `wallets_cross` | overdrafts, lost updates, keys applied twice, stale buffers, debits of blocked wallets; everybody answered in spite of opposite lock orders | 3 requests out of 6 calls, one with a negative amount, 2 funded users, one unregistered, one currency |
| `wallets_first` | first credits racing on the unique constraint, conversion; refinement of `AtomicWallets` | 3 requests out of 8 calls, amounts of either sign, 2 rate tables, 3 currencies of which one has no wallet support |
| `trades_requests` | copies, edits, cancels and removals on one trade | 3 requests, an original with a copy, or an open trade, or a draft; jobs, restarts, no ticks |
| `trades_expiry` | does every trade keep an end ahead, under the feed | 2 requests, a pending order with a copy, posts without an entry price, 2 prices |
| `trades_settle` | does every promised trade settle, every request end | 2 requests, one price that hits |
| `gamified` | is each level paid once, with what was earned, and each badge earned | 3 requests out of 5 calls, 2 players of whom one has a wallet; failures, restarts |
| `custody` | is any wallet forgotten, do rows tell of payments, does a sign-up get its account | 4 scenes of 1 or 2 users, 2 calls of `verifyEmail`, 2 requests or a payment, 2 webhook calls, 4 wallets, a restart |
| `accounts` | which writes to a user, referral or role are undone, and by what | every choice of 3 of 6 or 7 calls on 7 tables; failures and a restart |
| `publishing` | does what is scheduled have a job, come true, and go to everybody | 1 or 2 requests on a new row or a draft, 2 people in batches of one, 3 tries, 2 jobs, a restart |
| `community` | who is told, which rows a list skips, do the figures agree | 3 requests; 2 followers, or 3 trades on pages of one and two calls that write them, transactions that overtake each other among them, or 3 trades with results at 4 placings in time, closed by hand, by the monitor, or left open with a result |
| `trades_reopen` | **violated**: a copy reopens closed rows | 2 requests |
| `trades_boot` | **violated**: unknown prices are zero and hit | 1 request, 2 assets |

Bounds.  Requests are the number of concurrent handlers, not of calls over time: the tables
start in states that earlier calls leave.  Two requests suffice for a conflict on one row
and for opposite lock orders; three add a retry or a third party between the two.  Ownership
of rows and keys is per row, so more wallets add no new conflict among three requests.
`MaxChecks = 1` allows one monitor query in flight (the interleavings of a second are those
of the same query later), `Ticks` are the prices the feed may send, `Faults` selects lost
requests, failed jobs and restarts.  Deadlock checking is off where all requests may be
answered and nothing is left to do.  Three requests of the game are two tries at one level, at
once or one after the other, and a second player or level.  `Casts` of the later modules names
who takes part in a behaviour together, so that parts that share no row are not multiplied;
`MaxWallets = 4` is one more than the calls of a scene can ask for without a restart,
`MaxJobs = 2` a job for each of two requests, `MaxDate = 3` leaves room for a date before,
between and after the two, `PageSize = BatchSize = 1` makes every row a page and every mail a
batch, `MaxClock = 7` gives each write of three requests its own time.  `MaxRestarts = 1`: a
second restart repeats what the first did.

`TypeOK` of the modules without a run that names it documents their state.

Fairness.  `wallets_cross`: each statement of an open request is answered and a deadlock is
broken (`deadlock_timeout`), weak fairness of `Step(r)` and `DeadlockVictim(r)`.
`trades_settle`: also of `SystemUpdate`, `RunJob` and `Check`, for the process runs what is
in flight and the queue runs what is due.  `custody`, `publishing` and `community`: the worker
polls its queue and what it has begun goes on; in `custody` also `Enqueue`, the step after the
save of a verification, in `publishing` also time, in `community` also the steps of requests
that have begun.  Nothing is assumed about requests arriving, ticks or faults.
`trades_settle` has no faults, since a lost update loses the end of a trade.  One such
fault is of the code's own making: `systemUpdate` locks the rows of a trade one by one, a
copy holds one of them and wants the others, and if PostgreSQL picks the update as the
victim of that deadlock nobody repeats it.  For the update of a job that is `UpdateFails`, for
one of the monitor `Restart`; what is said of the end of a trade is said of behaviours without
them, what is said of copies and closed rows of all.
`Promised` speaks of a trade as long as no edit has begun, since an edit may put a row back
after the job of its trade has run.

## 11. What holds and what does not

The ledger holds: no interleaving of requests, retries, deadlocks and crashes applies a key twice
or loses an update, and every behaviour is one of `AtomicWallets`.  Nor does any overdraw a
wallet or debit a blocked one, with one exception that the properties name: a transfer of a
negative amount lowers its recipient, blocked or not, though never below zero, and one to a user
without a wallet in that currency makes him one below zero.  Trades are weaker, since only
`copyTrade` and `systemUpdate` lock.  Still: nobody holds a trade twice (two copies through
different rows both pass the check, and then block each other's final update); a copy is of a
live, unchanged row; a settled trade comes back only by an edit that had found it before; no
promised trade loses its end, though the monitor marks the expiry job as done before the trade is
closed.

The game: however completions are doubled, retried and cut off, a level is paid at most once
and with what one of its tries earned, and no level is recorded whose reward was not asked for
before.  Rows of progress and badges may be doubled, and a reward that a restart cuts off is
never asked for again once its level is recorded.

The rest of the code takes no locks, and its properties say *what it takes* for something to go
wrong: a second account, wallet set or follow needs a call that looked before the first was
stored; a column of a user is undone only by a save of the whole row that straddles the write; a
list skips a row only for one that leaves it or is dated back in it; a document marked as
scheduled is without a job only where the process ended or the job overtook the write.  A
deviation that needs less would be a violation.

Disagreements between code and its own words are the runs marked violated, each described
under `findings`.  Others were met and are not checked by a run of their own:

- a recipient saved by one user cannot be saved by another (`wallets.service.ts:693` searches
  without the user);
- an edit that counted the rows of its trade before a copy is saved after it
  (`EditFoundItUncopied` says that it must have counted before, two cancels aside);
- a check whose query runs before the save of a new trade clears `canQuery`, and ticks are not
  looked at until the next create (`trades.service.ts:170`, `:300`); its job still ends it;
- a cancel that saves an old entity loses a copier (`trades.service.ts:232`); the weekly limit
  (`:878`) and the duplicate search (`:74`) can be passed together; the starting and the
  expiring update of a pending order are sent off together and open it at any price (`:351`); a
  trade entered at an unknown price has margin zero and cannot be closed (`:1048`); a custom
  date in the past runs the expiry job before the save (`:137`);
- publishing a draft queues a job whose worker is never started (`:605`), and the process may
  end between a post and its notice (`:187`): followers are not told, an exception `NoticesEnd`
  names;
- publishing a draft with custom dates fails after its jobs are queued (`:603`), which then open
  and close the draft;
- where the provider's answer names no wallet, the sign-up's job is done and its user has no
  account (`usdc.service.ts:73`): the exception of `SignUpGetsAccount`;
- `changePassword` compares with a password it has not selected and fails for everybody
  (`users.service.ts:269`);
- a draft email scheduled by its date alone is sent to nobody (`email-center.service.ts:164`),
  and only a draft post gets a job (`blog-manager.service.ts:157`): both are exceptions the
  properties of `Publishing` name;
- the two pages of a trader differ while a trade that is not closed has a result: each
  significant tick gives open trades one (`trades.service.ts:351`), and a copy reopens closed
  ones.  The profile counts its wins, so that its rate can exceed one hundred percent, and not its
  losses; `PagesAgree` says that this is all they differ by, until a cancel saves outcome or
  result over what the monitor wrote after the cancel had read the row (`torn`).

## 12. Proofs

`WalletsProofs` proves, for any users, currencies, rate tables, calls and number of
requests, from `WalletsAssumption`, `RatesArePositive` and those on amounts and keys:

- `TypeCorrect`: `Spec => []TypeOK`, the basis of everything else.
- `Isolation`: `Spec => []TransactionsIsolated`.  This is the inductive heart: what a
  request has buffered for a row is locked by it and is the committed row changed by what
  its call is `Due`, so writing it back whole loses nothing.  No balance property is
  inductive without it, since a balance is computed in memory and stored later.  The
  argument: an action of another request cannot touch a row that `r` has locked
  (`OthersIsolated`), and `r`'s own steps keep the equation (`CreditIsolated`).
- `Implements`: `Spec => Atomic!Spec`.  Only commits and operators write tables
  (`OnlyCommitsAndStatus`); by isolation a commit is the atomic effect of its call
  (`CommitEffect`) and spends a fresh key (`CommitSpends`); all else stutters.
- `Solvent`: from the same, what a commit debits or lowers is covered (`CommitCovered`), so that
  a wallet below zero was made so, by the only history row it has.
- `KeysOnce`: a key in the history has one request that succeeded with it, and
  "already processed" is answered only for such a key.
- `BlockedUntouched`: the action property that a wallet that is blocked or suspended is lowered
  by the transfer of a negative amount to it at most.
- `RowsTell`: `Spec => RowsTellTheBalance`.  By isolation the balances a transaction keeps in
  variables are those its commit publishes (`CommitTells`).
- `HistoryExplains`: `Spec => []HistoryExplainsBalances`.  The history is finite and all of
  requests that have succeeded, which is final (`HistoryOfSuccess`), so the rows of a commit
  are new; they add up to what the commit does to each balance (`CommitExplained`), also
  where both are of one wallet.

`Sums` proves what the last of these, the rewards and the figures below need of folds over finite
sets: that there is one for any step (`FoldExists`, `StepsExist`) and that a sum of the community
modules, which choose an order, may take any element first (`SumTakes`), so that it grows by what
is added (`TotalAdds`) and splits over parts (`SumSplits`).  These are by a least counterexample,
since an induction theorem cannot be instantiated.  More lemmas count: how many elements a range
has room for (`FewBetween`), that an order of a set has all of it (`OrderHasAll`), how many it
numbers (`NumberedUpTo`), and that the ranks of a strict order are its places (`Ranked`).

`TradesProofs` proves, for any users, assets, prices, limits, calls, tables to start with and
number of requests, from `TradesAssumption` (keys of new rows are new and those of a behaviour
finitely many, so that its rows can be counted; the table at the start has one row per trade and
user, and rows of one trade agree in their margin):

- `TypeCorrect`: `Spec => []TypeOK`, with `Held`: past its first read a request holds an
  entity, and each label belongs to the handlers that have it.
- `CopiesAreOfLiveTrades`: `Spec => CopiesLiveTrade`.  Two facts carry it.  `Identified`:
  trade, owner, author and margin of a row are fixed by its key, in the table and in every
  entity held, so that an entity read long ago still speaks of the same trade.  `CopiesHold`:
  from `FOR UPDATE` to the commit the row copied is locked by the copy, live, and agrees with
  the entity in its terms; `LockedRowStays` shows that no step of anybody else touches it.
- `SettledTradesStay`: `Spec => SettledStaysSettled`.  A copy finds a live row of its trade, a
  cancel writes a closed one (`CancelsClose`), jobs and ticks write live rows only, so a
  trade without live rows can get one by an edit alone (`Revived`).
- `HeldOnce`: `Spec => []OneRowPerUser`.  The property is not inductive: `Inserting` says
  that between the check and the insertion no row of the user appears in the trade, because
  any other copy must write the row that is locked; `Vanished` says that a row held and gone
  has been removed, so that what a cancel puts back is exempt.
- `EditsFoundUncopied`: `Spec => EditFoundItUncopied`, from the invariant `Edits`.  `Found`: as
  long as an edit has not counted, a copy of its row leaves a second row of the trade, which no
  remove will pass, so an edit that counts one row holds the count that row has.  `Counted`: the
  first copy after that starts from this row, so every row then has more copiers, and so has
  what a later copy or a cancel of another row holds (`Beyond`).  Two exceptions belong to the
  statement: a cancel that writes the row itself puts an old count back, and one that puts a
  removed row back adds a row to the trade without a copy; the second takes four requests (copy,
  remove, cancel, and an edit of the copy), one more than the run has, and came out of the proof.
- `EndsAhead`: `Spec => []EndingAhead` when only requests may fail.  `Ahead` is the inductive
  invariant: a row that is live, or whose trade anything is on its way to, has its end ahead;
  nothing is on its way to a trade that is not posted; and from the scheduling of a job to the
  save of its row the job waits.  Margins agree in a trade, so the update that closes it
  closes every row that has one (`ClosesAll`).

`GamifiedProofs` proves, for any players, calls, scores and number of requests, from
`GamifiedAssumption` (rewards are amounts and their keys are keys the ledger knows):

- `TypeCorrect`: `Spec => []TypeOK`; a deposit keeps the ledger typed (`DepositTyped`).
- `RewardsAhead`: `Spec => []RewardAhead`.  A key once asked for stays so (`AskedStays`);
  `AskedBefore` adds that it is asked for from before the save of the row on.
- `BadgesFollow`: `Spec => []BadgeAfterCompletion`.  `BadgesHold` adds that from the save to
  the badge the request has its record, and that who has given a badge is done.
- `BalancesExplained`: `Spec => []RewardsExplainBalances`, for any accounts to start with.
  `RewardsEarned` adds that a reward under way is what a try at its level earned; tries stay
  (`TriesStay`), and a payment adds its level and its amount to the sum (`PaidExplained`).

`CryptoWalletsProofs` proves, for any users, calls of `verifyEmail`, requests, payments, webhook
calls, scenes and number of wallets and restarts, from `CryptoAssumption` (requests, payments
made elsewhere and "nothing" are told apart; a set holds at least one account):

- `TypeCorrect`: `Spec => []TypeOK`.  It needs `NeverFull`: the accounts of a set are counted
  by the name of the set, which no account bears, so no set is ever retired.
- `SecondsOverlap`: `Spec => []SecondByOverlap`.  The property says nothing of calls under
  way, so it is not inductive; `LookedFirst` adds that what a call about to store has looked
  for was not there when it looked, and that whatever of it is there now came later.  A step
  that stores appends (`Appended`), so its row comes after all any call has looked at.
- `WalletsNamed`: `Spec => []WalletsAccounted`, inductive by itself once accounts are known to
  stay (`AccountsStay`).
- `RowsTell` and `AnsweredRecorded`: `PaymentInv` says that what a notification tells is true
  of its payment, also of one a webhook call still holds, and that a call that has looked a
  user up has one who owns the end it is about.  It stays because payments keep their ends and
  are not undone (`PaymentsStay`): a request pays once, being done for good afterwards
  (`DoneStays`).  No row is ever found by its payment (`NoneKnown`), so what is answered has
  been inserted, and never updated.

`PublishingProofs` proves, for any rows, people, groups, calls, batch size and number of jobs
and restarts, from `PublishingAssumption` (calls and first rows are well formed; the
first rows were written as drafts, by no request that is to run; a post is never sent and a
course never scheduled, as their enumerations have it; a create names its own
row and tells its text and status; rows, requests and jobs have different names):

- `TypeCorrect`: `Spec => []TypeOK`.
- `SentMailed` and `ScheduledPlanned`: neither property is inductive, since each speaks of
  rows and a step moves jobs and calls.  `Queued` says of a job that it is of the row its call
  names and that its people are to be tried or have been; `Tried` that those of the email under
  way are settled, in the batch or waiting; `Labelled` that an update about to write what it
  has scheduled has its job; `SetBy` that who has set the status of a row is a call or a job of
  that row, and past its save.  A step that moves one call (`CallMoves`), adds a job
  (`JobAdded`) or moves one (`JobMoves`) leaves every row accounted for (`RowKept`); a job that
  writes its row can be the plan of no other, its call having named this one.
- `JobsMatchRows`: `Spec => []JobMatchesItsRow`.  `Ready`: a request about to save or to queue
  has a date its delay reaches; `Kept`: a job is due no earlier than its call says, carries its
  text and its people, and was taken when due; `Bears`: a row bears what the call that wrote it
  last named.  Each step moves one request (`OneMoves`), queues one job (`OneQueues`) or is the
  job's own (`JobActs`), and the rest is as before (`MatchKept`).

`CommunityProofs` proves, for any people, trades, requests, batch size and number of restarts,
from `CommunityAssumption` (the calls, rows and follows of a behaviour are well formed; rows,
requests and people are finitely many; the rows there are at first were written by `Start` and have the
outcome of what they made, whatever their status):

- `TypeCorrect`: `Spec => []TypeOK`.
- `SecondFollowsOverlap`: `Spec => []SecondFollowByOverlap`.  `Looked` adds what the property
  does not say of requests under way: the rows of its user that one about to write does not
  know of came after it looked.
- `NoticesExact`: `Spec => []NoticeIsExact`.  `Sorted` keeps a notice's readers apart in those
  waiting, those of the present batch and those failed, so that each mail takes one of them
  away; `Counted` says that a mail beyond one for each restart is of the present run and its
  reader is not to be tried again; `Reached` that, where no mail fails, a reader is told or
  still waits.  `Single` is needed since one record `sending` serves all jobs.
- `ListsMissOnlyForLeavers`: `Spec => []ListMissesOnlyForLeavers`.  `Ahead` is what comes before
  a row in the list and `Read` how many places have been read; `PageInv` says that a reader has
  `Skipped`, of what stands and lies in the places read, no more rows than `left` counts, and that
  what stands is listed at a time of its own (`Standing`).  `left` counts what leaves the list
  and what a write dates back in it.  A row that stands therefore moves forward by one at most
  for each of those (`WriteStands`); rows that stand have different places (`PlacesDiffer`), so
  no more of them than were counted cross the end of what was read (`WriteSkips`, by the
  pigeonhole `FewBetween` of `Sums`).  A page has at each place the row that stands there,
  in whatever order rows of one time come (`PlaceInOrder`); who counts no more rows than places
  read has been at every place (`CountKeepsPages`).
- `PagesAgreeUntilTorn`: `Spec => []PagesAgree`.  `FigureInv` is that every row is `Consistent`,
  its outcome that of what it has made, whatever its status, until a cancel is `torn`, which it
  remains (`StaysTorn`).  Each write keeps it (`RowsConsistent`, `TradesKeepFigures`): an update of
  the monitor writes outcome and result together, and a cancel whose row is still as it saw it
  writes both or neither.  Then winners, losers and the rest part the rows, the losers by whether
  they are closed, and sums over parts add up (`PnlAdds`, `FiguresAgree`).
- `LargestFall`: `Spec => []FallIsLargest`, from the types alone.  The trades of a day stand in
  line, each at the place its rank gives (`PeriodLined`); the fold over them is a sequence of
  falls (`FallsAlong`), which after each step holds the sum, the highest sum and the deepest fall
  from one sum to a later one (`Fallen`, by `FallStep` and a least counterexample); and what was
  made up to a time is the sum at some place of the line (`CutExists`, `CutSums`), a later one
  for a later time, and at the place of each trade where no two share a time (`OwnCut`).
- `CurvesAgreeAlways`: `Spec => []CurvesAgree`, likewise.  The functions the two curves define by
  recursion exist (`StepsExist` of `Sums`), and the second one falls along the first, so `Fallen`
  holds of it too (`CurvesTell`).  The days of a window part its trades (`DaysCover`), and their
  ends are places of the line, so that `LargestFall`'s bound holds of them (`DayFalls`).

`AccountsProofs` proves, for any users, names, permissions, requests, calls, rewards and number
of restarts, from `AccountsAssumption` (the calls and the first rows are well formed; a column
that was not loaded, null, and the names of requests and users are told apart; neither Google
nor an admin names a username or a referrer):

- `TypeCorrect`: `Spec => []TypeOK`, with `Placed`: what the place a request waits at tells of
  its operation and of the rows it will write.
- `ColumnsStandAlways`: `Spec => []ColumnsStand`.  The property speaks of rows, and a save
  writes what an entity has held since its load; so `EntityOld` says that what a request holds
  was `Explained` after as much of the log as it had seen, and that hidden columns are held by
  the operations on the pin alone, and `DirtyOld` that a column is left out of a save only
  because the row has its value or was written since.  What was explained after a part of the
  log stays so (`Prefix`); a save that writes an old value straddles whatever came in between
  (`ExplainedBack`), and one that writes what it means is its own explanation
  (`ExplainedWritten`).
- `PermissionsStandAlways`: `Spec => []PermissionsStand`, in the same way: `GrantOld` says that
  the privileges a request holds are what its row held when it was read, with what was asked;
  and that who is about to make a row saw none.
- `ReferralsMatchAlways`: `Spec => []ReferralsMatchRegistrations`.  `ReferOld`: a referral under
  way is that of the registration it bears the name of, has its user if the row was inserted, and
  its count is that of the rows it knew.  `Registered` and `Saved` tie log and table to it, and
  since an address is inserted once, no two referrals have one user.  `OneReferral` counts the
  row, `WorthIt` turns the count of the rows known into that of the rows before.

Model-checked only: liveness, which the prover does not reach (`EveryRequestAnswered`,
`TradesSettle`, `SignUpGetsAccount`, `ScheduledComesTrue`, `NoticesEnd`).  Every safety property
of a run that is to pass is a theorem.

## 13. Not modelled

- **Subscriptions**: the second query of `createSubscription` is on an entity of the Balances
  module, which `src/src/config/ormconfig.ts` does not register, so it fails before it writes:
  no subscription exists for its jobs to act on.
- **Balances**: its controller is commented out and its entities are not registered.
- **Uploads, mail transport, websockets, seeders, configuration**: libraries, one-off data; a
  mail or an upload is a step of the module that asks for it.
- Of modelled components: the age of codes, the view counter of posts, mails to single
  recipients, the application to become a professional (one insert), activity rows
  (inserted, never changed), averages of leverage and lot size.

See `components` in PROJECT.json.  Throughout: validation, formatting; authentication and
guards (library calls in front of the handlers); numeric precision of decimal columns (amounts
are integers of the smallest unit).
