# hm-dp in TLA+

Specifications of the concurrent core of hm-dp, a local-life review site (Spring Boot, MySQL, Redis,
Redisson): what its threads, scheduled jobs, Lua scripts and transactions do to the shared state, and which
properties survive their interleavings, failing calls and crashes.

Paths below are relative to `src/src/main/java/com/hmdp/`; `src/README.md` and `src/docs/` are the
repository's own documentation. The program is Java with Lua scripts, mappers and two pages of the frontend
that take part in a protocol (`src/frontend/info.html`, `src/frontend/task-center.html`); that is the code the
modules translate. The `.js` files under `src/frontend/js` are copies of vue, element and axios, a footer and
`common.js`; of these only the response interceptor of `common.js` takes part, by which a claim times out at
the page (`ClaimAborts`). None of the rest is modelled: it draws pages.

## The system and its parts

| part | state | operations | hard behaviour | what makes it correct |
|---|---|---|---|---|
| seckill orders: `VoucherOrderServiceImpl`, `VoucherOrderTransactionalService`, `SeckillReservationCompensator`, `VoucherOrderReconciliationJob`, three Lua scripts | Redis stock, buyers set, status hash, pending ZSET, stream with its group and pending lists, retry hash, dead letters, two sets of markers; `tb_seckill_voucher.stock`, `tb_voucher_order` | reserve (Lua), consume, recover pending, persist, compensate, dead-letter, reconcile | at-least-once delivery, a failure or crash at each of a dozen calls per record, retries, locks with a lease, consumers that share a name, a job beside the consumers | never oversold, one order per user, nothing accepted is lost, each reservation settled once, truthful status |
| seckill launch: `VoucherServiceImpl`, `loadVoucherCache` | three Redis keys per voucher, the voucher row | publish after commit, load on demand | publisher and requests write the same keys | the stock is put on sale once |
| like counter: `BlogLikeRedisService`, `BlogLikeSyncJob`, `BlogLikeTransactionalService`, five Lua scripts | likes ZSET, count, baseline, net changes, dirty queue, snapshot with batch id, reconciliation queue; `tb_blog.liked`, `tb_blog_like_sync_batch` | toggle, claim, read, apply, acknowledge, reconcile, clean up | retried batches, lost locks, two jobs that write the same column | no like lost or counted twice, queues complete and fair, convergence |
| voucher grants: `service/marketing/VoucherGrant*`, `MarketingExpirationJob`, two Lua scripts | grant log (outbox), stream, Redis stock, owners set, request keys; `user_voucher`, `voucher_template` | publish after commit, scan, reserve, load the stock, consume, compensate, expire | outbox scan beside `afterCommit`, stale snapshots, compensation after an ambiguous commit, cache rebuild, expiring vouchers | a voucher per request and user at most, no unit lost or given twice, every grant settles |
| tasks and rewards: `TaskEventService`, `TaskProgressTransactionalService`, `TaskRewardService`, `task-center.html` | event records, progress rows, points, the request ids a page has stored | record, claim, retry, decide | concurrent and repeated events and claims, retries with an old id, midnight | progress counts each event once, one reward per task and day, a reward is received only for a granted voucher |
| shop cache: `CacheClient`, `ShopServiceImpl.update` | cached value with a logical expiry, rebuild queue, lock | read, initialise, rebuild, update and delete | rebuild racing an update, full queue, lost lease | old values only by a race, one loader at a time, agreement in the end |
| follow and feed: `FollowServiceImpl`, `BlogServiceImpl`, `info.html` | `tb_follow`, `follows:` sets, feed ZSETs, the scroll position of a page | follow, unfollow, publish, scroll | two stores without a transaction, duplicate rows, equal scores, late answers | set and table agree, scrolling leaves out no blog and ends |
| login, sign-in, rate limiter, id generator, queries, CRUD, uploads, frontend | sessions, bitmaps, counters | single commands | none of their own | |

Requests call the services directly. The orders, the grants and the like counter hand work from a Lua script
to a thread through Redis (a stream, a queue); the thread writes MySQL in one transaction and then
acknowledges in Redis. Blog publication, likes, sign-in and first login report task events; a completed task
leads to a grant. `VoucherGrant` shows that the grant pipeline implements `Grant`, and `TaskReward` builds
tasks and rewards on `Grant`.

`PROJECT.json` lists the components with their sources and the hazards with the line where each bites.

## Modules

| module | content |
|---|---|
| `FlashSale` | what the order pipeline promises: reserve, sell, release |
| `SeckillOrder` | the order pipeline; maps to `FlashSale` through `Sale == INSTANCE FlashSale WITH ...` |
| `SeckillLaunch` | publication of a voucher and loading of its keys |
| `BlogLike` | the like counter |
| `BlogLikeReadings` | `BlogLike` with a history variable: what has become of the counts a reconciliation has read |
| `Grant` | what granting a voucher promises: a request waits, is granted or refused |
| `VoucherGrant` | publisher, consumer, expiration; maps to `Grant` through `Grants == INSTANCE Grant WITH ...` |
| `TaskReward` | events, claims and pages of one user, with `G == INSTANCE Grant` as the grants |
| `ShopCache` | the cache of one shop |
| `Feed` | who follows whom, the fan-out of blogs, the page that scrolls |
| `FlashSaleProofs`, `SeckillOrderProofs`, `SeckillLaunchProofs`, `BlogLikeProofs`, `VoucherGrantProofs`, `TaskRewardProofs`, `ShopCacheProofs`, `FeedProofs` | the theorems |
| `MC...` | instances for TLC: model values, symmetry, values for constants that are functions |

Definitions named `X_Something` beside `X` are wrong versions of `X`, the bug named in their comment. No
specification uses them; they show, put in the place of `X`, that a property notices that bug.

### SeckillOrder

One voucher. An action is one Redis command, one Lua script, one SQL statement or one transaction, so every
interleaving of the threads and a crash between any two calls is a behaviour. `pc[i]` names the next call of
the consumer thread of instance `i`, `jobPc[i]` that of its reconciliation job.

| code | actions |
|---|---|
| `seckill.lua` | `Seckill` |
| `consumeOrders`, `recoverPendingMessages` | `ReadNew`, `SkipRecovery`, `ReadPending`, `NextRecord`, `Throw` |
| `persistWithUserLock` | `TryLock`, `CheckHeld`, `Unlock`, `LeaseExpires` |
| `createVoucherOrder` | `SelectOrder`, `WriteOrder` (UPDATE, INSERT and COMMIT; `Accepts` is the condition on the stock and the unique key) |
| `processRecord` after the transaction | `AfterPersist`, `RestoreReservation`, `MarkProcessed`, `RemovePending`, `DeleteRetries`, `AckProcessed` |
| `handleRecordFailure` | `CountRetry`, `AddDeadLetter`, `MarkFailed`, `AckFailed`, `DeleteFailedRetries` |
| `reconcileFailedOrders`, `reconcileOne` | `StartJob`, `ReadStatus`, `FindOrder`, `ReturnReservation`, `MarkReconciled`, `RemoveReconciled` |
| a process that dies and comes back | `Crash` |

A Redis call may fail before it is executed (`RedisCallFails`, `JobCallFails`) or after (`Reply`, `JobReply`:
executed, but the thread sees an exception). A transaction may roll back, or commit although the thread sees
an exception. Order ids are the order of admission, which is the order of the stream and of the pending ZSET.
Retry counts saturate at `MaxRetries`.

Abstracted: the payload of records (ids only), time (grace period and lease may pass at any moment), the
expiry of the status hash (2 days) and of the compensation markers, malformed records, the creation of the
stream group.

### SeckillLaunch

`addSeckillVoucher` commits (`Commit`) and writes the three keys (`PublishStock`, `PublishBegin`,
`PublishEnd`); it may stop anywhere (`PublisherStops`). A request runs the script (`Script`), on code 5 loads
the voucher (`LoadVoucher`, `LoadStock` with SETNX, `LoadBegin`, `LoadEnd`) and runs the script once more. A
request may always be too early or too late, which stands for every value of the two times. What happens
behind the stream is one step: an order is persisted (`Persist`) or its unit and its user are given back
(`Reject`). The latter may happen at any time, also while the database has stock (a dead letter of failed
transactions), and the user may order again. Initially the voucher is about to be published, or an old one
that is not in Redis.

### BlogLike

`Like`, `ReadLiked`, `LikeSeeded` are `likeBlog` with `blog_like.lua`. The scheduler thread of an instance
(Spring runs all scheduled methods of an instance on one thread) runs one of three jobs at a time: the flush
(`StartFlush`, `ClaimDelta`, `ReadDelta`, `ApplyBatch`, `AckBatch`), the reconciliation (`StartReconcile`,
`FindDue`, `PrepareReconciliation` once per blog, `Overwrite`, `Rotate` once per blog) and the cleanup
(`StartCleanup`, `DeleteBatches`). `Reply` lets a call take effect and still end the job with an exception,
`CallFails` ends it before the call. Locks get lost (`LeaseExpires`) and instances die (`Crash`). The number
of clicks is not bounded: net changes are bounded by the users. Batch ids are reused when no record, snapshot
or thread holds them. Assumed: a flush does not outlive the retention of batch records (7 days), the Redis
keys are neither evicted nor edited, blogs are not deleted.

`BlogLikeReadings` adds `reading`, set from the steps of `BlogLike` and restraining none: a count is "right"
when it is, at the time `PrepareReconciliation` takes it, what the database has to show (`Owed`: baseline and
likes without the changes on their way), and "overtaken" once a batch that changes the blog is applied.

### VoucherGrant and Grant

One voucher template. An action is one SQL statement or transaction, one Redis command or one script.
`Threads` publish one request each, for `afterCommit` or for the scan; `Consumers` process one record each and
share a pending list, as they do with the default consumer name.

| code | actions |
|---|---|
| `TaskRewardService.createVoucherGrant`, `publishAfterCommit` | `Create` |
| `retryCreatedRequests` | `Scan` |
| `publish` | `SelectGrant`, `ReadTemplate`, `GrantScript` (`voucher_grant.lua`), `MarkPending`, `PublishFailed` |
| `initializeVoucherCache` | `LockInit`, `CheckStock`, `WarmOwners`, `WriteStock`, then `GrantScript` again |
| `handleAlreadyReserved` | `CompleteOwned`, `FindInFlight`, `RemoveMember` |
| `consume`, `recoverPending` | `Take` |
| `processRecord`, `persistGrant` | `PersistDecided`, `PersistDuplicate`, `PersistCreated`, `PersistFails`, `ReturnUnit` (`voucher_grant_compensate.lua`), `ClearRetry`, `Acknowledge`, `CallFails` |
| `handleFailure` | `CountRetry`, `WriteDeadLetter`, `FailDead`, `CompensateDead`, `ClearRetry`, `Acknowledge` |
| `MarketingExpirationJob` | `ExpireVouchers`, `TemplateEnds` |
| exceptions, deaths, leases | `PublisherStops`, `ConsumerStops`, `LockExpires`, and the lost replies in `Executed` |

`afterCommit` runs while the connection still belongs to the committed transaction, so the plain SELECTs of
`publish` read the snapshot of its first one (`Snapshot`, `View`), while its updates and the transactions with
a new connection see what is committed. The scan has no such snapshot. In the refinement a grant that is
CREATED or PENDING is waiting, and an owner's request may become granted after it was refused, which
`completeAlreadyOwned` can do.

Abstracted: message payloads, malformed records, the creation of the group, the expiry of request keys (7
days), several templates, and the row of the task, which is in `TaskReward`.

### TaskReward

One user. `InsertEvent` and `Increment` are the two statements of `recordEvent`, between which other
transactions run; `Send` and `Forget` are the page, which keeps the id of a request in `sessionStorage` until
it learns its outcome and sends it again after a timeout; `ClaimRead`, `ClaimPoints`, `ClaimVoucher`,
`ClaimAborts` are `claim`, whose SELECT FOR UPDATE holds the row (`Unlocked`) up to the commit; `Grant` and
`Refuse` are steps of `Grant` with what `persistGrant`, `completeAlreadyOwned` and `markFailed` do to the row;
`Midnight` changes the row a daily task uses. Points are paid one per row; deltas are 1, the only value that
is reported.

### ShopCache

One shop, whose value is its version; 0 is a shop that does not exist and the blank entry. `QueryHitOrMiss`,
`LockMiss` and `Check`/`Load`/`Write`/`Unlock` of a reader initialise a missing entry, `QueryExpired`,
`StartRebuild` and the same four steps of a worker rebuild an expired one; `Commit`, `Delete`, `DeleteFails`
are `update`; `Expire` is the logical expiry of a value and the physical one of a blank entry. The history
variables `newest`, `raced`, `overrun` record the newest version the cache has had, a race, and a thread
slower than its lease.

### Feed

`SaveFollow`, `RemoveFollow` write the table and `ChangeSet` the set afterwards, or not (`ChangeSetFails`);
nothing keeps a pair from having several rows. `SaveBlog` reads the rows, `Push` is one round of the fan-out,
with the time at which its arguments were evaluated, and `PushFails` ends it. `Answer` is `queryBlogOfFollow`:
the page from `max` and `offset` on and the position that follows. `AskFirst`, `AskNext`, `Deliver`,
`QueryFails` are the page of the reader, with as many queries under way as `Slots`: an answer with blogs moves
the page to the place that follows them (`Show`), one without leaves it as it is (`Dismiss`). A blog is the
number that orders equal scores.

History: `torn` are the pairs whose requests have overlapped or failed, `moved` the readers who got a blog
again, with a later time, for a second row, `wanted` the feed as it was when the page began at the top; an
answer is `late` when the page has moved since its query was sent, and `skipping` are the readers whose page
has shown a late answer since it began at the top. In the run, requests are over and have gone well when the
first blog is saved (`Quiet` in `MCFeed`): they touch nothing the page reads, and the fan-out reads only the
number of rows. `OldRows` gives the pairs a row, `SaveFollow` a second one.

## Runs

Every passing run explores its whole state space.

| run | shows |
|---|---|
| `seckill_solo` | one instance, reliable Redis, failing and ambiguous transactions: both stocks agree (`ExactStock`), each reservation is settled once (`ReleasedOnce`), dead letters stay within reach of the job (`FailedIsTracked`), the pipeline implements `FlashSale` (`ImplementsSale`) |
| `seckill_faults` | a failing transaction, a Redis call that fails with or without effect, a crash, a job that takes one order at a time: `TypeOK`, `NoOversell`, `TruthfulStatus`, `NoLostReservation`, `RedisLedger`, `OneLiveReservation`, every accepted order is sold or given back (`EveryOrderSettles`) and polling ends (`PollingEnds`) |
| `launch_keys` | requests that load the keys at once, beside the publisher, put no unit on sale twice, whenever units are given back (`LoadsKeepLedger`), and the keys get complete whoever stops (`GoesOnSale`) |
| `bloglike_single` | one instance: the reconciliation repairs nothing (`RepairsNothing`), and while a user never stops clicking every blog still comes to the front of the dirty queue (`EveryChangeIsFlushed`) and of the reconciliation queue (`EveryBlogIsReconciled`), with failing calls |
| `bloglike_flush` | two instances flushing: no like lost or counted twice (`BacklogExact`), shown counts exact (`CountExact`), queues complete (`QueueExact`), in spite of lost locks, ambiguous commits and a crash |
| `bloglike_live` | with two reconciling instances a counter is spoiled only by a count that was right when read and that a batch has overtaken, and a right count that none has overtaken repairs it (`OnlyOldReadingsSpoil`); the counters converge once clicks stop (`Converges`) |
| `grant` | publishers, scan, consumers, a fault and the end of the template: `VoucherGrant` implements `Grant` (`ImplementsGrant`), units keep in step (`UnitsKeepStep`, without any of its three exceptions), every request settles (`EveryGrantSettles`) |
| `tasks` | events, claims, retries, decisions and midnight: `ProgressExact`, `PointsPaidOnce`, `ReceivedIsGranted`, `DecisionSettlesRow` |
| `shop_cache` | readers, workers, updaters, failing calls: an old value needs a race (`StaleIsRaced`), the cache does not go back (`NeverGoesBack`) and agrees with the database in the end (`Converges`) |
| `feed` | `SetFollowsTable` for requests that neither overlap nor fail; a page has a gap only after a late answer (`OnlyLateAnswersSkip`) and ends but for blogs of one millisecond (`ScrollEnds`) |

Runs that find a disagreement between the code and what the repository says of it:

| run | property | behaviour |
|---|---|---|
| `seckill_lostack` | `ReleasedOnce` | FAILED is set before XACK; XACK fails, the job compensates, the redelivery persists the order |
| `reward_retry` | `FailedFreesRow` | a claim is refused, its retry with the same id (which `src/docs/marketing-task-voucher.md:24` asks for) puts the refused id back into the row, and no later claim gets past it |

### What does not hold

Some properties need a reliable Redis or one instance; others name the behaviours they except. Each exception
is something the code does; but for those of `UnitsKeepStep` it occurs in the run that checks the property.

- `ReleasedOnce`, `ExactStock`, `FailedIsTracked`, `ImplementsSale` need one instance that does not crash and
  a reliable Redis. A crash between the status FAILED and XACK does what the lost XACK does.
  `ReleasedOnce` fails after a lost XACK (`seckill_lostack`); with two instances under one consumer name, when
  one dead-letters a record the other commits; with two instances that have names of their own, when a job
  compensates an order whose duplicate marker the other script has set, because the two scripts do not look at
  each other's markers. `FailedIsTracked` fails after one failing call: ZREM comes before HDEL and XACK, and
  when these fail until the retries run out, a sold order is FAILED and out of the job's reach. What survives
  two instances under one consumer name is proved.
- `EveryOrderSettles` excepts `JobIsBlocked`. When the job has settled an order and its last call, ZREM,
  fails, the order stays in the pending ZSET for good: the job takes the oldest entries only and skips those
  that are not FAILED. As many of them as a batch (100; 1 in the run) keep the job from every newer dead
  letter, although `src/README.md:33` promises their compensation.
- `LoadsKeepLedger` excepts a publisher that sets a stock key which requests have already loaded and taken
  from: the SET in `afterCommit` puts their units on sale again (the database refuses the surplus orders).
  When such orders are given back as well, the stock in Redis passes the one published; `TypeOK` bounds it by
  twice as much, and no lower bound holds.
- `BacklogExact` fails when two instances reconcile. `OnlyOldReadingsSpoil` says that this takes a count that
  was right when it was read and a batch that another instance has applied since; `src/README.md:76` says the
  two do not disturb each other. A count that no batch has overtaken repairs the counter, and `Converges`
  shows that one comes.
- `UnitsKeepStep` excepts a dead letter whose transaction had committed (`ReturnsSold`: `handleFailure`
  compensates whatever `markFailed` has found), a publisher that had read that request as undecided and
  reserves it again after the compensation (`ReservesSold`), and a stock loader slower than its lease of 10 s
  (`LoadsLate`). The first two need two faults, the last two a second publisher; `grant` has one of each, so
  none of them occurs there. The instance of `VoucherGrant.cfg` with `Threads = {t1, t2}`,
  `Requests = {r1, r2}`, `OldOwners = {}`, `MaxRecords = 2`, `MaxFaults = 2` and `SPECIFICATION Spec` keeps
  the property too (5.6 million states), and TLC finds it violated there without any one of the exceptions.
- `DecisionSettlesRow` excepts a claim that brings back a decided id; `reward_retry` is that claim.
- `StaleIsRaced`: a loader that reads before a commit and writes after the deletion leaves an old value with a
  fresh expiry.
- `OnlyLateAnswersSkip` excepts pages that have shown an answer to a question the page no longer asked, and
  readers with two rows of an author. That the position in the answer's query is the one the page is at does
  not help: the page may have begun at the top again and come back to that position, with new blogs of the
  same millisecond before it. `ScrollEnds` excepts blogs of one millisecond: `sameTimeOffset` counts those of
  the last page only, so when more of them than fit a page are the last ones, the page repeats them for ever.

### Bounds

They bound the runs only; the proofs are for all values.

- `SeckillOrder`: `MaxOrders`, `DbFaults`, `RedisFaults`, `Crashes` are guards of `Seckill` and of the faults.
  Two users and one unit (two in `seckill_solo`) make the second user meet an empty stock and a user order
  again after a compensation, so compensated and sold orders coexist in both runs. A duplicate occurs in
  `seckill_faults` only: a record that is compensated and delivered again finds the user's second order. On
  one instance with a reliable Redis there is none, because nobody who has an order is admitted again.
  `MaxRetries = 2` has a retry that is not the last. Reading two records per batch leaves a record unprocessed
  when a call fails. `JobBatch = 1` makes one leftover entry a full batch.
- `SeckillLaunch`: `Faults`, and three requests, so that one loads while another is admitted and a third comes
  late.
- `BlogLike`: `DbFaults`, `RedisFaults`, `LeaseLosses`, `Crashes`. Two users give a blog a net change of -1,
  0, 1 and 2; two blogs and batches of one give both queues an order. `bloglike_live` has one blog and no
  failing calls; with `RedisFaults = 1` it passes too, in more than twice the time.
- `VoucherGrant`: `MaxRecords`, `MaxFaults`. Two requests of one user and one of an owner whose voucher may
  expire, two units, three records: a redelivery, a second request of an owner and an empty stock all occur.
  More faults or publishers are left to the theorems: liveness is too expensive with them.
- `TaskReward`: `LastDay`, two `Requests` (each created once), two events. A points task that counts two
  events and a daily voucher task, two claims and two event threads at a time, one page.
- `ShopCache`: `MaxVersion`, `MaxFaults`, `QueueSize`. Two readers, two workers and two updaters; three
  versions let an old version follow a newer one.
- `Feed`: `LastTick`, `MaxRows`, `MaxClears`, `Slots`. Three blogs with pages of two need two pages, two clock
  values give ties and blogs of the page's own millisecond, two queries give an answer that comes late.

One unit of each kind of fault is enough for an effect without an answer, and two for the chains of the
findings.

`CHECK_DEADLOCK FALSE` is used where nothing may be left to do: every user may have the voucher
(`SeckillLaunch`), every request its fate (`VoucherGrant`), everything may be claimed (`TaskReward`), nobody
has to query and the versions may be used up (`ShopCache`).

### Fairness

- `SeckillOrder!Fairness`: threads keep running, `Crash` restarts included (`init` starts the loop,
  `@Scheduled` runs again and again); the job gets to each order while it is old enough (strong, because
  between its runs the thread is busy); locks have a lease.
- `BlogLike!Fairness`: the jobs are scheduled with a fixed delay on one thread which is sometimes busy with
  another job, so each start is strongly fair; orphaned locks run out because Redisson stops renewing them;
  records and tracked blogs grow old.
- `SeckillLaunch!FairSpec`: requests run and users try again.
- `VoucherGrant!Fairness`: threads run; the scan is scheduled again and again and takes up to its batch of new
  grants, and the consumers read their pending list after every batch, so each CREATED grant and each pending
  record has its turn (strong, because the threads are busy in between); locks have a lease.
- `ShopCache!Fairness`: threads run, somebody queries the shop again and again, entries expire. The lock of a
  missing entry is taken by some query when it is free again and again.
- `Feed!Fairness`: the reader scrolls on (weak), and a query that is sent again and again is answered at some
  time (strong).

No fairness is assumed of users in the other modules, of publishers of vouchers, of updates or of any fault.

## Proofs

Every theorem is for any values of the constants that meet the named assumptions of its module: any number of
users, instances, requests, threads and faults, not only those of the runs.

| module | theorem | property |
|---|---|---|
| `SeckillOrderProofs` | `TypeCorrect` | `TypeOK` |
| | `NeverOversold` | `NoOversell` |
| | `NeverTwoOrders` | `OneOrderPerUser` (proved only) |
| | `BuyersAreExact` | `OneLiveReservation` |
| | `LedgerHolds` | `RedisLedger` |
| | `PolledStatusIsTrue` | `TruthfulStatus` |
| | `NothingIsLost` | `NoLostReservation` |
| | `SettledOnce`, if `Solo` | `ReleasedOnce` |
| | `DeadLettersStay`, if `Solo` | `FailedIsTracked` |
| | `StocksAreExact`, if `Solo` | `ExactStock` |
| | `SaleIsImplemented`, if `Solo` | `ImplementsSale` |
| `SeckillLaunchProofs` | `TypeCorrect` | `TypeOK` |
| | `LoadsAreSafe` | `LoadsKeepLedger` |
| `BlogLikeProofs` | `TypeCorrect` | `TypeOK` |
| | `CountsAreExact` | `CountExact` |
| | `QueuesAreExact` | `QueueExact` |
| | `OnlyReconciliationsSpoil` | `OnlyOldReadingsSpoil` |
| | `FlushesAreExact`, if `Reconcilers = {}` | `BacklogExact` |
| | `OneInstanceIsExact`, if `OneInstance` | `BacklogExact` |
| | `OneInstanceRepairsNothing`, if `OneInstance` | `RepairsNothing` |
| `VoucherGrantProofs` | `TypeCorrect` | `TypeOK` |
| | `GrantsAreImplemented` | `ImplementsGrant` |
| | `UnitsStayInStep` | `UnitsKeepStep` |
| `TaskRewardProofs` | `TypeCorrect` | `TypeOK` |
| | `ProgressIsExact` | `ProgressExact` |
| | `PaidOnce` | `PointsPaidOnce` |
| | `ReceivedOnGrant` | `ReceivedIsGranted` |
| | `DecisionSettles` | `DecisionSettlesRow` |
| `ShopCacheProofs` | `TypeCorrect` | `TypeOK` |
| | `OldValuesAreRaced` | `StaleIsRaced` |
| | `CacheNeverGoesBack` | `NeverGoesBack` |
| `FeedProofs` | `SetAndTableAgree` | `SetFollowsTable` |
| | `ScrollingSkipsNothing` | `OnlyLateAnswersSkip` |
| `FlashSaleProofs` | `SaleConserves`, `SaleIsFair` | units conserved, one reservation or purchase per user |

Three theorems of `BlogLike` and four of `SeckillOrder` have a hypothesis of their own, that of the run that
checks the same property; "What does not hold" says why they need it. `Solo`: one instance, no crash, no
failing Redis call; transactions may fail, and commit without an answer, as often as they like.
`Reconcilers = {}`: no instance reconciles. `OneInstance`: there is at most one; whatever fails.

The arguments:

- *Orders, safety.* `TypeOK` alone is not inductive: a step on "the current record" needs a thread at work to
  have one, and a queue to hold admitted orders only. The type theorem proves the conjunction of `TypeOK` with
  these facts, and the others build on it: `NoOversell` needs that a row is inserted once, `OneOrderPerUser`
  is the condition `Accepts` of the transaction (the unique key, not the lock, keeps it true),
  `OneLiveReservation` needs that a marker is set with the removal of the buyer in one script, and
  `RedisLedger` follows by counting both marker sets.
- *Orders, tracking.* `Knowledge` says what a thread may rely on at each call: past the transaction its order
  is settled, past the dead letter it is in `dlq`, past a compensation it is given back, and an order that is
  neither sold nor given back is to be read, pending, or a dead letter in the ZSET. Several instances may hold
  the same record; the invariant speaks of each thread by itself, which is why it survives a shared consumer
  name.
- *Orders, refinement.* Under `Solo` the consumer and the job never work on one order: `OpenInv` says that an
  order the stream or the pending list still holds is PENDING and untouched, unless its consumer is at one of
  the calls that tell its outcome; `BatchInv` that a record leaves the pending list only with its XACK;
  `JobInv` that an order the job holds is FAILED, and once looked for in vain stays out of the database;
  `FailedInv` that a dead letter is in the ZSET, and given back only by the job that settles it next. Together
  with the ledger and `Knowledge` they are inductive, and each of the four properties follows: a step of a
  script or a transaction changes the fate of one order (`FateChanges`), which is a step of `FlashSale`
  (`ReserveStep`, `SellStep`, `ReleaseStep`); every other step is a stutter.
- *Launch.* While the stock key is missing nobody has been admitted, so every stock a request has read is all
  of it (`UnloadedInv`): writing it with SETNX cannot put a unit on sale again, because the key is there as
  soon as somebody has been admitted. `OfferInv` says that until a late publisher has come, the stock in Redis
  and the orders that wait add up to what the database has, and that afterwards they pass it by no more than
  the stock published; `TypeOK` needs this of a unit that is given back.
- *Likes.* A count in Redis is the number of likes as soon as a blog has been clicked (`CountExact`), and
  before that everything is as it was (`OldDataInv`), so a request may seed it with a value it has read
  before. `FlushInv` says what a batch id stands for at each call: a batch is applied at most once, because
  whoever is about to apply it without a record has the snapshot of Redis in hand, and an acknowledgement
  clears a snapshot only when it has been applied. The queues keep each blog once (`Queue`). What the database
  has to show (`Owed`) changes only when a batch is applied, which changes the counter by as much, so every
  step but an `Overwrite` keeps a right counter right (`KeepsBacklog`). `HistoryInv` says that a reading is
  never "wrong", because the script takes it only of a blog without changes on their way, and that a "right"
  one is what the database has to show now: an `Overwrite` with it repairs, and only an overtaken one can
  spoil. With one instance there is none, because a reading agrees with the column until its job leaves
  (`ReadingsInv`: flush and reconciliation of one instance share a thread).
- *Grants.* The type invariant carries what the refinement needs: a snapshot shows no owner who has lost his
  voucher (vouchers are never taken back) and whoever is at work has a created request. Each step then maps to
  a step of `Grant` or to a stutter. `UnitsInv` adds that a record is decided or reserved, and that whoever is
  about to compensate has a decided grant, the consumer outside `handleFailure` one that is not sold.
- *Rewards.* `WriteInv` (a claim that writes holds a free row, alone: the row lock), `PointsInv` (who was paid
  has received), `RequestInv` (the request of a row belongs to it) and `ReceivedIsGranted` are inductive
  together. `EventsInv` says that of two transactions with one event one waits.
- *Cache.* `OneLoader`: as long as no lease is overrun, whoever is at work has the lock and what it has loaded
  is no older than the newest entry.
- *Feed.* `PageStep`: if a blog comes after the blogs of a page, then it has no later time than the last of
  them, and those with the same time come before it, so it is not among the first `sameTimeOffset` ones from
  that time on; a page continued there leaves nothing out. `AheadAfterPush`: what is pushed meanwhile moves
  blogs only further down. `PlaceInv` says this of the page and `AnswerInv` of each answer that is under way
  and not late; an answer from the top carries the feed it was read from. An answer that comes late may lead
  back to an earlier place or past an unread one, which is why every move makes the others late.

Each proof has a lemma for the actions that change the state the property is about and one step for all that
leave it alone.

Only model-checked: liveness (fairness and ENABLED are out of the prover's reach), which is
`EveryOrderSettles`, `PollingEnds`, `EveryGrantSettles`, `GoesOnSale`, `EveryChangeIsFlushed`,
`EveryBlogIsReconciled`, both `Converges` and `ScrollEnds`. Every invariant, action property and refinement of
a passing run has a theorem.

## Not modelled

- Login, sign-in, rate limiter, id generator: single atomic commands. `SimpleRedisLock` is unused. Queries,
  CRUD, uploads, the rest of the frontend: no state of interest.
- Orders: malformed records, the creation of the stream group, the expiry of status hashes and of markers, a
  consumer name that never comes back.
- Grants: a DUPLICATE whose compensation fails is found SUCCESS on redelivery and acknowledged, so its unit
  stays reserved in Redis for good. The model has this behaviour; it breaks no promise of `Grant`, and
  `UnitsKeepStep` counts the unit as outstanding.
- Shop cache: the answer a reader gets. A reader without the lock answers after 300 ms with what is there,
  which may be "no such shop" for an existing one. `queryWithPassThrough` and `set` have no callers.
- Feed: deleted blogs, `isFollow` and `followCommons`, which only read. A fan-out that fails leaves the
  remaining followers without the blog.

## Plan

1. A weaker hypothesis than `Solo` for `ReleasedOnce`: whether several instances with names of their own,
   none of which crashes, settle each order once when no duplicate becomes a dead letter.
2. `UnitsKeepStep` as a bound: by how many units Redis may be ahead after the three steps it excepts.
3. `SeckillOrder`: a consumer name that does not come back.
4. `util.formatPrice` of `common.js` and the fixed-window limiter as operators checked against a reference.
