# TLA+ verification of sast-shop-v2

A verification project for the Go services under `src/internal/service`: TLA+
modules of the parts that carry state across requests, TLC configurations that
check them on small instances, and TLAPS proofs of what matters most.
`PROJECT.json` lists the components, the runs, the theorems, the hazards and, for
every definition that models code, the lines it stands for.

Paths below are relative to `src/internal/service/`; `PAY`, `WP`, `SPOT` and
`ERR` stand for `paymentservice/internal`, `westpocketservice/internal/westpocket`,
`spotservice/internal` and `errandservice/internal`.

## 1. The system

Six Go services share one PostgreSQL server (a schema each) and call one another
over Connect RPC. Every service may run in several replicas; no state that matters
lives in memory. All coordination is therefore done with row locks, guarded
`UPDATE ... WHERE version` statements, unique indexes, advisory locks, leases and
retries, and this is where the hard behaviour is.

| Component | State | Operations | Talks to | Hard behaviour | What makes it correct |
|---|---|---|---|---|---|
| Payment bills (`PAY/service/bill.go`) | `payment_bill`: one row per (source, payer) | `PayBill`, `ConfirmBill`, `TransitionBill`, `SupplementSerialNumber`, `CreateBill`, `CreateBillForOrder`, `CancelBillBySource` | asks West Pocket for the pocket's status; tells the errand service of confirmations | no handler runs in a transaction: read, check, RPC, then one guarded `UPDATE`; creation is lookup, `INSERT`, second lookup | a bill only moves along its life cycle; no lost update; an answered creation is the bill asked for; amounts never change |
| West Pocket bills (`PAY/service/west_pocket.go`) | the same rows, source `west_pocket` | `createWestPocketBill`, `CancelWestPocketBillsIfUnpaid` | asks West Pocket for the status *inside* the transaction | status reading is stale at commit; the RPC outlives its caller | cancellation is all or nothing; nothing is opened after it |
| West Pocket collections (`WP/service.go`, `worker.go`) | `pocket`, `pocket_member` | `Create`, `Update`, `ReplaceMembers`, `Publish`, `Cancel`, `Retry`, `Remind`, `Refresh` | payment service, Feishu, job queue | publish against cancel against payment; cancellation that is refused and undone; mirrored bill statuses | cancelled means every bill closed, settled means every bill paid, an open collection can be paid, nothing hangs |
| Job queue (`WP/worker.go`) | `async_job` | `queue`, `runNextJob`, `finishJob`, heartbeat | PostgreSQL session advisory lock | leases that expire, dead or stalled workers, lost sessions | a job is not lost and not finished by a worker that lost it |
| Notification outbox (`WP/worker.go`, `queries.go`) | `notification_outbox` | `enqueueNotification`, `runNextNotification`, `remindMember`, withdrawal | Feishu | send and record are separate; crash in between; pocket changes meanwhile | every notice is decided; one delivery per row at a time |
| Private uploads (`WP/assets.go`, `worker.go`) | `upload` rows and objects in the bucket, an advisory lock per upload | `Upload`, `uploadTx`, `deleteUpload`, `Purge` | COS | a repeated upload against a deletion, row and object in two systems | a photograph that was deleted is gone and stays gone |
| Face profiles (`WP/assets.go`, `worker.go`, `provider.go`) | `face_profile`, `face_sample`, persons at the provider | `Enroll`, `Revoke`, `Retry`, `Purge`; `enrollJob`, `revokeJob`, `cleanupEnrollment` | Tencent cloud, COS, job queue | revocation against a running enrolment, stale jobs, renewed consent against `Purge` | revoked means erased and for good; the person in use is never deleted; none is forgotten |
| Photos and recognition (`WP/assets.go`, `worker.go`) | `pocket_photo`, `face_match` | `AddPhotos`, `StartRecognition`, `DeletePhoto`, `Retry`, `Purge`; `recognizeJob`, `deletePhotosJob` | the same | recognitions that answer late, deletion during recognition | results do not outlive the request to delete; only the last recognition counts |
| Spot goods and orders (`SPOT/service`) | `spot_goods` and its stock ledger, `spot_order` | listing, stock, price and closing; `CreateSpotOrders`, `CancelSpotOrder`, `CompleteSpotOrder`, payment synchronisation | payment service from *inside* transactions | a rolled back order whose bill exists; cancel against confirm | stock = sum of the ledger, a paid order is never cancelled |
| Errand demands and tasks (`ERR/service`) | `errand_demand(_item)`, `errand_task(_item, _assignment)` | `CreateErrandDemand`, `UpdateErrandDemand`, `CancelErrandDemand`; `CreateTask`, `SaveShoppingTaskItem`, `UpdateActualPrice`, `SaveDistributingTaskAssignment`, the four transitions, `CancelTask`; the callbacks of `grouptrade_internal.go` (`OnPaymentConfirmed` of `errand_task.go` is not called) | payment service | two captains for one demand; bills opened before the transition commits; lost callbacks | a demand item is in one task; quantities and prices add up; a task completes when paid |
| Users, addresses, sessions (`userservice`) | users, addresses with one default, Redis sessions | address book, login | Feishu | the single default | one default per user |
| Catalog: stores and templates (`catalogservice/internal/service/catalog.go`) | stores; templates spread over three tables | create, update with a version, delete | – | reads of three tables without a transaction | no edit overwrites what its author was not shown |
| Catalog: product images (`product_image.go`, `pkg/redis`) | objects, the daily quota and the rate window in Redis | one upload in eight steps | COS, Redis | quota read before, charged after the upload; failures and midnight in between | all or nothing; the quota is exceeded by no more than what is under way |
| Identifiers (`pkg/idgen`) | clock and sequence of a Snowflake generator | `NextID` | – | clock steps back, sequence wraps | identifiers are unique |

Configuration, authentication, logging, object storage and the HTTP surface are
wiring and I/O and are not modelled.

## 2. Modules

```
BillLifecycle            what the payment service promises about the bills of one source
PaymentBill              bill rows and the user requests on them
  OrderBilling           + creation and cancellation for spot orders and errand tasks
    PaymentBillProofs, OrderBillingProofs
    SpotOrders           spot goods and orders, on top of the bills of their orders
      SpotOrdersProofs
    ErrandTask           errand demands and tasks, on top of the bills of their tasks
      ErrandTaskProofs
  WestPocketBilling      + creation and cancellation for a West Pocket collection
AsyncJobs                the durable job queue
WestPocketOutbox         the notification outbox
  WestPocket             composes WestPocketBilling, AsyncJobs and WestPocketOutbox
    WestPocketProofs
Uploads                  private photographs: rows, objects, upload locks
  FaceProfiles           a user's face profile, on AsyncJobs and Uploads
  Photos                 a pocket's group photos, on AsyncJobs and Uploads
    Assets               composes FaceProfiles and Photos on one job table and one bucket
      AssetsProofs
ProductTemplates, ProductImages, Snowflake    the catalog and the identifiers
  CatalogProofs
Totals                   sums (quantities, amounts, bytes), used by ErrandTask and ProductImages
  TotalTheorems
MCWestPocket, MCErrandTask, MCAssets, MCCatalog    instances for TLC
```

### BillLifecycle – abstract specification

One variable, the status of every payer's bill: opened once, claimed, sent back or
settled, withdrawn; completed and closed are final. With `AllOrNothing` it also
says that bills are withdrawn only while no payment was claimed, all together, and
that nothing is opened afterwards. `OrderBilling` refines it with `AllOrNothing =
FALSE`, `WestPocket` with `TRUE` (both checked and proved).

### PaymentBill – `PAY/service/bill.go`, `PAY/repository/bill.go`

`bills[p]` is the row of payer `p` for one fixed source; `updated_at` counts the
writes of the row (two writes of one row are serialised by PostgreSQL and never get
the same microsecond). A user request is a record in `reqs` that goes through
`ReadBill` (`GetBillByID`), `CheckBill` (status and version checks and, for a West
Pocket bill, the RPC) and `UpdateBillStatus` (the single guarded `UPDATE`), or
disappears at any point (`AbandonRequest`). The client may send the version of any
earlier screen, which is the `expected` version. `SameUpdatedAtVersion` truncates to
milliseconds as the code does.

### OrderBilling – `CreateBill`, `CreateBillForOrder`, `CancelBillBySource`

`CreateBillForOrder` takes three steps (`CreateLookup`, `CreateInsert`,
`CreateFallback`); a call is a record in `creates`, which keeps the reply until the
caller takes it. `CreateBill` is the public call, by which a user may open a bill for any source and of any amount; `DirectPayers`
and `DirectAmounts` bound what users ask for. The two kinds of source differ in the cancellation: a completed bill
refuses that of a spot order and is skipped by that of an errand task. `CancelBillBySource` takes
any set of bills: those of one order, or all of a task's.

### WestPocketBilling – `PAY/service/west_pocket.go`, `PAY/repository/west_pocket.go`

A call waits in `calls`, enters the transaction lock (`Enter`: `body` holds at most
one) with the pocket status it is told at that moment, and commits later (`CreateBody`,
`CancelBody`). A call is not bound to its caller: `AbandonCall` leaves it running on
behalf of nobody, which is what a timeout or a crash of the worker does.

### AsyncJobs – `runNextJob`, `finishJob`

`jobs` is the table, `work[w]` what worker `w` (a goroutine of any replica) does,
`jobLock` the session advisory locks: `LockOf[j]` is the one job `j` runs under, its pocket's or its
profile's (`worker.go:73-78`): all jobs of a pocket share one lock, and so do all jobs of a profile, which is what
`WestPocketAssumption` and `FaceAssumption` say. `Privacy` holds the jobs that never give up (revocation, deletion of photos, clean-up), so that one
module serves all six kinds of job. A lease is identified by its
worker: each claim draws a fresh UUID and a worker has one job at a time. Faults are
explicit and counted: a crash, a heartbeat that misses the lease (`LeaseExpires` with
`Stalls`), a broken lock session (`SessionLost`), a failing statement or RPC.

### WestPocketOutbox – `runNextNotification`, `sendNotification`, `remindMember`

A row is claimed under a lease, the pocket and the bill are read, the message is sent,
and the outcome is recorded under the `attempt_count` of the claim. The notices
`payment` and `payment_qr` of a member differ in content only and share a row.

### WestPocket – `WP/service.go`, `WP/worker.go`

The composition for one collection. Variables are the columns `status` and `revision`,
the members, `linked` (members with a `payment_bill_id`), `mirror` (`bill_status`), what
the owner last read (`view`), and the running `Refresh` calls. Owner operations are one
transaction each and carry the revision the owner read. `publishJob` is
`PublishStart`, `PublishNext` / `PublishSave` per member in user order, and
`PublishCommit`; `cancelJob` is `CancelStart`, `CancelAnswered`, then `CancelCommit` or
`CancelRevert`, whose `UPDATE` may fail unnoticed as in the code. `Refresh` reads the
linked bills, asks the payment service, writes the statuses one by one and settles the
pocket when all it saw were completed. `crossed` is a history variable: two cancel calls of the collection have crossed
(hazard `worker.go:297`, section 7), one refused while another, told `cancelling`, closes the bills. No action depends on it.

### SpotOrders – `SPOT/service/spot_order.go`, `spot_goods.go`, `spot_order_payment.go`

It EXTENDS `OrderBilling`: an order has one payer, so the bills are indexed by order and
`Payers` is the set of order ids; `BillingStep` is what the payment service does on its own.
`CreateSpotOrders` and `CancelSpotOrder` run in one database transaction each and call the
payment service from inside it, so a running transaction is a record in `creations` or
`cancels`. What it has written is private to the record until `CommitCreate` or
`CommitCancel`; `RollbackCreate` and `RollbackCancel` are possible at any point (a failed check,
a failing statement, a deadlock that PostgreSQL breaks, a client that goes away), and leave behind
what the payment service did: a bill for an order that never was, or a cancellation that is
still on its way (`late`). Row locks are derived from those records (`OrderLocked`,
`GoodsLocked`). An item of a request is one step (`TakeItem`: lock, validate, decrease the
stock, insert the order, ask for its bill) and a second one when the bill is there
(`Billed`). Operations of one short transaction (`UpdateSpotGoodsStock`, `UpdateSpotGoodsPrice`,
`CloseSpotGoods`, `CompleteSpotOrder`, `MarkSpotOrderPaid`) are one action each, enabled when
the rows they lock are free. `syncs` holds the orders whose bill a synchronisation has seen
completed and not yet written back. Times matter in one place: `second` is the listing's
`updated_at` as `CreateSpotOrders` compares it, and `now()` is the start of the transaction.

### ErrandTask – `ERR/service/errand_task.go`, `demand.go`, `grouptrade_internal.go`

It EXTENDS `OrderBilling` too: the bills are indexed by task and payer. The handlers lock the
rows they decide on for the length of their transaction and make no calls, so each is one
action: `CreateErrandDemand`, `UpdateErrandDemand`, `CancelErrandDemand` of buyers, and `CreateTask`,
`SaveShoppingTaskItem`, `TransitionToPendingDistributing`, `UpdateActualPrice`,
`TransitionToDistributing`, `SaveDistributingTaskAssignment`, `TransitionToCompleted` and `CancelTask` of
captains. A demand item is a record given by the instance, published at most once;
`items[i]` holds its status and its demand, `assignments[i]` its row in a task (the unique index on
`demand_item_id` makes it a function). `CreateTask` splits a demand of which only a part is
taken: the part moves to a new demand.

Three things take several steps. `TransitionToCollectingPayment` is a record in `calls`:
`BeginCollecting` reads the assignments and computes the amounts, `AskBill` and `BillAnswered` open
the bill of one payer after the other, and `CommitCollecting` (or `CompleteTaskWithoutBills`) is the
transaction, which checks the distribution and binds the bills; `EndCall` ends it at any point. The notification of
a confirmed bill is a record in `notices`: `NoticeRead` and `NoticeWrite` are
`OnErrandTaskPaymentConfirmed`, `NoticeCount` asks whether bills are open, `NoticeAll` is
`OnErrandTaskAllPaymentsConfirmed`, and it may be lost at any point. A cancelled task whose
bills are yet to be cancelled is in `closings`.

Versions: a request for a version that is not the row's is refused without effect and left out. That
they are compared by the second, so that a second edit in one second goes unnoticed, is not
modelled. Prices and quantities may be edited while a transition is opening bills; such an edit changes no version that
`CommitCollecting` looks at. Two history variables, on which no action depends, record what the properties have to
except: `overtaken`, the tasks in which a price or a quantity was changed while a call was opening their bills, and
`strayed`, the items that a notice of one task completed in another. Section 7 says what the code does with them.

### Uploads – `Upload`, `uploadTx`, `withUploadLock`, `deleteUpload`, `Purge`

A photograph is a row (`uploads[u]`) and an object (`u \in objects`), and no transaction spans them.
`RequestUpload` ends with the row's transaction; `BeginPut` takes the lock `wp-upload:<id>` and looks at the
row again; `Put` and `EndPut` store the object and mark the row, or `PutFails`. `deleteUpload` is `EraseObject`, then
`EraseRow`, by whoever runs it (a job worker or `Purge`) under the same lock. A row is bound when a
sample or a photo uses it (`Bound`), and expires after 24 hours; `Purge` removes what has expired unbound, and
every expired face sample.

### FaceProfiles – `Enroll`, `Revoke`, `enrollJob`, `revokeJob`, `cleanupEnrollment`, `Purge`

`profile` is the row; a person at the provider is named by the enrolment version that drew its id, so
`persons` is a set of versions. The owner's requests and `Purge` do not take the profile's lock; `PurgeReads` and
`PurgeRevokes` are apart because the rows are read first and revoked one by one later. `enrollJob` is
`EnrollStart` (what the profile says now decides between enrolling, cleaning up and discarding), `EnrollPerson`
(`Faces.Enroll`, which after an error may or may not have created the person, or removed it), `Activate` (the
transaction, which reads the profile again) or `Discard`, and the loops of `finishEnrollmentCleanup` (`DropPerson`,
`CleanSamples`, `EraseUpload`, `ErasedAll`). `revokeJob` is `RevokeStart`, the same loops, `RevokeCommit`;
`cleanupEnrollment` is `CleanupStart`, `RejectPerson`, `RejectSamples`. `FinishFaceJob` is `finishJob` with what it adds
for an enrolment that gives up: the clean-up job and the failed profile. Every step may fail or its
worker die. The history variable `abandoned` holds the versions that gave up when their clean-up had already been done.

### Photos – `AddPhotos`, `StartRecognition`, `DeletePhoto`, `recognizeJob`, `deletePhotosJob`

A photo is named by its upload; `photos[p].job` is `latest_job_id`. `recognizeJob` takes one photo after the other:
`RecognizeNext` reads the row, `RecognizeSave` or `RecognizeFails` is what happens after the bucket and the provider
have answered, with the second look at the row. `matches[p]` holds the recognitions of which results are stored; which
face matches whom is left out. `DeletePhoto` removes results at once and leaves the photograph to a job. `LeaveDraft`
stands for Publish and Cancel, after which nothing is added or recognised.

### Assets – composition

A profile and a pocket's photos share the job table, the workers, the `Purge` loop, the upload table and the
bucket, but no row. `AssetsFairness` is stated here (section 3).

### ProductTemplates – `catalogservice/internal/service/catalog.go`

A template's fields live in three tables; a value is named by the version of the edit that wrote it. A form is read
by `ReadTemplate`, `ReadBarcode` and `ReadImage`, three queries without a transaction, of which the last two may fail
unnoticed (`Unread`); `UpdateProductTemplate` is one transaction that compares the form's version. The version is
`time.Now()`, taken to differ between edits.

### ProductImages – `product_image_upload.go`, `product_image.go`, `pkg/redis`

One upload is one record in `pictures`: `Request` (the limiter), `Reserve` (processing and `UploadQuota.Allow`),
`PutObject`, `Commit` (the charge, to the day it is called), `Publish` (URL and probe) and `Cleanup`. A client may go
(`ClientGone`), after which no call with the request's context succeeds; the process may die.

### Snowflake – `pkg/idgen/snowflake.go`

`NextID` is a step when the clock allows, or waits: `Sleep`/`Wake` for a clock a little behind, `NextMillis`
for a sequence that has wrapped. `ClockMoves` takes the clock one tick on or anywhere back.

## 3. Runs

Twelve runs, each about one part of the system (distinct states and time with two TLC workers in brackets):

| Run | Instance | What it shows |
|---|---|---|
| `bills` (1.15 M, 1 min) | 1 payer, 3 amounts, 3 creation calls and `CreateBill`, 2 requests at a time, 4 writes per row, 2 ticks per millisecond, errand task | `SnapshotConsistent`; the refinement `ImplementsLifecycle`: no interleaving of stale reads, guarded updates, creation and cancellation takes a bill off its life cycle; an answered `CreateBillForOrder` stands for a bill of the amount asked for (`AnsweredBillMatches`); amounts never change (`AmountFrozen`) |
| `west_pocket` (1.3 M, 2.5 min) | 2 members, 2 workers, 1 user request, 1 `Refresh`, 1 fault of any kind at any point | `SettledMeansPaid`, `CollectingIsPayable`, `CancelledMeansClosed`, `CollectionComplete`, `NeverStranded`, refinement `ImplementsPocketLifecycle` |
| `west_pocket_crash` (0.1 M, 40 s) | 1 member, 1 worker, 1 fault, outbox with 2 deliveries | liveness: `PublishingEnds`, `CancellingEnds`, `NoticeDecided`; and `OneDeliveryPerRow` |
| `west_pocket_settle` (0.4 M, 1.5 min) | 1 member, 2 workers, 1 `Refresh`, 1 fault | liveness: `PaidSettles`, with lock contention and cancellations that cross the last payment |
| `west_pocket_notice` | 2 members, 1 worker, outbox | **violation**: a notice withdrawn for good by a cancellation that was refused (section 7) |
| `spot_orders` (2.6 M, 2.5 min) | 2 orders of 1 listing, 2 transactions, 1 user request, `CreateBill` for one order, 2 seconds | `SpotTypeOK`, `CancelledOrderUnpaid`, `PaidOrderWasPaid`, `OrderMovesForward`, `LedgerMatchesStock`, `OrderHasItsBill`: creation, cancellation, payment, synchronisation, completion and the seller's edits in every interleaving, with rollbacks whose calls go on |
| `spot_version` | 2 prices, 2 orders, 2 seconds, at most one edit of a listing a second | **violation**: an order accepted at a price its buyer never saw (section 7) |
| `errand` (0.5 M, 2.5 min) | 1 task of 2 buyers with all of payment; or 2 tasks for a demand of 2 products without it; or 1 item in 2 tasks with payment, or in 1 task with edits and `CreateBill` at any moment | `ItemsFollowTask`, `DemandInOnePlace`, `DistributionAddsUp`, `CollectedAsOwed`, `CompletedIsPaid`, `CompletedItemStays`: shopping, distribution, collection and payment, with refused and repeated transitions, edits during a transition, overlapping and late notifications and cancellation at any moment; demands rewritten, cancelled, split among tasks and reopened |
| `errand_own` | 1 task of a captain who bought for himself | **violation**: the task is completed, its demand stays in distribution (section 7) |
| `assets` (1.3 M, 2.5 min) | 2 samples, 2 group photos, 3 enrolment versions, 2 recognitions, 1 worker, 1 fault | `DeletedIsGone`, `RevokedMeansErased`, `ActivePersonExists`, `FacesAccounted`, `RevocationHolds`, `RenewedConsentSurvives`, `DeletedPhotoGone`, `LateRecognitionIgnored` |
| `assets_live` (0.2 M, 1.5 min) | 1 sample or 1 photo, 2 versions, 1 recognition, 2 faults | liveness: `DeletionsEnd` |
| `catalog` (0.8 M, 1 min) | 1 template with 2 editors; or 3 uploads over 2 days; or 2 generators with 4 identifiers each | `NoLostUpdate`, `AllOrNothing`, `QuotaOvershootBounded`, `IdsUnique` |

The type invariants (`WPTypeOK`, `ErrandTypeOK`, `AssetsTypeOK`, `TemplatesTypeOK`, `ImagesTypeOK`, `IdsTypeOK`) hold in the same
instances; the runs spend their time on the properties. `OrderTypeOK`, `SpotTypeOK` and `ErrandTypeOK` are proved, and those of
uploads, templates, pictures and identifiers are part of the inductive invariants of section 4, as are the types that the
proofs need of a collection, a profile and photos.

### Bounds and why they are enough

* *Payers / members: 2.* All-or-nothing, settlement and the loops over members relate
  pairs of bills; a member before and a member after the current one are the two
  positions of the publish loop. Liveness runs use one member: what they ask (does
  a loop end) does not depend on the number of members.
* *Workers: 2.* One stalled or dead and one that takes over. A third could only repeat
  the second's part.
* *`MaxInFlight`, `MaxCreates`, `MaxWrites`.* Guarded updates conflict in pairs, and four
  writes allow open, claim, send back and claim again, with a late request that saw the
  first. `TicksPerMs = 2` lets two of the writes fall into one millisecond, where the handlers' own comparison of
  versions cannot tell them apart. For creation three calls with three amounts allow a winner, a loser that looks
  again, and a late one. `MaxWrites` only limits which requests start.
* *`MaxRevision = 5`, `JobIds = 0..5`.* Create, edit, publish, open, cancel: the fifth
  revision lets a cancellation be refused and a second one be started (its job is the
  row with its own dedupe key).
* *`MaxAttempts = 2`, `MaxSendAttempts = 2`, `MaxClaims = 3`.* The code has five attempts;
  two are the least with a retry and an exhaustion.
* *`MaxFaults = 1`.* A single fault at every point of every interleaving, on top of
  abandoned requests, which are not counted. User requests that are
  abandoned and senders' failures are always possible.
* *`FaultOrPayment`* (`MCWestPocket`): a behaviour of `west_pocket` with a fault has one change per bill at most after its
  creation, those without have two. A collection of one member combines the two: with a fault and a bill that is claimed and
  sent back, two cancel calls cross (section 7). For two members they are not combined.
* *`DirectPayers`, `DirectAmounts`*: one payer of one order or task calls `CreateBill`. In `errand` the amount is one no task
  asks for, or, in a task without prices, the right one; the other amounts are in `bills` and `spot_orders`.
* *`MaxRefreshes = 1`* in the runs where `Refresh` competes with cancellation and payment.
* *Spot orders: 2 orders of 1 listing, `MaxTxs = 2`.* Locks conflict in pairs: a creation against
  a cancellation, two creations, two cancellations of one order. The second order takes the stock the
  first gives back. `MaxStock = 1` makes every order exhaust it. Requests of several items for several
  listings, which may wait for each other, and orders of one's own goods are beyond the run together
  with payment; the theorems of section 4 hold for them. A request names a listing once (the code would take a repeat).
* *Errand tasks: 2 buyers, 3 demand items, 2 tasks.* Two payers are what sharing, counting
  incomplete bills and overlapping notifications need; two items of one demand are what
  a split needs, and the second task takes what the first gave back. All of it at once is too large, so
  `MCErrandTask` confines a behaviour to one of three scopes: `OneTaskPaid`, one task of two buyers (led by one of them
  or by a third user) with all of payment; `TwoTasksUnpaid`, two tasks of one captain for the goods of one buyer, up to
  their bills; and `OneItemRaced`, the goods of one buyer in two tasks that are paid for, with notices of the first that are late, or in
  one task whose captain edits it while a call is opening its bills. The first two leave such edits out. `MaxCalls = 1`: two
  transitions of a task at once differ from two in sequence only in `CreateBillForOrder`, which `bills` covers; the
  theorems hold for any number.
* *Assets: 2 samples, 2 photos.* The old sample and the new one of a replacement; the photo being looked at and the
  one still to come. Three versions allow an enrolment, its replacement and a revocation (or a
  revocation and a new enrolment). `MCAssets` confines a behaviour to one scope: `ProfileScope`, the profile with its
  uploads at rest; `PhotoScope`, the photos with their uploads at rest; `UploadScope`, one upload that is stored, repeated,
  expires and is purged at any moment, under the profile or the photo that uses it. A profile and a photo share no row, so the
  scopes leave out only their competition for the one worker. `Stalls = FALSE` here: a worker may
  die at any step, but keeps its lease and its lock while it lives. Section 7 says what happens otherwise; workers that outlive
  their lease are in `west_pocket`.
* *Catalog: one template, two editors, three edits* (the one shown, one in between, the late one). *Three uploads of at most
  two bytes, quota 2, two at a time*: two pass the check together, the third comes after. *Generators with two sequence
  numbers and one tick of tolerance*: a sequence wraps at the second identifier, a step back is within the
  tolerance or beyond it. The three share no state, and each behaviour of the run moves one.
* *`MaxTime = 1`, `SameSecond`.* Two seconds are one edit apart. `SameSecond = FALSE` keeps two
  edits of a listing out of one second, since versions are compared by the second by design.

The errand runs, those on assets and `catalog` set `CHECK_DEADLOCK FALSE`, as published items, uploads and versions run out. All runs on a collection set `CHECK_DEADLOCK FALSE`: a settled or cancelled collection
may really come to rest, and the bounds stop the owner.

### Fairness

`WPFairSpec` assumes what the service's own loops do: `Run` polls the queue and the outbox every
second and reconciles every minute (weak fairness of claiming jobs, of
`RefreshStep` and strong fairness of taking a given row, because a row is found again
and again although other rows compete for the sender), a worker that lives carries
on (weak fairness per worker), leases run out, and an RPC ends, because every statement
and lock wait of it does (weak fairness of `PaymentStep`). Nothing is assumed of the owner,
of the members or of faults: nobody has to pay, retry or cancel, and
no fault has to happen or to be repaired by hand. Where the code really leaves
it to a human (`Retry` of a failed job) the property says so (`LatestCancelFailed`).

`AssetsFairness` assumes that a worker that lives carries on (`Working`), that `Run` claims some job while there is one
(`Polling`: weak fairness of claiming any job, not a given one), that `Purge` is called again and again, that a call that
holds an upload's lock ends, and that the lease of a dead worker runs out. `DeletionsEnd` needs no fairness towards a given
job: every other job ends or gives up, and the bounds end the stream of new ones. Nobody has to retry anything.

## 4. Proofs

`PaymentBillProofs` and `OrderBillingProofs` prove for every set of payers and
amounts, every `TicksPerMs` and all bounds, from the modules' assumptions alone:

* `OrderTypeCorrect`: `OrderSpec => []OrderTypeOK`;
* `SnapshotsConsistent`: `OrderSpec => []SnapshotConsistent`;
* `AnswersMatch`: `OrderSpec => []AnsweredBillMatches`;
* `AmountsFrozen`: `OrderSpec => AmountFrozen`, the action property;
* `OrderRefinesLifecycle`: `OrderSpec => ImplementsLifecycle`, the refinement.

The inductive invariant is `OrderInv`: the type invariant, `SnapshotConsistent`,
`AnsweredBillMatches`, and that an absent row has not been written. `SnapshotConsistent` is
what carries the argument. The guarded `UPDATE` looks at `updated_at` only, so it is a
legal transition only if the version determines the status, that is, if a request that
still matches the row's version has seen the row's status. The checks that ran earlier,
on the copy, then hold for the row as well. The absent-row conjunct is needed because a row starts its
versions at 1 when inserted. The lemmas of `PaymentBillProofs` say this once per
operation of `PaymentBill`, so that any composition that EXTENDS it can cite them;
`OrderBillingProofs` adds the creation calls, and the refinement takes each action to
`Open`, `Claim`, `SendBack`, `Settle`, `Withdraw` or a stutter.

`SpotOrdersProofs` proves for any number of listings, orders and transactions, any prices,
quantities and stock:

* `SpotRefinesBilling`: `SpotSpec => OrderSpec`. Every step of the spot service is a step of
  `OrderBilling` or does not touch the bills, so the five theorems above hold with the spot
  service running on top, and the proofs below use them (`BillsKept`: closed, completed and
  amounts are for ever);
* `SpotTypeCorrect`, `LedgerCorrect`, `CancelledUnpaid`, `PaidWasPaid`, `OrdersHaveBills` for the
  type invariant and the four invariants of the runs;
* `OrdersMoveForward`: `SpotSpec => OrderMovesForward`, the action property.

The inductive invariant is `SpotInv`; TLC confirms it on the instance of `spot_orders`. None of the
properties is inductive without it, because a transaction relies at its commit on rows it
checked long before. `DraftsInv` says what the locks of a creation preserve: its drafts have
ids and listings nobody else holds, the stock it will take is still there, and a bill it has
attached is the order's. `CancelsInv` says the same of a cancellation: its order is still
pending, its listing is in no other transaction, and once the payment service has
answered the bill is closed. `CallsInv` ties a creation call to the draft that made it,
which with `AnsweredBillMatches` makes the answered bill the draft's. `RowsInv`: ids are
handed out once, and a synchronisation on its way has seen a completed bill. The proof of the
inductive step has a lemma per group of operations and a frame lemma per part of the invariant.

`ErrandTaskProofs` proves for any number of items, users, demands and tasks, and any prices and fees:

* `ErrandRefinesBilling`: `ErrandSpec => OrderSpec`. The errand service uses the payment service only as `OrderBilling`
  allows. The invariant is that a running `TransitionToCollectingPayment` asks for bills of payers of its task, with
  amounts it has computed (`CallsOK`). `ErrandBillsLifecycle`: so the bills of tasks keep to `BillLifecycle` and never
  change their amount;
* `ErrandTypeCorrect`, `ItemsWithTask`, `DemandsWhole` and the action property `CompletedItemsStay`, from `MarketInv`: an
  item, its demand and its task agree on the status, whichever of several handlers wrote which of them last (`ItemsInv`);
  a notification about to write has found whole demands (`FoundInv`); and ids in use are the first ones, so that a
  demand split off by `CreateTask` takes nobody's place (`DenseInv`);
* `DistributionsAddUp`, from `GoodsInv`: the shopping list of a task requires what its items ask for, and once the task is
  past its distribution every piece bought is given to somebody;
* `AnswersStayTrue`: `PaidInv`. What the payment service has told a call that is still under
  way, or a notification, holds until they act on it, and bills are closed only with their task;
* `MoneyAsOwed` and `TaskPaidWhenCompleted`, from `MoneyInv`, without a hypothesis: of a task that is not `overtaken`, a call that can
  still commit asks of each payer what is owed now; the task, once it is collected, has the bills and the amounts owed; it is completed
  when all have paid. `PaidWhenCompleted`: an item that is not `strayed` is completed when its payer has paid. `Recorded` and
  `HistoryStep` say what the two history variables record: from the first edit beside a call that computed its amounts
  earlier, the task is `overtaken` as long as such a call can commit, and for good if it does.

The arguments about money do not go over the handlers again: `Moves` says once what any step may do to a task, an item, the bills,
the running calls and the notifications, and `PaidInv`, `MoneyInv` and `ItemsPaidInv` are each preserved by every such
move (`MoneyStep` and its neighbours).

`WestPocketProofs` proves for any number of members, recipients and workers and any number of faults, stalled workers included:

* `CancelledClosed`, `ClosedAllOrNothing`, `CollectionsComplete`, `SettledPaid`: a cancelled collection has all its bills
  closed and none is opened later; bills are closed all or none; an open collection has the bills of all its members; a settled
  one is paid;
* `PocketRefinesLifecycle`: `WPSpec => ImplementsPocketLifecycle`, the refinement of `BillLifecycle` with `AllOrNothing`;
* `NobodyStranded`: a collection that is publishing or cancelling has a job that will go on with it, or one that gave up
  and that the owner can retry;
* `CollectingPayable`: whatever fails, an open collection has no closed bill unless two cancel calls have `crossed`, and they cross only
  after a fault;
* `OneDelivery` with `~SendStalls`: a notice is delivered by one sender at a time.

None of the first five is inductive, because a call of the payment service decides on the status it was told when it entered
the lock, commits later, and outlives the worker that made it. `CoreInv` is:
`CallsInv`, at most one call is out for a worker, and at most one is in the lock; `SealInv`, once a bill is closed no call
that is under way was told "publishing" and the pocket will not be publishing again, and a worker that holds the
answer "ok", or is about to commit the cancellation, implies the same (`Sealed`); `LinkInv`, whoever can see a
collection open, can pay, or was refused because somebody has paid, implies that every member has a bill
(`Complete`), which is what makes an undone cancellation harmless; `RefreshInv`, what `Refresh` has read of a completed payment
stays true until it settles the pocket. A frame lemma per part and a lemma per action make the inductive step. `JobsInv` ties the
pocket's status to the rows of its jobs. `CrossInv` carries `CollectingPayable`: unless two calls have crossed, a cancel call that was told `cancelling` runs while
the pocket is being cancelled or is, and when it has closed the bills no worker holds a refusal with which it would put the pocket back to
`collecting`. `FaultlessInv` says that without faults one handler is at work at a time and
no call is without its worker, so that nothing can cross; `DeliveryInv` that a row being delivered is claimed.

`AssetsProofs` proves for any number of uploads, samples, photos, versions, recognitions and workers, with all faults:

* `AssetsRefinesUploads` and `DeletedUploadsGone`. What profiles, photos and jobs do to the uploads is a step of
  `UploadsNext`, the actions of `Uploads` taken on their own; `DeletedIsGone` is proved there. The strengthening is
  `LockInv`: a call that stores an object has the lock and a row that is not deleted, and an eraser
  that has the lock has already removed the object;
* `RevocationIsFinal` and `RenewalSurvivesPurge`, the action properties of the profile. The second rests on `ProfileInv`: what
  `Purge` has read of a profile holds as long as its revision is the same, because every change of the consent
  or the version takes a new revision;
* `DeletedPhotosGone` and `LateRecognitions`. `PhotosInv` says that every photo has its upload bound, that a photo with a
  deletion job is `deleting` or `deleted`, and that the job has erased the upload when it commits. For this a worker
  must keep the job it has: `WorkInv` and `JobsNext` say of the queue all that the photos need (a handler's step changes no row and
  only its own worker; a row that exists stays), so that claims, leases and crashes are looked at once and not per handler.

* `RevocationErases`, `PersonInUseExists` and `PersonsAccounted`, with `~Stalls`: a revoked profile has left no person at the
  provider and no photograph; the person in use is never deleted; and a person that is nobody's any more has a job that will
  remove it, so that a clean-up which has succeeded has left none; the persons of an enrolment that gave up again after its clean-up
  (`abandoned`) are the one exception. TLC's run has one worker; the theorems hold for any number of them that keep their lease and their lock while they
  work, with crashes and failing statements at any step. `LeaseInv` says that such a worker holds the lease of its job and the
  profile's lock, so that one handler of a profile is at work at a time (`OneAtWork`). `SamplesInv` says that every person has a sample that is not deleted:
  the jobs look for persons by their samples, so without it a revocation could miss one. `PlacesInv` says for every step
  of a handler what it may still rely on of what it read before (`Knows`): which persons the loop of a revocation has yet to go over,
  that an enrolment which is about to activate its person has created it, that it is not the one in use which a clean-up
  rejects. `FaceRowsInv` ties the rows of the jobs to the profile. Requests of the owner, `Purge` and the photos' jobs run between the steps of a
  handler without its lock; `FaceKept` says once what they leave alone. Section 7 says what happens with `Stalls`.

`CatalogProofs` proves for any number of templates, users, uploads, processes and any limits:

* `EditsNotLost`: `TemplatesSpec => NoLostUpdate`. `EditsInv` says that a form which shows the row's present version was filled
  with what the three tables hold now, or could not read it; this needs that the version is read first and the tables later;
* `OvershootBounded`. The strengthening is `Room`: of the uploads that passed the check and are not charged yet, one (the last
  that was checked) found room for itself, and each of the others adds at most the largest size; at midnight the
  new day starts at zero, so there is room for any of them;
* `UploadsAllOrNothing`. `StoredInv` says where the object of an upload is at each of its steps, and that the bytes of
  the uploads charged for good are no more than what the quota has counted;
* `IdsNeverRepeat`, for any `maxSequence`, tolerance and clocks. `IdsInv` says that no identifier of a process exceeds the one of
  its `lastMillis` and `sequence`; a process waiting for the next millisecond counts as having used the last sequence number.
  `IdOrder` and `IdWorker` are the arithmetic: the identifier grows with time and then sequence, and tells the worker.

`TotalTheorems` is about sums of the values of a function over a finite set, which the errand tasks and the quota need: the equation a sum is
computed by, that it does not depend on the order, and what changing one value, adding one or leaving one out does to it. The
library folds a set by a recursive function. Its induction theorems take an operator as a parameter, which the provers
cannot instantiate; the proofs take a smallest set among the counterexamples instead.

Every invariant, action property and refinement that a passing run checks is stated by a theorem. Only model-checked are
the liveness properties (`PublishingEnds`, `CancellingEnds`, `NoticeDecided`, `PaidSettles`, `DeletionsEnd`), which are
out of the prover's reach, the type invariants `WPTypeOK` and `AssetsTypeOK` as far as they say more than the inductive invariants, and what the three
violations show.

## 5. What is not modelled

Payload columns, formatting, logging, authentication, cursors, images and encryption;
the confirmation log (write-only); due times of jobs and the thirty minutes
between reminders (any job may be due, a reminder may come at any time, which only adds
behaviours); the idempotency cache `mutate` of West Pocket requests, and `Create` with its selection of members by photo; and:

* which faces match whom (`MatchFaces`), the owner's `Resolve` of a match, the album, and the reads that filter on
  revoked profiles: data rather than control;
* the limits of 100 uploads a day, ten photos per pocket and two uploads at a time in the handler, which no instance reaches;
* an object that arrives in the bucket after the process that sent it has died (`PutFails` is the last moment at which an object
  may have been stored);
* restarts of a Snowflake generator and processes that are given the same worker id: the code keeps nothing that would prevent
  a repeated identifier then. Unless it is configured, the worker id is a hash of host name and process id (`pkg/idgen/snowflake.go:186`), so that worker ids
  differ is an assumption about the deployment;
* bills that `CreateBill` opens for a spot order in the name of another payer than the buyer. They are on no order; one that is completed
  makes the cancellation of the order be refused;
* `Split` and the other pure functions of `WP/domain.go`, which depend on their arguments only and which the unit tests reach;
* users, addresses and sessions, QR codes: one row per operation, with nothing that reads it in between. QR codes enter as a
  snapshot taken by Publish;
* the HTTP and RPC surface, configuration, logging, the Feishu client and the search keywords: I/O and wiring.

## 6. Plan

What is modelled is what the code's control allows, and every safety property of the runs is proved. What is left:

1. `AssetsTypeOK` and `WPTypeOK` as theorems. What they say beyond the inductive invariants is that attempts stay natural
   numbers: a worker that does not get the lock gives the attempt back, which needs that a claimed row has had one.
2. `PersonsAccounted` without `~Stalls`, for what remains true of it when a worker outlives its lease.

## 7. Where the code and its documents disagree

* **`west_pocket_notice`** (`UntouchedBillStaysNotified`): a notice picked up while the
  pocket is `cancelling` gets `ErrState` and is cancelled for good; if the payment service
  then refuses the cancellation the collection goes on and the member is never told of
  the bill unless the owner reminds them. `docs/west-pocket.md` says each sharer receives
  their own bill and payment code.
* **`spot_version`** (`BoughtAsSeen`): `IncreaseSpotGoodsStock` and `DecreaseSpotGoodsStock` set
  `updated_at = now()`, which is the start of the transaction. A cancellation that began before a
  price change and got its locks after it takes the listing's version back to the second in which
  buyers saw the old price, and their orders are accepted at the new one. The comment of
  `updated_at` in `create_spot_order.proto` calls it the version of an optimistic lock.

* **`errand_own`** (`OwnGoodsCompleted`): `completeTaskWithoutBills` is to "complete the task and its
  demands" when everything was the captain's own (its comment), but the two `UPDATE`s it calls match only
  rows that are `pending_payment` or `completed`, and these are still `distributing`. They stay so for ever. The
  functions `...ToCompletedWithoutPayment` beside them are never called.

Seen while modelling and stated as conditions of properties rather than as findings:

* `sameUpdatedAtVersion` truncates both timestamps to milliseconds, although its comment says "Compare the exact version returned
  by PostgreSQL" (`PAY/service/bill.go:424`). A request made on an older version of the bill can pass that check; the `UPDATE` is
  guarded by the exact version the handler read, so no update is lost, which `bills` shows with two ticks per millisecond.
* `CollectingIsPayable` excepts cancel calls that have `crossed`. The cancel call of a worker that died may still be
  on its way while a second worker's call is refused because of a claimed payment. If the first
  call is told `cancelling` just before the second worker puts the pocket back to `collecting`, and
  the payee then sends the claim back, the first call closes the bills of an open collection. `west_pocket` reaches this: without the
  exception TLC finds the property violated there.
* The `UPDATE` that undoes a refused cancellation is only logged when it fails
  (`CancelRevert`); the pocket then waits for `Retry`, which `CancellingEnds` allows for.
* `Refresh` may write an old `unpaid` over the `closed` of a cancelled pocket's member. No
  step of the code reads that column in a cancelled pocket.
* `remindMember` resets `attempt_count`, so a sender that outlived its lease could record its
  outcome under a later claim's count. The runs assume senders keep within their lease
  (`SendStalls = FALSE`); `OneDeliveryPerRow` is stated under that condition.
* A notice that is already `sending` is not withdrawn by a cancellation.
* A `CreateSpotOrders` that is rolled back leaves the bills it has opened behind; their payers can pay
  them, for orders that do not exist. `CancelledOrderUnpaid` and `PaidOrderWasPaid` speak of committed
  orders.
* A cancellation that is rolled back after the payment service closed the bill leaves a pending
  order that cannot be paid any more; only cancelling it again ends it.
* A task completed by the callbacks leaves its items without a bill (nothing distributed, or the
  captain's own) in `pending_payment`; only `TransitionToCompleted` completes those. `ItemsFollowTask` allows for it.
* Bills of a task are opened before status, version and distribution are checked. A refused transition
  leaves bills that can be paid; if a price or a quantity is changed afterwards, every
  later attempt is refused because the bill has another amount, and `CancelTask` of a task that is not yet
  collecting does not close them.
* A bill whose notification was lost leaves its task collecting until the captain completes it; if the
  captain cancels it instead, items that were paid go back to the market. `CompletedItemStays` speaks of
  items the errand service knows to be completed.
* `TransitionToCollectingPayment` computes the amounts before its transaction (`ERR/service/errand_task.go:1617`), which compares only
  `errand_task.updated_at` (1730). `UpdateActualPrice` (1120-1144, 1170-1194) and `SaveDistributingTaskAssignment` (1420-1468, 1494-1544)
  write rows of their own and not that column. A price or a quantity that is changed while the bills are being opened, by a captain whose
  client gave up waiting for instance, binds bills of an amount that is no longer owed, or leaves a buyer who got goods without a bill, and
  the task is still completed. `CollectedAsOwed` and the first half of `CompletedIsPaid` except the tasks to which this happened
  (`overtaken`); without the exception TLC finds both violated in `errand` after some three thousand states.
* `OnErrandTaskPaymentConfirmed` does not lock the task. A transaction of it that outlives the
  cancellation of its task completes items in the task that follows, for which nobody has paid there. `CompletedIsPaid` excepts these items
  (`strayed`); without the exception TLC finds it violated in `errand`.
* `CreateBill` asks nobody about the source. A bill that a buyer opens for an order or a task beforehand, of another amount, makes every
  `CreateBillForOrder` for it be refused: the order is rolled back, and the task can only be cancelled.
* When the heartbeat finds that a worker has lost its lease, or the session that holds its lock has broken, the handler goes on: its context is
  not cancelled. With `Stalls = TRUE` and two workers TLC finds behaviours in which an enrolment is still at the provider while
  another worker carries out the whole revocation; the person is created after `RevokeCommit`, of a profile that is revoked.
  `RevokedMeansErased`, `ActivePersonExists` and `FacesAccounted` are all violated then, and are stated and proved for workers
  that keep their lease and their lock.
* An enrolment that gives up, is cleaned up, is retried and gives up again queues a clean-up that finds its own succeeded row
  (`ON CONFLICT`), so a person of that attempt stays at the provider until the owner revokes. `FacesAccounted` excepts the persons of such
  enrolments (`LeftByRetry`, which the history variable `abandoned` tells from enrolments that were cleaned up after they gave up); without
  the exception TLC finds it violated in `assets`.
* `recognizeJob` returns without an error when the pocket has left draft, and the photos it had left stay `processing`.
* `recognizeJob` reads the active profiles outside their locks: a result that names a user can be stored after that user's
  `revokeJob` has anonymised the older ones. `Matches` filters on read.
* The clean-up of a product image uses the request's context, so a client that disconnects at the wrong moment leaves the object
  and, after the commit, the charge behind. A product image that is replaced is never deleted.
* `fillBarcodeAndImage` logs its errors only: a form may show no barcode or image beside a valid
  version, and saving these fields removes what was there.
* Concurrent uploads pass the quota check together; the day's quota can be exceeded by all of them but one.
* `001_init.sql:290` has `CHECK (deadline > now())`, which PostgreSQL evaluates on every `UPDATE` of a
  demand: once a deadline has passed, the transitions of its task fail. Not modelled, as it only
  removes behaviour.
