# A TLA+ verification of iRoad

iRoad is a Django application for transport companies. It serves a control panel (the vendor), a
portal for each tenant, and the app of the tenant's drivers, from one PostgreSQL database with a
schema for each tenant, with Redis for sessions and Celery for periodic jobs. It has no locks,
queues or processes of its own: its concurrency is that of web requests and jobs that read and
write the same rows under READ COMMITTED, some in a transaction and under a row lock, most not.
The models here are about that.

1. Inventory of the system
2. Modules, and how they correspond to the code
3. What the runs check and show, their bounds, fairness and deadlock
4. What is proved
5. Where code and documentation disagree
6. What is not modelled, and the plan

File names are relative to `src/`; `views.py` is `iroad_tenants/views.py` and `kernel` is
`iroad_tenants/services/action_execution_service.py`.

## 1. Inventory

### Executing actions on empty moves

*State.* A truck movement (`TenantTruckMovementLog`) has a status column. Its action log
(`TenantOperationActionLog`) is append-only; each log has a number and an idempotency key, both
unique. Which actions there are is up to the tenant's Action Master. The code derives everything else
from column and log: the milestones reached, the stage, an *authoritative* status that believes the
log more than the column, and the actions allowed.

*Operations.* The driver's app sends an action with a key and a digest of the screen it was chosen on
(`mobile_api/execution`). The endpoint, one transaction: find the movement and check that it is the
driver's and not cancelled; reconcile column and log; look for a log with the key (a retry); validate
against the digest and the policy; lock the movement; call the kernel, which validates again, looks
for the key again, inserts the log and saves the column. The portal's action log form
(`views.py:12298`) writes the same rows; it validates before its transaction begins. The portal's
movement form saves the whole row.

*Hard:* double taps and retries, two devices, the same key on two movements, a dispatcher writing at
the same time, a worker that dies. *Correct if* no step is logged twice or out of order, a retry is
answered with what it did, column and log do not drift apart, every request is answered.

### Reference numbers

*State.* One counter row for each form (`AutoNumberSequence`), one configuration row (format, width), and
the numbers in the records. *Operations.* Every create page, the kernel and the portal take a number
(`views.py:36124`): read without a lock, write back plus one, then insert the record under a unique
column; most look whether the number is taken and try again, up to ten times. The configuration page
shows the counter as a written number and reads it back. *Hard:* stale reads, a counter that is written
back lower than it was, rollbacks, two row locks taken in different orders, texts that two numbers share.
*Correct if* the tries last unless that many others come in between, checked numbers do not collide at
the insert, numbers have no gap, and the page sets what it shows.

### Subscription orders and payments

*State.* `SubscriptionOrder` (Draft, Pending_Payment, Paid, Cancelled), its `Transaction`s (Pending,
Completed, Failed, Rejected), its `StandardInvoice`, and the row of the tenant with its limits and
lifetime value. *Operations.* The order form, the tenant's plan page and the renewal job create and
capture; staff submit, cancel, mark paid, and approve or reject bank transfers; pages that show
payments complete the ones they find behind. All fulfilment goes through `fulfill_paid_order`
(`superadmin/billing_helpers.py`): invoice, limits, value. *Hard:* some handlers lock order and
payment, others check what they loaded earlier and save row by row; invoice numbers are read without
a lock; the tenant is saved as a whole row. *Correct if* nothing is Paid, invoiced or credited
without a completed payment, a payment is credited and invoiced once, completed payments stay, and
invoice numbers are sequential.

### Proof of delivery

*State.* A capture of photos is a bundle row (draft, ready, promoted, expired) with a seal over its
media rows; a file belongs to one bundle (`mobile_api/pod_capture`). *Operations.* The capture
request creates the draft, attaches the media, seals it and makes it ready, each committed alone and
each by writing the whole row as it was read; a retry finds the row by the client's capture id. The
execute request of the delivery step merges the files of the ready bundles before it takes a lock and
promotes one of them in its transaction. A clean-up command and late requests mark what is too old as
expired. *Hard:* a death between two commits, a retry that writes back what it read, a promotion in
between, expiry at any moment. *Correct if* a bundle that may be promoted is whole, a log keeps its
evidence, and a bundle is used once.

### Cash on delivery

*State.* The shipment's collection status, the action log, payments staged under a client's payment
id (`mobile_api/payment_collection`), the wallets of the driver (`DriverTreasury`) with a stored
balance, and their transactions. *Operations.* The app stages a payment, then executes Collect Payment
with the same key: in one transaction the shipment is saved as collected, the payment consumed, a
wallet found or opened and credited, the balance summed anew. The office logs the same action on its
form, posts debits and credits, opens and edits wallets, and saves shipments. *Hard:* the staged
payment is read before any lock, every log, wallet and transaction takes a number whose row stays
locked until the commit, the app locks the shipment before the numbers and the office after them,
forms write back what they loaded, wallets come into being in two places. *Correct if* a logged
collection is credited with what was staged and not less than was due, the app collects once, the
balance is the sum, and nobody waits for ever.

### The other parts

| Part | State | What is hard | What makes it correct |
|---|---|---|---|
| Hard POD custody (`mobile_api/hard_pod`) | submissions and handovers of paper PODs | submission and promotion are two transactions | one submission for each client id; custody follows the log |
| Shipments and bookings (`shipment_cancel.py`, `booking_status.py`) | status columns, cascades | whole-row saves; derived booking status | cancelled shipments are not executed; booking agrees with its shipments |
| Creation of empty moves | the driver's open movement | check outside the transaction | one open movement for a driver |
| Operational issues | escalation state and its events | transition from the state as loaded | events form a path |
| Driver sessions | token versions, spent refresh tokens, lockout counter in the cache | token spent before its successor arrives; counter read and written apart | a spent token is spent; lockout after n failures |
| Control panel and portal sessions | Redis keys with a time to live | expiry | at most the configured sessions |
| Renewals, downgrades, expiry (`superadmin/tasks.py`) | dates on the tenant | two scans; a downgrade committed before its charge | a cycle is charged once |
| Notifications and push | queue rows, provider answers | retry and fallback | mostly I/O |
| Job detail, dashboard, history, timeline | none, read-only | - | show the authoritative status |
| Subscription limits, fleet rules, forms, tenant routing, public site, scripts | rows and settings | - | validation without behaviour over time |

*Interactions.* The parts share rows, not messages. The execute endpoint calls the kernel; the kernel
calls the numbering, and the POD promotion inside its transaction; both portal and app write
movements, logs and counters; renewal job, control panel and plan page write orders and tenants.
Where two models share a row the assumption that each makes of the other is stated: `ExecuteAction`
counts log numbers up at the commit, and `AutoNumber` models how these numbers come about, with the
movement's row lock as part of its state because a deadlock between the two rows is possible.
`PodCapture` and `CodCollection` take from the execute endpoint what it does to their rows: the lock
on the shipment, the kernel's refusal of a step that is logged, and one transaction around it all.

## 2. Modules

| Module | What it is |
|---|---|
| `EmptyMoveWorkflow` | the policy of an empty move: pure operators on column and log (flags, stage, what is allowed, authoritative status, drift, the column after an action) |
| `MovementLifecycle` | abstract: the steps of the catalog happen once each, in order, under increasing numbers |
| `ExecuteAction` | the execute endpoint, the portal's log form and the movement form; implements `MovementLifecycle` |
| `AutoNumber` | writers that number their records, the movement's row lock they may need, and the page that sets the counter |
| `ReferenceNumbers` | how numbers are written and read back in the three formats |
| `NumberingPage` | the configuration page on top of `ReferenceNumbers` |
| `OrderPayment` | subscription orders, payments, invoices and the tenant's row |
| `DeliveryEvidence` | abstract: a capture is opened, filled once, and used by at most one action log, which keeps what it was given |
| `PodCapture` | captures, their retries and expiry, and the promotion in the execute transaction; implements `DeliveryEvidence` |
| `CodCollection` | cash on delivery: staging, collection by app and office, wallets and their transactions, down to the row locks |
| `MC...` | instances for TLC |
| `...Proofs` | theorems, see section 4 |

**EmptyMoveWorkflow.** `Catalog` is the tenant's choice: with or without an arrival step, the two
catalogs the repository ships. Later milestones imply earlier ones (`Flags`), a column advanced
without a log counts as Scheduled (`WorkflowColumn`), a cancellation is outside of the sequence and the
kernel lifts the policy for it (`StandaloneOrAllowed`). The code leaves out the logs of other drivers
(`latest_action_aggregator.py:206`); a movement has one driver here, so that `done` is all of its logs.

**ExecuteAction.** One action for each stretch of code that runs between two reads or writes of shared
rows: `Receive` (movement loaded, cancelled ones refused), `Reconcile`, `Detect` (replay, mismatches),
`Validate`, `Lock`, `Kernel`, `Commit`, `Respond`. A later step uses what an earlier one has read
(`seen`, `snap`), as the code does. A request stays in `sent` until the app forgets it and can be
received any number of times: that is double tap, retry and duplication in one. `Crash` rolls back;
answers may be lost because `Respond` says nothing to `sent`. The digest of the screen is what it is made
of (`Version`: drift, stage, allowed actions, *not* the status), since all the code does with it is
compare. The portal's form is `PortalCheck`, then `PortalSave` or `PortalReuse`; the movement form is
`PortalEdit`. A savepoint and the unique key are one step with the insert: PostgreSQL lets the second of
two inserts wait for the first. The number of a log counts up at the commit; numbers that leave gaps or
collide are `AutoNumber`'s subject.

**AutoNumber.** `Read`, `Create`, `Save`, `Check`, `Insert`, `Commit`: the read takes no lock, the write
does and keeps it, and what the holder sees of its own write (`mine`) is not what others see (`next`).
`RowFirst` writers lock the movement before (the app), `RowLast` after (the portal); `Deadlock` is
PostgreSQL ending one of two transactions that wait for each other. Writers that do not look (creation
of movements) are those outside `Checking`. `byHand` remembers that the configuration page has set the
counter: gaps are then what was asked for, so `NoGaps` and `GivesUpOnlyIfOutrun` are about the time
before, and everything else about the time after as well. `GiveUp` is a writer at the end of its tries,
and `late` remembers how many records were saved since it first read the counter: ten tries last
unless ten others overtake it. They do not last once the page has set the counter ten records back.

**ReferenceNumbers.** A text is a sequence of base-36 digits, so that formatting and parsing are what
they are in the code: padding with `0` or with `A`, bijective base 26, the last run of digits.
`NumberingPage` is the page for every form but two: for shipment PODs the page raises the counter above the
highest record (`views.py:33220`), for support tickets it refuses one that is not (`views.py:33332`).
There the counter is not always what the page showed, and is not meant to be.

**OrderPayment.** One action for each statement another worker can come between. Handlers in a
transaction take row locks (`LockOrder`, `Settle`, `LockTxn`); the others carry a stale check
(`Cancel` then `SaveCancelled`, `Approve` then `ReadOrder`, `CompleteTxn`, `SavePaid`). `Fail` ends any
handler anywhere: an exception, a dead worker, a transaction ended because of a deadlock. Amounts are
left out: `tenant[o]` counts how often the tenant was credited with order `o`, so that a lost update of
the lifetime value is a count that is too low. `LastPadded` is where invoice numbers outgrow their
four digits and stop being sorted as numbers. The year in an invoice number is left out: numbers begin
again each year, and the model is one year. `ListPaid` and `ListInvoiced` are the two statements of the page
that shows payments; each commits alone.

**PodCapture.** A capture worker is where its request is (`phone`): `Look`, then `Create`, `Attach` (the
media), `Count` (the bundle's count of them), `Seal`, `MarkReady` on a new bundle, or `Refused`,
`Replay`, `MarkExpired` on one it has found. What it read is its `copy`, and each write puts the whole
copy back, as the repository class saves every column. `Drop` leaves between any two commits what has
been committed. An execute worker goes through `Prepare` (the merge, no lock), `Lock` (the shipment),
`Resolve` (the bundle is read again), `Promote`, `Commit`; `RowIsFree` is the row lock that its update of
the bundle keeps. `late` are the bundles whose time is over. Under the refinement a bundle is filled when
its media are attached and used when a log names it, *not* when its status column says so: the column can
be written back (section 5).

**CodCollection.** A worker's transaction is `tx`, and `pc` is the next lock or read it needs. The app's
is `Attach` (payment read without a lock), `LockShipment`, `InsertLog`, `Collect`, `ReadNumber` and
`OpenWallet` if it finds no active wallet, `ReadNumber` again, `Post`, `Commit`; the office's log form
enters at `InsertLog`, its treasury and wallet forms at `ReadNumber`, after their checks. `ReadNumber` is
apart from the search for an active wallet: between the two another worker may open one, and then the
driver has two. `Commit` waits for the rows that the new rows refer to, if somebody holds them by `FOR
UPDATE`. Writes are applied by `Commit`: until then nobody else can read them, and those that would write
the same rows wait for the locks that are modelled (the shipment, and the rows of the three number
sequences). The portal's side effects are the ones defined in `views.py:14933`, which shadow the imported
ones and refuse nothing. `EditLoad` and `EditSave` are the wallet form, which saves the balance it has
loaded. `BreakDeadlock` is PostgreSQL ending one of two or three transactions that wait for each other.

## 3. Runs

| Run | Instance | Distinct states | What it shows |
|---|---|---|---|
| `ExecuteAnswers` | 2 movements, 2 workers, 2 shared keys, 1 step | 100 000 | a success names the log of its own key and movement (`AnswerNamesItsKey`), locks end with transactions (`LockIsHeldInTransaction`), every request is answered (`EveryRequestIsAnswered`) |
| `ExecuteEdits` | 1 movement, 2 workers, 2 keys, the movement form sets Completed and Scheduled | 922 000 | each step once (`MilestonesOnce`); only what is due at that moment is executed (`ExecutesWhatIsDue`); `MovementLifecycle` is implemented (`RefinesLifecycle`) |
| `ExecutePortal` | 1 worker, 1 portal, catalog of 4 steps and cancellation on both sides, 4 forms | 909 000 | steps in order whoever logs them (`MilestonesInOrder`), a completed movement stays completed (`CompletedStays`), a step that is executed does not part column and log, and moves the column forward only (`ExecutingKeepsAgreement`) |
| `CancelledRace` | a dispatcher cancels | violation | section 5 |
| `Numbering` | 3 writers (app, portal, one that does not look), 3 records, the page sets the counter to 1 | 29 000 | no gaps (`NoGaps`), the tries last unless as many others overtake (`GivesUpOnlyIfOutrun`), who has looked does not collide (`CheckedIsFresh`), every transaction ends (`EveryWriterIsAnswered`) |
| `NumberingPage` | numeric and alphanumeric, widths 1 and 2, numbers to 60 | 7 600 | no two numbers are written alike (`WrittenApart`), the page saves what it shows (`SavesWhatIsShown`) |
| `NumberingAlpha` | the alphabetic format, numbers to 30 | violation | section 5 |
| `OrderPayments` | 2 workers, an online order and a small bank transfer, 4 payments | 112 000 | `PaidIsBacked`, `CreditedOncePerPayment`, `InvoicedOnce`, `InvoicesAreSequential`, `PaymentStands` |
| `PaymentLtv` | 2 online orders of one tenant | violation | section 5 |
| `PodCaptures` | 2 captures with files of their own or the same files, 2 capture workers, 2 execute workers, 2 keys, 2 delivery steps | 288 000 | what may be promoted is whole (`ReadyIsWhole`), a log keeps its evidence (`EvidenceStays`), `DeliveryEvidence` is implemented (`RefinesEvidence`) |
| `PodRetry` | the same | violation | section 5 |
| `CodCollections` | 2 execute workers, 1 office, 2 shipments of which one is collected, 2 keys, 2 staged amounts, credits and debits of the office | 365 000 | `LoggedIsCredited`, `CollectedOnce`, `PaidAsStaged`, `PaidInFull`, no posting is lost from a balance (`PostingSums`), every transaction ends (`EveryTransactionEnds`) |

`TypeOK` is checked in `ExecuteEdits`, `Numbering`, `OrderPayments`, `PodCaptures` and `CodCollections`.
Every property has a mutant: a change of one mapped definition, such as a dropped lock, under which the
same run finds it violated.

**Bounds, and why they are enough.** *Workers:* two; every race above needs two transactions, and what
two can do to a third row holder is covered by the proofs, which are for any number. *Movements and
keys:* two of each where identity matters (a key shared between movements), otherwise one movement.
`MaxPending = 1` limits what the app may send *at once*; a worker that has received a request keeps it
when the app forgets it, so that two different requests race all the same. `MaxForms = 4` is a complete
catalog, or a completion followed by a cancellation, logged from the portal. *Numbers:* with `MaxTries =
2` the limit is within reach of two racing writers (10 in the code; the proofs have no bound). Widths 1
and 2 and numbers to 60 cross each boundary of padding and of the alphabet (26 to 27). `LastPadded = 2`
lets invoice numbers outgrow their width within three invoices. `Txns = 4` is as many payments as two
orders can get with two workers. *Captures:* two, which cover a conflict over a file, a merge of two
ready bundles, and one bundle promoted after another; `PodSteps = 2` lets two logs be written, so that a
second one could take the same bundle. *Cash:* the second shipment is there to be staged for, so that a
payment can be presented for the wrong shipment; amounts 0 and 2 around a due of 1 are too little and too
much; `MaxStaging = 1` is one staging under way, which can race a collection; `MaxEntries = 2` is a
collection and a posting of the office, in either order; the office enters a credit for the shipment or a
debit of 1 without one. `MaxWallets = 1` bounds what the office finds when it looks, not what there is:
it also sets none inactive then. App and office that find no active wallet at the same time do open two.
The theorems have none of these bounds.

**Symmetry** is used for workers, keys, movements, portals and payments, in runs without liveness only.
The captures of `PodCaptures` are not interchangeable, because their files are not.

**Fairness.** `FairSpec` asks that a worker that has taken a request goes on with it, and that
PostgreSQL grants a row lock to each waiter in turn (strong fairness of the step that locks: lock
queues are served in order, while other transactions take and release the row in between). Nothing is
asked of the driver, the dispatcher or the app. In `AutoNumber` a deadlock is ended, which PostgreSQL
does after `deadlock_timeout`. In `CodCollection`
each worker's step is strongly fair: it may be enabled only from time to time, when others have let go
of the row it waits for, and PostgreSQL serves a row's waiters in order. There app and office lock in
opposite orders, and `EveryTransactionEnds` holds only because PostgreSQL breaks the deadlocks; its mutant is a
database that does not. No fairness is asked of the driver's app, the office, crashes or edits.
`PodCapture` has no liveness property: a capture that dies half-way stays a draft for ever, unless it expires.

**Deadlock** is checked in the execute runs, the POD runs and on the configuration page. `Numbering` stops when
`MaxRecords` records are saved and the payment runs when all orders are settled, so they say
`CHECK_DEADLOCK FALSE`, as does `CodCollections`, whose entries are bounded; that no transaction waits
for ever is `EveryWriterIsAnswered` and `EveryTransactionEnds` there. The POD runs check it.

## 4. Proofs

All theorems hold for every number of movements, workers, keys, writers, orders, payments, captures and
shipments. Every invariant and every action property of the passing runs is stated by one, and so are
both refinements; only the three liveness properties are not.

**`ExecuteActionProofs`**: lemmas on the policy's operators, and `TypeCorrect`. Types alone are not
inductive: a worker past `Receive` has a request, past `Reconcile` a snapshot (`Holds`).
`LocksEndWithTheirTransactions`, and `SuccessesAreBacked`, which needs no lock: logs are never deleted,
and what is answered was found or inserted under the request's own key.

**`ExecuteOrderProofs`**:
- `StepsAreInOrder` - with row locking or without, whatever the portal logs and saves. A worker at its
  commit was allowed the action on a log that was a subset of today's, so the steps before it are there
  (`Prepared`), under smaller numbers (`Numbered`). This needs that the policy looks at the log and
  not at the column for what is done.
- `CompletedIsForGood` - also unconditional: completion is read off the log, and logs are kept.
- `ExecutedStepsAreDue`, `OnlyDueStepsAreExecuted`, `ExecutedStepsKeepAgreement` - with row locking
  (`MOBILE_EXECUTION_ENTITY_LOCKING`, the default), whatever the portal logs and the movement form
  saves. The invariant is `Due`: a worker at its commit saw, under the lock, exactly the steps before
  its own, and while it keeps the lock a log of the portal waits. The column may have been saved by the
  form in between; but the milestones in the log decide what the app shows, and what executing the step
  makes of the column, whatever the column was (`DueIsAllowed`, `DueKeepsAgreement`). A cancellation is
  the exception: it is outside of the sequence, and the kernel lifts the policy for it. Hence the
  condition of the first theorem (no cancellation is logged) and of the second (nobody cancels); the
  run `CancelledRace` shows what happens otherwise.
- `StepsAreLoggedOnce` and `ImplementsLifecycle` - under `Serialised`: row locking is on and the
  portal logs no catalog steps. Then between
  `Kernel` and `Commit` nobody else can log on the movement, so that the step is still the next one
  (`IsDue`) when it is logged. Both assumptions are needed: without the lock two workers commit the
  same step, and the portal form checks before its transaction begins.
- `ColumnsFollowTheLog` - under `Serialised`, and where nobody sets the column by the movement form
  (which `PortalEdit` models, and which does part the two): column and log agree on every movement whose
  cancellation is not logged.

**`AutoNumberProofs`**: `NumberingTypeCorrect` and `CheckedNumbersAreFresh` (unconditional), the second
from `Held`: who has saved the counter
holds its row until the end, so no record can come between the look and the insert.
`RecordsAreNumberedWithoutGaps` and `OnlyTheOutrunGiveUp` assume that no two numbers are
written alike (`Distinct`), which is `NumbersAreDistinct` of the next module for two of the three formats
and false of the third; until the page sets the counter by hand they say what they say. The second needs
`Overtaken`: the counter is past the number a writer began with by no more than the records saved since.

**`NumberingPageProofs`**: reading undoes writing, for every number, width and alphabet. `Decimal`,
`IntToAlpha` and `Value` are recursive functions, so what they compute is induction, and it is done here
by least counterexample (`Least`, from the well-foundedness of `<`), which needs no theorem with an
operator for a parameter: first that the functions exist (`RecursionExists`: a function defined from
smaller arguments does), then that each digit multiplies the value of those before it by ten
(`ValueOfAppend`), that zeros before a number change nothing (`ValueOfDecimal`), and that the last run of
digits begins where the letters end (`LastDigits`). From these `ReadBack` and `NumbersAreDistinct`, and,
for a form whose formats do not include the alphabetic one, `NumbersAreWrittenApart`,
`PageSavesWhatIsShown` and the page's types. The condition is the whole truth: `NumberingAlpha` refutes
the second for the alphabetic format.

**`OrderPaymentProofs`**: `PaymentTypeCorrect`, with a lemma that a bounded set of numbers has a
greatest one, by the well-foundedness of `<`, for the last invoice.

**`OrderSafetyProofs`**: `PaidOrdersAreBacked` and `CompletedPaymentsStand`. The invariant says of each
worker what it relies on (`Relies`): who fulfils without an approval holds a pending payment of its order
by its row lock, or one still to be created; who fulfils after an approval has seen a payment completed,
and completed payments stay; a rejection under way holds a pending payment. A step of one worker cannot
take this from another (`OthersRely`), so each action is looked at for its own worker only. In its second
half `OnlineOrdersAreCreditedOncePerPayment`, `OnlineOrdersAreInvoicedOnce` and
`InvoiceNumbersAreSequential`. Who fulfils an online order holds its row (`Holds`), so nobody invoices it
after the look for an invoice, and it completes a payment that was not complete; the tenant's row that it
loaded is at most what has been paid, however stale. A number read without a lock is at most the next
one, and one that is not taken is the next one.

**`PodCaptureProofs`**: `PodTypeCorrect`, `ReadyBundlesAreWhole`, `LogsKeepTheirEvidence`,
`ImplementsEvidence`, all unconditional. None of them is inductive without the others. `WholeOrEmpty`
says what the stages of a stored bundle have in common, whoever wrote it last; `FillsAlone` that the
request that inserted a draft is the only one that fills and seals it, so that the copy it makes
ready holds the seal over all the files; `PromotesWhole` and `HoldsLock` that a promotion keeps the
shipment's row from before its last look at the bundle to its commit, so that no other log takes
it. What a retry writes back is old, but always expired. For the refinement each
step of the server is an abstract step or none: the attachment of the media fills, the commit of the
log uses, a promotion that is written back changes nothing.

**`CodCollectionProofs`**: `CollectionsAreCredited`, `ShipmentsAreCollectedOnce`,
`PaymentsAreCreditedAsStaged`, `CollectionsArePaidInFull`. None of the four is inductive. `Sound` says
what a transaction that will log a collection relies on: its amount is at least what is due, it ends with a
credit of its own or on one that is committed, and the app's holds the row of a shipment that is not
logged, so that no other commit can log it (`CommitKeeps`). `Funds` carries the amount from the staging
to the commit. For the payments two more facts are needed: past its log a collection holds the row of
the log numbers, so that two requests under one key are never both between the look at the payment
and its consumption (`Matches`), and numbers of logs are 1, 2, 3, ..., so that a new log's credits
are not mistaken for another's (`Numbers`, with the library's facts on cardinality).
`CodTypeCorrect` and `PostedBalancesAreSums` come from one more invariant, `Accounts`: a transaction
that opens a wallet holds the row of the wallets' number, and one that has posted holds the row of the
entries' number and has added its amount to the sum of all that is committed, which stays that sum until
it commits, since nobody else can post. The sum is a fold over a set; that it is one more amount when the
set has one more entry is proved from the fold's definition. The theorems are about `Spec`: they need no
fairness, and hold through crashes and broken deadlocks.

**Assumptions** are those of the modules (`CatalogAssumption`, `ExecuteAssumption`, `LettersAssumption`,
`PageAssumption`, `AutoNumberAssumption`, `PaymentAssumption`, and those of `PodCapture` and
`CodCollection`: distinct values for "nobody" and "nothing", subsets, finitely many payments) and what is
named above.

**Only model-checked:** the three liveness properties, `EveryRequestIsAnswered`, `EveryWriterIsAnswered` and
`EveryTransactionEnds`, since the prover has no fairness and no `ENABLED`. The runs that find a
property violated have nothing to prove.

## 5. Where code and documentation disagree

Four are runs that TLC finds violated:
- `CancelledRace`: `mobile_api/job_detail/guards/ownership.py:138` says "Cancelled movements are not
  open for driver execution". That is checked before the row is locked and not again.
- `NumberingAlpha`: the Next Number field promises "The system will assign this number to the next
  item". In the alphabetic format the padding letter is also the first digit; 27 is written like 1,
  and saving the page sets the counter back.
- `PaymentLtv`: `.cursorrules:532` calls `total_ltv` the "Sum of all Paid invoices for this tenant".
  Two orders captured at once lose one of the two.
- `PodRetry`: `mobile_api/pod_capture/policy/pod_evidence_immutability_policy.py:10` says that promoted bundles
  cannot be mutated by a capture. A retry that has read the bundle before its promotion, and finds its
  time over, writes it back as expired, without the log it was promoted to. The media keep their mark:
  `EvidenceStays` and `RefinesEvidence` hold all the same.

Others that were met while reading, as the models have them:
- Two approvals of one bank transfer that overlap fulfil twice, and an approval whose fulfilment fails
  leaves an order Paid without an invoice (`superadmin/views.py:9612`); this is why
  `CreditedOncePerPayment` and `InvoicedOnce` are about online orders.
- The rejection of a bank transfer leaves an order in Pending_Payment with a payment that nothing can
  complete (`billing_helpers.py:172`).
- Submitting and cancelling save the order over a payment that has been completed since they looked
  (`superadmin/views.py:9232`, `9279`); the payment itself stays (`PaymentStands`).
- Invoice numbers are sorted as text: after 9999 every new one is 10000 and is refused
  (`billing_helpers.py:422`); numbers stay sequential because the column is unique.
- A retry that overlaps its original is refused where it is meant to be answered as a replay: the kernel
  validates before it looks for the key (`kernel:263`).
- A cancellation logged from the portal on a completed movement sets the column to Cancelled, which the
  state machine has no edge for (`movement_state_machine.py:41`); the app still shows it as completed
  (`CompletedStays`).
- The portal's form answers a key used on another job with the log of that job (`views.py:12465`).
- A wallet form saves the balance it has loaded over a posting made since (`views.py:30669`); the
  stored balance is wrong until the next posting sums it anew, which is why `PostingSums` is about postings.
- "Once" of a credit is per wallet (`tenant_workspace/models.py:2136`): if the office logs a collection that
  the app has logged too, and a newer wallet has come into being in between, the shipment is credited in
  both wallets. `CollectedOnce` is about the app, and `LoggedIsCredited` says at least once.

## 6. Not modelled, and the plan

Not modelled for good: prices, taxes, promo codes, exchange rates; notifications (I/O); read-only pages;
form validation; routing and provisioning of tenants; the public site. Modelled in part, and why, is
said for each component in `PROJECT.json`.

Of the proof of delivery: media sent inline with the execute request, the limit of eight files, the
ranking of candidates, consolidated captures, the check of the GPS position, and bundles of other
shipments. Of cash on delivery: evidence files and their uniqueness, variance notes, audit rows, the
Cancelled collection status, and the screens that only read.

Planned, in this order:
1. **Billing cycle**: the renewal scan, scheduled downgrades and expiry on top of `OrderPayment`;
   credit notes and voided invoices.
2. **Hard POD custody** on top of `PodCapture`: submission and promotion as two transactions, with a
   crash in between and the retry by the client's id.
3. **Shipments and bookings**: cancellation against execution; the derived status of the booking.
4. **Driver sessions**: rotation of refresh tokens with lost answers, logout, lockout counter; and
   **operational issues**.

Proofs planned: those of the models above; and the alphabetic format at width one, where nothing is
padded.
