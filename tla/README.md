# FrogKing Digital in TLA+

FrogKing Digital is a shop run as a Telegram bot: Python 3.11, aiogram for the
bot, SQLAlchemy over asyncpg for PostgreSQL, Starlette and SQLAdmin for the web
panel. Customers top up a store balance and spend it on digital products that are
delivered at once from stock or by hand from an intake form; they earn
commissions on the purchases of the people they referred; administrators edit
the catalogue, fulfil orders and broadcast messages; background loops release
commissions, send restock alerts, notifications and broadcasts, and recover
payments.

This directory holds TLA+ models of the parts where money, stock and messages
change hands, of the dialogs customers and administrators hold with the bot, and
of who may do what; TLC configurations that check them on small instances; and
TLAPS proofs, for all instances, of the types of every model, of every safety property
that is model-checked and of two refinements.
`PROJECT.json` is the index: components, runs, the code line behind every
definition, the hazards of the code, the findings and the theorems.

Paths below are relative to `src/bot/` unless they start with `src/`.

## 1. What a step is

All state that matters is in PostgreSQL. `database/main.py` opens a session that
commits on exit and rolls back on an exception, at READ COMMITTED and with
`autoflush=False`. A function that locks the rows it reads (`FOR UPDATE`) before
it decides is **one step** of a model, since no other transaction can change what
it read; a call that the code refuses rolls back and is a stutter. A function that
reads without a lock, sends a message between two transactions, or keeps a
result in memory until a later commit is split into **one step per transaction
and per external answer**, and whatever the rest of the system may do happens in
between. Asyncio tasks are processes that interleave at these points.

## 2. Inventory

| Component | State | Operations | Interacts with | What is hard |
|---|---|---|---|---|
| Referral ledger (`database/methods/referrals.py`) | `referral_earnings`, `referral_conversions`, `users.balance`, `users.referral_debt` | earn, start the hold, release, convert, adjust, reverse | purchases call it inside their transaction; the worker releases; the web panel adjusts | debits larger than the balance become debt; refunds after conversion; double submission |
| Availability worker (`misc/services/referral_worker.py`) | none of its own | releases a batch of mature earnings | ledger | progress past full and failed batches |
| Direct purchase (`database/methods/transactions.py`, `orders.py`) | `orders`, `order_items`, `bought_goods`, `item_values`, `operations` | `buy_item_transaction` | promo codes, drafts, ledger, fulfilment | contested stock, contested codes, manual against instant delivery, unlimited rows |
| Cart (`transactions.py`, `create.py`, `delete.py`) | `cart_items` | add, remove, clear, check out | the same stock and codes | lines of one cart compete with each other |
| Promo codes | `promo_codes`, `promo_code_usages` | use by purchase, cart or redemption; toggle, delete, expire | products, by a nullable foreign key | last use; a binding lost with its product |
| Stock and catalogue | `goods`, `item_values` | add and delete rows, delete a product, edit its mode and fields | everything that sells | edits between a draft and its payment |
| Intake drafts (`intake_drafts.py`, `handlers/user/manual_intake.py`) | `checkout_intake_drafts`, the chat's FSM | open, answer, go back, confirm, cancel, start over | purchase consumes them; the panel edits the form | handlers that do not lock against the purchase or each other |
| Manual fulfilment (`web/fulfillment.py`) | `manual_fulfillment_jobs`, interactions | start, resume, message, request verification, complete, read replies | outbox, ledger's hold, conversations | operator against operator and against customer |
| Order conversations (`handlers/user/order_reply.py`) | `manual_order_conversation_sessions` | open, reply, lapse, close | fulfilment jobs, the chat's other dialogues | replies that race with completion; two conversations |
| Notification outbox (`misc/services/outbox_dispatcher.py`) | `manual_order_notifications` | read a batch, send, commit | fulfilment writes its rows | the batch is one transaction around many sends |
| Restock alerts (`restock_subscriptions.py`, `misc/services/restock_dispatcher.py`) | `product_restock_subscriptions` | subscribe, cancel, claim, send, retry, give up | stock and products | tasks that outlive their batch; lost answers; restarts |
| Broadcasts (`broadcast_service.py`, `broadcast_dispatcher.py`, `web/broadcast_admin.py`) | `broadcast_campaigns`, `broadcast_recipients` | draft, confirm, cancel, claim, send | users' `is_blocked` | at most once under crashes; a single active campaign |
| Payments (`transactions.py:388`, `recovery.py`, `balance_and_payment.py`) | `payments`, `users.balance`, the chat's state | create an invoice, register it, check, credit, recover, fail | the providers, operations | three paths credit the same payment on answers that are older than their transaction |
| Clean-up (`cleanup.py`) | audit entries, payments, drafts | delete what is old | payments, drafts | one statement of three fails |
| The shop's pages (`handlers/user/shop_and_goods.py`) | the FSM, shared by every message of the chat | shelf, deals, product, keypad, check-out, confirm | cached rows, promo codes, purchase | buttons of older pages stay tappable |
| Reviews (`shop_and_goods.py`, `create.py`) | `reviews`, the FSM | rate, comment, preview, submit, moderate | orders, deletions of products | the preview is not what is stored |
| Stock and catalogue dialogs, web panel (`handlers/admin/*`, `web/admin.py`) | `goods`, `categories`, `item_values`, image files | create, edit, move, rename, delete, upload | everything that sells, reviews | two operators and a crash between file and row |
| Roles (`role_management_states.py`, `web/admin.py`) | `roles`, `users.role_id` | create, edit, assign, delete | filters, caches | a ceiling on what may be granted, read through caches |
| Caching (`misc/caching`, `cache_utils.py`, `read.py`) | Redis, dictionaries | fill, expire, invalidate | every reader | a read that started before an invalidation; outages |
| Middleware (`middleware/security.py`) | `admin_cache`, `blocked_users` in memory | admit or refuse an update | every update | memory against row, across restarts |
| Rate limits, legacy broadcast, CryptoPay client, export, i18n, keyboards, validators, metrics, encryption | | | | rendering, HTTP and windows in memory |

What makes each component correct, in a sentence:

* **Ledger**: money is conserved. A commission is paid once, a refund takes back
  exactly what was paid, what cannot be taken back becomes debt, and the trail
  of rows explains every balance and every debt.
* **Shop**: a stock row goes to one customer; a promo code is used no more than
  allowed; every change of a balance is explained; an order delivers what was paid.
* **Dispatchers** (restock, broadcasts, outbox): nobody gets more messages than
  the failures explain, nothing closed is reopened, and everything open is closed
  in the end.
* **Payments**: a payment is credited once, whoever reports it, never without
  money received, and never forgotten once its link was shown.
* **Drafts and fulfilment**: what was answered is what is paid for, once; a job is
  completed once, its customer has one conversation, and nothing is filed that was
  sent after the end.
* **Pages and dialogs**: what is bought or submitted is what was on the page that
  was tapped, whatever other pages did to the FSM they share.
* **Access**: no chain of grants exceeds what was there at first; a blocked user is
  not heard; caches end up telling the truth.
* **Catalogue**: a row never names an image that is gone.

## 3. Modules

| Module | Models | Lines of the code |
|---|---|---|
| `RunningTotals` | sums over a table's rows | the `sum(...)` of `referrals.py` |
| `ReferralLedger` | the ledger and its worker | `referrals.py`, the ledger's part of `buy_item_transaction`, `referral_worker.py` |
| `Storefront` | purchases, carts, promo codes, stock, balances | `transactions.py` (except payments), `create.py`, `delete.py`, `update.py`, `cart.py`, draft opening, top-ups and deductions of `user_management_states.py` |
| `IntakeDialog` | the form of a manual order | `manual_intake.py`, `intake_drafts.py`, the panel's forms of fields |
| `Shop` | the shop's pages and their FSM | `shop_and_goods.py`, the purchase handler of `balance_and_payment.py` |
| `Announcements` | what campaigns promise | abstract |
| `Mail` | what the outbox promises | abstract |
| `Fulfillment` | operators and customers of manual orders; EXTENDS `Mail` | `web/fulfillment.py`, `order_reply.py` |
| `Access` | roles, caches, blocks, the middleware | `role_management_states.py`, `security.py`, `cache.py`, `read.py`, the panel's users and roles |
| `Reviews` | the review dialog and moderation | `shop_and_goods.py`, `create.py`, `web/admin.py` |
| `Catalogue` | products, categories, images, stock; EXTENDS `Reviews` | `web/admin.py`, the dialogs of `handlers/admin` |
| `RestockDispatch` | subscriptions, the loop and its tasks | `restock_subscriptions.py`, `restock_dispatcher.py` |
| `BroadcastCampaign` | campaigns, the loop and its tasks | `broadcast_service.py`, `broadcast_dispatcher.py`, the form of `web/broadcast_admin.py` |
| `Outbox` | notifications and the loop; implements `Mail` | `outbox_dispatcher.py` |
| `Payments` | invoices, Telegram payments, the recovery loop, the nightly clean-up | `balance_and_payment.py`, `process_payment_with_referral`, `recovery.py`, `cleanup.py` |
| `RunningTotalsProofs`, `ReferralLedgerProofs`, `StorefrontProofs`, `BroadcastCampaignProofs` | theorems about the module of that name | |
| `DispatchProofs` | theorems about `Outbox` and `RestockDispatch` | |
| `CustomerProofs` | theorems about `Payments` and `Shop` | |
| `ManualOrderProofs` | theorems about `IntakeDialog` and `Fulfillment` | |
| `AdministrationProofs` | theorems about `Access`, `Catalogue` and `Reviews` | |
| `MC*` | the values of the constants for TLC | |

`Fulfillment` is composed with `Outbox` through `Mail`: the outbox is shown to
implement `Mail` (`MailKept`, proved as `OutboxImplementsMail`), and the operators'
messages travel as `Mail` promises. `BroadcastCampaign` is shown to implement
`Announcements` (`AnnouncementsKept`, proved as `DispatcherKeepsAnnouncements`). `Catalogue` and `Reviews` share `rows` and
`product`: a deletion of one is felt by the other.

Two components whose theorems share a module are not composed: each has its own
variables and specification, with names of their own (`RestockSpec` beside `Spec`),
and each theorem names the one it is about.

An operator introduced by `\* Fault:` is not part of a specification. It is the
mutated form of the definition that follows it, used to see that a property
notices the mistake.

### ReferralLedger

`earnings` and `conversions` are the two tables as sequences, the row with id *i*
at index *i*; no code deletes from them. `balance` and `debt` are the columns of
`users`, `operations` the sum of a user's rows in `operations`. Money is in cents
(the code's `Decimal` with two places, `ROUND_HALF_UP` in `Commission`), time is a
`clock` that only `Tick` moves. `orders` bounds the number of purchases.

`Purchase` is the ledger's share of `buy_item_transaction`: the buyer pays and
`create_purchase_referral_earning` appends a row, whose hold starts at once for an
instant order and at completion (`FulfilManual`) for a manual one. `ReleaseBatch`
is one turn of the worker, ordered by `ready_at, id` and limited by the batch
size. `Convert`, `AdjustUp`, `AdjustDown`, `ReverseHeld` and `ReverseConverted`
are the functions of the same names, the last three through `ApplyDebit`.
`reverse_referral_earning` is called by tests only, but it is the ledger's
documented operation for refunds and is modelled as one.

### Storefront

One step per transaction. `Buy` is `buy_item_transaction`: a manual product needs
a pending draft of the same user, product, quantity and field fingerprint; the
promo code must be `Valid`; the money and the stock rows are taken; an instant
order gets one `bought` row per unit and a manual one none. A query that returns
rows in no stated order is a choice (`Dispensed`, `Claims`). `Checkout` claims a
row per line of the cart, sells the lines that got one and empties the cart; it
records no operation and makes no order, as in the code, and the audit property
says so. `DeleteItem` does what the foreign keys do: stock and drafts go, promo
codes lose their binding, cart lines stay since they name a product.

### RestockDispatch

`row` is the subscription table, `dispatcher` where `RestockDispatcher.run` is, `tasks`
the asyncio tasks by slot with their program counter and local `attempts`, `gathering`
those the batch waits for. Claim,
re-read, stock check, send and final write are separate steps, each in the
transaction the code uses; writes are conditional on `status = 'processing'` as in
the `UPDATE`s. A task outlives its batch when another task of the batch raises
inside an `except` clause (`FailInHandler`): `gather` has no `return_exceptions`
here, so the loop goes on while the rest still runs. `cancel_restock_subscription`
is two steps because it reads without a lock. `next_attempt_at` and the stale
timeout are Booleans that come true at any time (`ComeDue`, `GrowStale`): a claim
may grow stale while its task is still running, as the code allows.

### BroadcastCampaign

`confirm_campaign` is two steps (`CountActive`, `CommitConfirm`), since two
confirmations lock different campaigns and count the active ones before either
commits; the partial unique index decides at the second. A task's result is in
memory (`task`) until `Commit` writes it by primary key. `gather` has
`return_exceptions=True` here, so that a failed task leaves its recipient
`sending` (`FailTask`) until a restart turns it `uncertain` (`Restart`).

`Announcements` knows a campaign's phase, the copies its users got and the calls after
its cancellation. `BroadcastCampaign` maps to it by `Phase`, for which "confirmed" and
"running" are both active: claims, answers in memory, commits, floods, crashes and
restarts are stutters there, and a send is a call.

### Outbox and Mail

The loop reads a batch without a lock, sends one notification after the other and
commits once. `result` is what the session holds in memory. Any error in a send
ends in `RollBack`: the handler refers to `sqlalchemy.Interval`, a name the module
never imports, and the `NameError` leaves the loop and the session. What the
model calls `Enqueue` is the insert of `api_message`, `api_request_verification`
and `api_complete`.

`Mail` knows only rows and copies: a row is queued, copied any number of times
while it is pending, and closed, as sent only if it was copied. `Outbox` maps to it
by `copies <- delivered`; batches, rollbacks and crashes are stutters, copies or
closings there.

### Payments

`invoice` and `charge` are the providers' side: an active CryptoPay invoice is
paid or expires for good (`Pay`, `Expire`), a Telegram charge is announced by an
update that is repeated until it is confirmed (`PayCharge`, `Deliver`,
`Confirm`). `row` is the status of the payment's row, `credits` the number of
`Operations` rows (and additions to the balance) made for it. `task` is a handler
call that stops at every `await`: `CreateInvoice`, `CreatePendingPayment` and
`Offer` are the three parts of `process_replenish_balance`, `Check`,
`GetInvoice`, `Credit` and `ClearState` those of `checking_payment`. `sweep` is
the recovery loop with the copies it made before it closed its session.
`ProcessPayment` is one step: the row is locked, or the unique key makes the
second of two inserts fail. `StartCleanup` and `CleanupRaises` are the nightly
transaction, whose locks are not modelled since it always rolls back.

### IntakeDialog

`task` is an update being handled: what it read of a draft, the product's fields
and the FSM, until its next transaction writes what it made of that copy.
`ReadAnswer`/`SaveAnswer` are the two halves of an answer or of a step back,
`Confirm`/`Buy` the two transactions of a confirmation, `CloseDraft` the write of a
cancellation or of a draft found unfit. Answers are counted, not spelled: `step`
and `answers` are two columns that separate handlers write. `Revise` is any edit
of the fields by the panel's two forms.

### Shop

One FSM record for the chat, a page per message that still has buttons. Each action
is a handler of `shop_and_goods.py`: it compares what its button carries with the FSM
where the code does (`Same`), reads cached or fresh rows where the code does
(`served`, `goods`), and replaces the page. Shelf pages (`ShowShelf`) list products by
index, as the buttons do. `ConfirmPurchase` is the purchase handler; `told` and `page` record what the
customer was shown last and which page was tapped.

### Fulfillment

A workspace handler locks its job and is one step; `PressReply`/`OpenTalk`,
`Say`/`CheckReply`/`FileReply` and `ExpireTalk` are the separate reads and writes
of the customer's handlers, which lock nothing across them. A text carries what was
true when it was sent (`open`, `over`), which the properties compare with what
became of it.

### Access

`role` and `perms` are the two tables, `cache` the two caches permissions are read
through, `fills` the reads that have not been stored yet, `drops` the invalidations
scheduled as background tasks. `session` is the role dialog with the permissions its
administrator had when it began, or the gap between the checks of an assignment or
deletion and its commit. `update` is one update between the middleware's look-up and
its memory. `allowed` and `heard` are history variables.

### Reviews and Catalogue

`Reviews` is the dialog and the row; `Catalogue` extends it with the rows of
products and categories, the image files, the requests of the panel (`saves`: read,
upload, commit, tidy) and an administrator's dialog (`dialog`, and `job` for the
handler that carries out its last step). `Gone` is what the foreign keys do when a
row goes, reviews included.

## 4. Runs

Each run answers one question. All finish in under four minutes with two workers.
Every property is shown to be breakable by a fault in the code it is about
(`mutants` of `PROJECT.json`).

| Run | Instance | What it shows |
|---|---|---|
| `referral_ledger` | a referrer with no money, a referred buyer; two totals, one rate, a hold of one tick, batch size 1, three orders, adjustments of +3 and -3 with one key | debts audited, money conserved, the hold, reversal once, keys once, append-only history, and progress of the worker |
| `storefront` | two customers, two stock rows, one code with one use, carts of up to two lines, top-ups and deductions of 4 up to a balance of 6 | no row sold twice, uses counted, money audited |
| `storefront_manual` | a manual product with two rows, an unlimited instant guide, two drafts, quantities one and two, a balance code | a draft pays once, orders deliver what was paid |
| `restock` | two customers of one product claimed in one batch, one send at a time, one retry, one fault | at most one message without a fault, notified means heard, cancellation sticks, and whoever waits for a product that is back for good is told or given up |
| `broadcast` | two campaigns sharing a recipient, batches of one, one flood limit, one fault | each recipient gets a campaign at most once, `Announcements` implemented (one campaign active, its audience only), completed means over, cancelled means at most the batch in flight, and a campaign ends or holds a recipient whose task failed |
| `payments` | one invoice, one charge, three concurrent handler calls, two faults | credited once, rows tell the credits, a paid invoice is credited |
| `outbox` | three notifications, batches of two, two raising sends each, two crashes or failed commits | copies bounded by rollbacks, `Mail` implemented, everything closed in the end |
| `fulfillment` | two jobs of one customer, three notifications of one copy, two conversations, one text | a job is completed once, one conversation at a time, nothing sent after completion is filed |
| `intake` | two products of up to one field per unit, quantity two, two updates at a time, two drafts, one edit of a form | an answered step is an answer kept, the form that is paid for is the one that was asked, a closed draft is never paid |
| `shop` | two products, one of them a popular deal, a code bound to the first, two messages, pages of one product, a keypad of two binary digits, one edit | what is bought is the product of the page tapped, in the quantity shown last |
| `access` | an administrator and a member of the crew, four roles of which one is not given yet, two permissions, two committed changes, one outage of Redis, one read under way | no escalation, blocked means unheard, caches end up right |
| `catalogue` | two products in a category, one more of each to come, two sold items, three files, two requests of the panel at a time, three beginnings | an image named is an image there, a review is stored as it was shown |

### Bounds, and why they are enough

* *ReferralLedger*: three orders and one adjustment key let an earning be
  converted, spent by its referrer's own purchase, reversed into debt, and the
  debt be paid by a later conversion; batch size 1 makes the order of release
  matter. Two users suffice because no operation touches more than two. The
  proofs remove these bounds for everything but `MatureReleased`.
* *Storefront*: every contest is for one resource between two customers or two
  lines of a cart; `MaxRows` bounds the orders and bought rows after which
  purchases stop, so runs disable the deadlock check. A product's field
  fingerprint is one value in the runs, its mode changes. The proofs remove the bounds
  for all five properties.
* *RestockDispatch*: with two slots one of two tasks may outlive its batch while
  the other's subscription is claimed again. `RestockMaxFaults` is 1. The proofs remove
  the bounds for everything but `EventuallyServed`.
* *BroadcastCampaign*: two campaigns that share a recipient are what the single
  active index and the cancellation are about. Larger batches and more faults are
  left to the proofs.
* *Payments*: all properties are about one payment at a time and payments share
  only the recovery loop, so one invoice and one charge show them; three calls
  are two taps and a delivery, besides the loop. The proofs remove the bounds for
  the safety properties. Everything may be settled in the end, so the deadlock
  check is off.
* *Outbox*: three rows and a batch of two leave one row out of a batch, and let
  a raising send precede or follow a good one. The proofs remove the bounds, for the
  refinement too.
* *Fulfillment*: two jobs are what one conversation closing another takes; a text is
  sent at any moment, so one is enough for what happens to it. The number of copies
  of a notification only matters for whether it shows a button. The proofs remove the
  bounds.
* *IntakeDialog*: every race is between two updates of the chat. One field of a
  product ordered twice gives two steps, so that an answer can be lost between
  others; two drafts let one be closed and another opened. The proofs remove the bounds.
* *Shop*: a message tapped after another one moved the FSM takes two messages and
  two products; an older page of a list takes pages of one. Base, digits, quick
  quantities and limits are scaled down together: 2 stands for the 1000 and the 100
  of the code, which differ there (section 6). The proofs remove the bounds.
* *Access*: a read that races with a change takes one read and one change; an
  assignment that races with an edit takes two. A role that is not built in and one
  that does not exist yet let roles be deleted and created under a dialog. The proofs remove these bounds for both
  safety properties; only `EventuallyFresh` depends on them.
* *Catalogue*: an image is replaced by one request while another holds the row as it
  was; three beginnings are two requests and a dialog, a sale or a review besides.
  Two ratings, texts and files are interchangeable, hence the symmetry. The proofs
  remove the bounds.

### Fairness

Only the process's own loops and tasks are fair, weakly: `asyncio` resumes what
can run, the loops catch every exception and poll again, clocks do not stop, and
Telegram's client answers or times out. Customers, administrators, Telegram's
verdicts, crashes and failing transactions are never fair. Faults and flood
limits are bounded in number, so a liveness property says what happens once they
stop. In `Payments` handler calls are not fair at all: the recovery loop has to
do. In `Access` reads that began are stored, invalidations scheduled are run and
entries expire; Redis need not come back. The dialogs (`Shop`, `IntakeDialog`,
`Fulfillment`, `Catalogue`) state no fairness: a person may always leave. All but `Shop` may
also end, by their bounds, so that their runs do not check for deadlock. `wake_up`
is subsumed by `PollRestock`, and a poll that skips rows another
transaction has locked (`SKIP LOCKED`) is subsumed by polling later.

## 5. Proofs

`tlapm` checks every theorem for all values of the constants allowed by the
`ASSUME`s of the modules; TLC evaluates the same `ASSUME`s in every run.

**RunningTotalsProofs** gives the sums of the ledger their algebra (`TotalZero`,
`TotalStep`, `TotalSame`, `TotalPlus`, ...). `Total` is a recursive function;
that it exists on all naturals, and induction over it, are obtained from the
well-foundedness of `<` on `Nat` applied to a *set* of naturals (`LeastElement`,
`Induction`), because the library's induction rule quantifies over operators.

**ReferralLedgerProofs** proves, with `TypeInv == TypeOK /\ RowsOK` as the base:

* `TypeCorrect`. `TypeOK` alone is not inductive: that a debit's row is
  well-formed needs what rows of each kind and status look like (`RowsOK`: an
  applied row is negative and its recovered and owed parts add up to it, a row
  names a conversion exactly if it is converted).
* `DebtIsAudited`, `BalanceIsAudited`, `ReferralMoneyConserved`,
  `ConversionsAreAudited`. `StepKinds` sorts the steps by what they do to the
  sums (quiet, one debit row appended, a conversion); a lemma per sum says how
  it moves; each audit then follows by linear arithmetic.
* `HoldIsRespected` strengthens the property with the facts that a pending or
  available purchase row with a `ready_at` is fulfilled and that `ready_at` lies a
  hold after fulfilment.
* `KeysAppliedOnce`, `ReversalsCompensateOnce` (strengthened by: a compensating
  row points at an existing converted row), `LedgerIsAppendOnly`.

**StorefrontProofs** proves the types and the five properties of `Storefront`, one
invariant each on top of `TypeOK`:

* `StockSoldOnce` from `StockInv`: no value is for sale and among those not created
  yet at once. `BuyHands` and `CheckoutHands` say what a purchase and a cart hand over:
  values from the shelf, no finite one twice and none left for sale. `ListingLists`
  and `NthLists` are about the orders in which rows are listed.
* `CodesAreCounted` from `UsesInv`: the users of a code are a finite set, so that a use
  by one more adds one to its size.
* `DraftsPayForOne` from `DraftInv`: an order is manual if and only if it names a
  draft, and that draft knows the order, is not pending and has the same user.
* `OrdersAreDelivered` from `DeliveryInv`: bought rows name orders that exist, so that
  a new order starts without any.
* `MoneyIsAudited` needs no more than types. Its core is `SoldLinesSum`: the prices of
  the lines of a cart that got a row, listed one after the other, add up to the total
  that left the balance. Sums over rows come from `RunningTotals` (`TotalSplit`).

`RowsAssumption` (no draft is `NULL`) is what telling the two kinds of orders apart takes.

**BroadcastCampaignProofs** and the first half of **DispatchProofs** prove, for any number of
campaigns, recipients, notifications, faults and any batch size, that the
dispatchers keep their promises (section 7 lists the statements). `OutboxImplementsMail` is the refinement:
the mapped initial state is `Mail`'s, and `MailStep` shows every step of the loop to
be a copy, a closing or a stutter of `Mail`; a batch is closed as sent only with its
sends, by the invariant that ties the results held in memory to the copies made. The
strengthenings are local: what a claimed recipient or a read batch knows about
its row (`HeardInv`, `SettledInv`), and for cancellations a count: the messages
that went out since, plus the sends still in flight, are at most a batch
(`LateInv`, with the cardinality facts of the library). `DispatcherKeepsAnnouncements` is
the second refinement and rests on all of these: that a send is a call the promise
allows takes `HeardInv` (nobody heard it yet), `SettledInv` and the types (the campaign
is active or cancelled), `LateInv` (in time) and `AudienceInv` (one of the audience).

**DispatchProofs** goes on with `RestockDispatch` and `RestockInv`. `NotifiedOnce`
bounds the messages sent, and says nothing of those that may still be sent. The
invariant counts them: the messages, the tasks in flight that may still send one or
hand their claim back (`Chances`), and the row itself if it can be claimed now or
when its claim is stale (`Claimable`) are together at most one more than the faults.
A step then moves a unit from one summand to another; only a fault adds one. A
customer who subscribes again starts a new count, and a task of the batch that was
claimed before that is no chance any more: while the batch waits for it, its row is not
claimed, so that what it writes matches nothing (`TaskKept`; the task of a batch is the only one of its subscription
that the batch waits for, by `SubKept`). Attempts are counted likewise, with the
tasks that have outlived their batch (`Orphans`), of which there are at most as many
as faults. `CancellationSticks` needs only the types: every write of a task is
conditional on the row's status.

**CustomerProofs**: `Payments` rests on `PayInv == TypeOK /\ Careful`. `Careful` says what an
answer read earlier still means: a call about to credit holds a payment that is
paid, the loop about to write "failed" holds an invoice that is expired, and the
provider takes neither back. It also needs that a pending row is inserted before
anybody can pay: its task is the only one for that invoice, and no link is shown.
One step per action shows that `PayInv` is kept.

For `Shop` the invariant is about what the customer knows (`QuantityKnown`): the
quantity in the FSM is the one he was told last, or he was told there was nothing to
be had, or the cache serves the product as deleted. The last case takes
`ServedDeletedIsDeleted`: a deleted product never comes back, so that a confirmation
of it makes no receipt. The types matter more than usual: what each kind of page
carries is what its buttons compare with the FSM (`PageTyped`). All taps but the
confirmation are shown to be of one shape (`Tap`), for which the invariant is shown
once.

**ManualOrderProofs**: `Fulfillment` shares the invariant `Inv`: the types, and that a text in a
handler or sent after a completion belongs to a conversation, whose job stays
completed (`JobsKept`) and whose row never changes its job (`TalksKept`).
`OneConversation` follows since no conversation becomes active again and a new one is
alone; `RepliesFiledInTime` since `CheckReply` looks at the job; `JobsCompletedOnce`
from `Noticed`, the set of completion notices of a job being empty or a singleton.

For `IntakeDialog`, `StepTellsAnswers` speaks of the rows, but what is written to a row
next is a handler's copy: `CopiesWhole` says the same of the copies. That a draft pays
for one order is not inductive either, since cancellations and expiries write over
statuses that they read earlier; `PaidIsClosed` says that no draft with an order is
pending again, which holds because nothing but its creation ever makes a draft pending
(`DraftsMove` says so of every step). `PaidForForm` compares a draft's fingerprint with
that of the product in the transaction of the purchase, and drafts keep theirs.

**AdministrationProofs** proves both safety properties of `Access`. `NoEscalation` speaks of the
roles users hold, but what they hold next was read earlier: `Ceiling` therefore bounds by
`allowed` the roles held, the entries of both caches, the reads not stored yet and what an
open dialog remembers of its caller; an assignment under way has a role that was
bounded when it was checked, and is bounded still or gone. `GateInv` says that the update
being admitted, if it came after a block, is of a user who is still blocked; the row, not
the memory, is what keeps it so across restarts. The types of `Access` follow from both.

Its second half is about `Catalogue`. `CatalogueTypeOK` includes the foreign keys and
the unique names (`References`), and deletions keep them (`Gone` leaves no reference to a row
it removes). `ImageThere` concerns requests of the panel that upload a file, commit a row
that names it, and tidy up the file they replaced or the one that was not committed.
Tidying is safe because no row names the file by then. `ImagesKept` says why: until its
commit a request alone holds the file it brought and no row names it (`BroughtHeld`);
after the commit no row names the one it leaves behind (`DroppedUnnamed`); an image belongs
to one row (`OneRowEach`), so that what a request saw is its own row's if it is any row's
(`SeenInPlace`); and names of files are never used again (`FreshUnnamed`). Without the
last an upload could be given the name of a file that another request is about to
remove. `SubmittedAsShown` takes `TalkShown`: what the dialog holds while it asks
for a confirmation is what it previewed.

Proved from: the `ASSUME`s, and nothing else. They say that `NULL`, `None` and `NoOne`
are nobody (`NullAssumption`, `CatalogueAssumption`, `IdsAssumption`, ...), that sets of
subscriptions, notifications and products are finite, that limits and bounds are natural
numbers, and, of the initial rows of the catalogue, that they respect the foreign keys and
that an image belongs to one row (`FirstAssumption`).

Every safety invariant and action property that a run checks is proved, and so are some
that no run lists: the types, and what follows from a property that one lists (`OneActive`
from `AnnouncementsKept`) or shares its invariant (`AttemptsBounded`, `PaidOnce`). Only
model-checked are the liveness properties (`MatureReleased`, `EventuallyServed`,
`CampaignEnds`, `EventuallyClosed`, `PaidIsCredited`, `EventuallyFresh`).

## 6. Findings

Six disagreements between the code and its own words are stated as properties that
no run lists. Adding the line to the configuration shows the violation.

| Property | Shown by | What the code does |
|---|---|---|
| `GivenUpAtLast` | invariant of `MCOutbox.cfg` with `MaxErrors = 4` | `misc/services/outbox_dispatcher.py:88` raises a `NameError` whenever it handles a failed send. The batch's session rolls back, so attempts are never counted, the back-off of line 86 never happens, the notification is retried at every poll for ever, and whatever was sent before it in the same batch is sent again each time. |
| `BindingRespected` | invariant of `MCStorefrontManual.cfg` with `Promos = {fan}` | `promo_codes.item_id` is `ON DELETE SET NULL` and the check takes `NULL` for "not bound". |
| `HistoryComplete` | invariant of `MCStorefrontManual.cfg` | the "full operations history" reads `bought_goods`, which a manual order does not have. |
| `OldRowsGo` | property of `MCPayments.cfg` | `misc/services/cleanup.py:77` uses `text`, which the module does not import. The `NameError` is caught and logged every night at 4:00, after the session rolled back the deletions of audit entries and payments too. |
| `PaidComplete` | invariant of `MCIntakeDialog.cfg` | `manual_intake.py:470` refuses an incomplete draft, in a transaction before the purchase; an answer in flight that is committed in between leaves a paid order with answers missing. |
| `DirectlyHeard` | invariant of `MCFulfillment.cfg` | "Send ... any additional messages directly in this chat" (`order_reply.py:177`): a text sent while another dialogue is open goes to that one, silently. |

Met while modelling, and part of the models as the code has it:

* *Payments.* `recovery.py:140` marks a payment failed whatever its status has become.
  That `RowsTellCredits` holds all the same depends on the provider: an invoice that
  was once reported expired is never reported paid. A Telegram payment has no pending
  row: if the process dies or the transaction fails after its update was confirmed,
  nothing credits it, and `PaidIsCredited` is stated for invoices only.
* *Shop.* A list's button names a position, so a tap on an older page opens another
  product; what is then bought is what the new page shows. A second tap on "Confirm"
  while the first purchase runs buys again unless a code is in use.
  `buy_item_transaction` never looks at `is_enabled`. An unlimited product may be put
  on the check-out page in quantities up to 1000 (`shop_and_goods.py:915`), but the
  purchase accepts 100 (`misc/validators.py:28`). No handler answers `back_to_item`.
* *Fulfilment.* `api_retry_notification` (`web/fulfillment.py:706`) calls
  `scalar_first()`, which results do not have: it always answers 500.
  `back_to_source` (`order_reply.py:270`) refers to names its module does not import.
* *Access.* The middleware may store a user in `blocked_users` after the unblock that
  raced with it (`security.py:180`), and an unblock in the panel never clears that
  memory: the user stays locked out until a restart. Edited and deleted roles
  invalidate nothing, so that changed permissions take up to 300 seconds to hold;
  a deletion that races with an assignment, or one in the panel, leaves users without
  a role, though `delete.py:59` says "Fails if users are assigned". The panel's form
  writes back the balance, role and block it was loaded with. `CacheManager` catches
  the built-in `ConnectionError`, which those of the Redis client do not derive from,
  and `cache_scheduler.py:41` raises on the last day of a month.
* *Catalogue.* A category with products cannot be deleted, though `delete.py:37` says
  "CASCADE handles items": the mapper empties a column that may not be empty. The
  bot's dialog to edit a product hands `update_item` a category's id for its name, so
  that nothing is changed and success is reported. Two concurrent moves of categories
  may form a loop, on which `normalize_parent_id` (`web/admin.py:295`) never returns.
  The bot deletes products the panel refuses to delete because of their orders. A
  dialog opened from an older message goes on with the data of another.
* *Reviews.* `review_return_to_source` assigns to a frozen `CallbackQuery`
  (`shop_and_goods.py:1298`), so that a review begun at an order leaves its dialog
  open. The list of reviews reads a key the query does not return, and finds reviews
  by the product's name, which may change.
* *Restock.* An alert may go out after its customer cancelled: the status is read at
  `restock_dispatcher.py:197`, the message sent at line 254.
* *Cart.* `handlers/user/cart.py` uses `safe_edit_or_send` without importing it, and no
  keyboard leads there; `Storefront` has the carts that the handlers would fill. The
  price shown ignores the expiry and the binding of a code; the check-out does not.
* *Balances.* An exception between the commit of a top-up or deduction and the end of
  its dialog leaves the prompt waiting, and a retyped amount is applied again.
* A retention of 0 days does not disable the clean-up as `src/README.md:408` says: the
  cut-off would be now.

## 7. Theorems

| Module | Theorem | Property | Statement |
|---|---|---|---|
| `ReferralLedgerProofs` | `TypeCorrect` | `TypeOK` | balances and debts are never negative, rows keep their shape |
| | `DebtIsAudited` | `DebtAudited` | a debt is what the debits added less what conversions offset |
| | `BalanceIsAudited` | `BalanceAudited` | a balance is the opening balance plus the recorded operations |
| | `ReferralMoneyConserved` | `NetPosition` | what the ledger paid, less what it recovered or claims, is the sum of the settled rows |
| | `ConversionsAreAudited` | `ConversionsAudited` | a conversion's gross is the sum of the earnings that name it |
| | `HoldIsRespected` | `HoldRespected` | nothing is available before its hold has passed since fulfilment |
| | `KeysAppliedOnce` | `KeysOnce` | an idempotency key is used by one row |
| | `ReversalsCompensateOnce` | `CompensatedOnce` | a converted earning is compensated at most once, exactly |
| | `LedgerIsAppendOnly` | `LedgerAppendOnly` | rows are never removed or rewritten, statuses follow the lifecycle |
| `CustomerProofs`, Payments | `PaymentsTypeCorrect` | `TypeOK` | no call is ever about a payment of the wrong kind |
| | `PaymentsCreditedOnce` | `CreditedOnce` | at most one credit per payment |
| | `RowsAreTrue` | `RowsTellCredits` | "succeeded" if and only if credited |
| | `NothingForNothing` | `CreditedForMoney` | no credit without money received |
| `CustomerProofs`, Shop | `ShopTypeCorrect` | `ShopTypeOK` | the FSM and each kind of page have what their buttons rely on |
| | `BoughtIsOnPage` | `BoughtFromPage` | what is bought is the product of the page that was confirmed |
| | `BoughtAsTold` | `QuantityTold` | in the quantity the customer was told last, unless told it was gone |
| `BroadcastCampaignProofs` | `DispatcherKeepsAnnouncements` | `AnnouncementsKept` | the dispatcher implements `Announcements` |
| | `TypeCorrect` | `TypeOK` | types, and a task only for a recipient that is being sent to |
| | `DeliveredAtMostOnce` | `DeliveredOnce` | no recipient gets a campaign twice |
| | `OneCampaignActive` | `OneActive` | one active campaign |
| | `CompletedCampaignIsOver` | `CompletedIsOver` | a completed campaign has no open recipient |
| | `CancelledCampaignStops` | `CancelledForGood` | after a cancellation at most one batch goes out |
| `DispatchProofs`, Outbox | `OutboxImplementsMail` | `MailKept` | the outbox implements `Mail` |
| | `OutboxTypeCorrect` | `TypeOK` | types of the rows and of the batch |
| | `CopiesAreBounded` | `CopiesBounded` | one delivery more than the batches undone |
| | `ClosedRowsAreFinal` | `ClosedIsFinal` | a closed row is never reopened or sent again |
| | `NeverGivenUp` | | with more than one attempt allowed no row ever becomes failed |
| `DispatchProofs`, RestockDispatch | `RestockTypeCorrect` | `RestockTypeOK` | types of the rows, tasks and batches |
| | `AnsweredOnce` | `NotifiedOnce` | one message per subscription, and one more per fault |
| | `ClosedWhenTold` | `NotifiedHeard` | without a fault, closed as notified means told |
| | `RetriesBounded` | `AttemptsBounded` | no more attempts than allowed, and one more per fault |
| | `CancellationSticks` | `CancelSticks` | no task overwrites a cancellation |
| `StorefrontProofs` | `TypeCorrect` | `TypeOK` | balances are never negative, rows keep their shape |
| | `StockSoldOnce` | `SoldOnce` | a finite stock row is sold to one customer, once |
| | `CodesAreCounted` | `UsesCounted` | a code's counter is true and within its limit |
| | `DraftsPayForOne` | `DraftsPayOnce` | a draft pays for one order of its user |
| | `OrdersAreDelivered` | `OrdersDelivered` | as many rows as units paid for, none for a manual order |
| | `MoneyIsAudited` | `MoneyAudited` | a balance is explained by operations and cart rows |
| `ManualOrderProofs`, Fulfillment | `FulfillmentTypeCorrect` | `FulfillmentTypeOK` | jobs, notifications, conversations and texts keep their shape |
| | `OneConversation` | `OneTalk` | one active conversation at a time |
| | `RepliesFiledInTime` | `FiledInTime` | nothing sent after a completion is filed |
| | `JobsCompletedOnce` | `CompletedOnce` | one completion, one notice |
| `ManualOrderProofs`, IntakeDialog | `IntakeTypeCorrect` | `TypeOK` | drafts, orders and handlers keep their shape |
| | `StepsTellAnswers` | `StepTellsAnswers` | the step of a draft is the number of its answers |
| | `OrdersPaidForForm` | `PaidForForm` | the form paid for is the one the draft was begun with |
| | `DraftsPaidOnce` | `PaidOnce` | a draft is paid with at most one order |
| | `ClosedDraftsUnpaid` | `ClosedNeverPaid` | no draft that is not pending is paid |
| `AdministrationProofs`, Access | `AccessTypeCorrect` | `TypeOK` | roles, caches, dialogs and counters keep their types |
| | `NobodyGrows` | `NoEscalation` | nobody holds a permission nobody had at first and the panel never gave |
| | `BlockedNeverHeard` | `BlockedUnheard` | who is blocked is not heard |
| `AdministrationProofs`, Catalogue and Reviews | `CatalogueTypeCorrect` | `CatalogueTypeOK` | types, unique names, and no reference to a row that is gone |
| | `ImagesStay` | `ImageThere` | an image that a row names is there |
| | `ReviewsAsShown` | `SubmittedAsShown` | a review is submitted as it was shown |

Types come first in a proof module; the lemmas about one sum, one row or one task precede the theorem that
needs them.

## 8. Plan

1. `Alerts`: what restock alerts promise, as `Mail` and `Announcements` are for the other
   two loops, implemented by `RestockDispatch` up to its faults.
2. `Guards`: the rate limiter's window, bans and the circuit breaker of `CryptoPayAPI`,
   over a bounded clock.
3. Pure functions against reference definitions: promo discounts and their
   rounding, `currency_to_stars` and back.
4. `ReferralLocks`: the ledger's functions with their row locks and statements,
   shown to implement `ReferralLedger` step by step.

## 9. Not modelled, and why

* Amounts in `Payments`: every path of an invoice uses the same whole number, so
  that `credits` counts what the balance got. The conversions between stars, minor
  units and the store's currency are pure functions and are planned.
* In `Storefront`: category bindings of codes (checked like product bindings), the
  dialog that creates codes (they are constants), encryption of answers, and the retry
  on a clash of generated ids. In `Catalogue`: prices, texts, customer fields and
  display orders, and the rows of carts and drafts that also hold a product.
* In `Fulfillment`: the queue and the pages of the workspace, which only read, and the
  retry of a failed notification, which always fails before it writes.
* A deadlock victim, a lock timeout or a refused call is a rollback, hence a
  stutter. `SKIP LOCKED` passing over a row is a later poll.
* Order, profile, referral and statistics pages, lists, exports: they read and render.
* Half of what is left is text: `i18n/strings.py`, `i18n/registry.py`, keyboards,
  validators' messages. The other views of the panel are SQLAdmin's generic forms.
* The rate limiter, the replay check, the maintenance mode and the login limiter are
  windows in the memory of one process, each decision about one update alone.
* The legacy broadcast (`broadcast_system.py`) keeps no state outside one call.
* Start-up and migrations: the modelled state begins after them.
* Liveness is model-checked only: TLAPS has no proof rule here for fairness.
