----------------------------- MODULE RestockDispatch -----------------------------
(***************************************************************************)
(* The restock alerts of bot/misc/services/restock_dispatcher.py and       *)
(* bot/database/methods/restock_subscriptions.py.  A customer subscribes   *)
(* to a product that is sold out; a background loop claims the             *)
(* subscriptions of products that are back, and sends each customer one    *)
(* message from a task of its own.                                         *)
(*                                                                         *)
(* A step is one database transaction, one answer of Telegram or one turn  *)
(* of the loop: between them customers cancel, products sell out and the   *)
(* process may die.  Times are abstracted to whether they have come.       *)
(***************************************************************************)
EXTENDS Integers, FiniteSets

CONSTANTS
  Subs,         \* subscriptions, one per customer and product
  Items,        \* products
  ItemOf,       \* the product of each subscription
  Slots,        \* names for the asyncio tasks in flight, a bound on their number
  RestockBatchSize,  \* RESTOCK_BATCH_SIZE
  Concurrent,   \* RESTOCK_MAX_CONCURRENT_SENDS
  RestockMaxAttempts, \* RESTOCK_MAX_ATTEMPTS
  RestockMaxFaults, \* bound on crashes, database errors and lost answers
  NULL

ASSUME SubsAssumption ==
  /\ ItemOf \in [Subs -> Items]
  /\ IsFiniteSet(Subs) /\ IsFiniteSet(Slots)
ASSUME RestockLimitsAssumption ==
  /\ RestockBatchSize \in Nat \ {0} /\ Concurrent \in Nat \ {0}
  /\ RestockMaxAttempts \in Nat /\ RestockMaxFaults \in Nat

VARIABLES
  goods,       \* each product: missing, disabled or enabled
  stocked,     \* whether it has rows in item_values
  row,         \* product_restock_subscriptions
  cancelling,  \* subscriptions a cancellation has read and not yet written
  dispatcher,  \* where RestockDispatcher.run is
  tasks,       \* process_subscription, by slot
  gathering,   \* the tasks that process_batch gathers
  sent,        \* messages delivered for the current subscription
  mishaps      \* how often something went wrong

restockVars == <<goods, stocked, row, cancelling, dispatcher, tasks, gathering, sent, mishaps>>

Open == {"active", "processing"}

Row == [ status   : {"none", "notified", "failed", "cancelled"} \cup Open,
         due      : BOOLEAN,    \* next_attempt_at is NULL or past
         stale    : BOOLEAN,    \* processing_started_at is past the timeout
         attempts : Nat,
         created  : Nat ]       \* the order of created_at, 0 before it exists

Task == [ sub   : Subs,
          pc    : {"queued", "stock", "send", "mark", "return", "release", "fail"},
          tries : Nat,          \* the local variable attempts
          fresh : BOOLEAN ]     \* claimed for the current subscription

ASSUME NullAssumption == NULL \notin Task

RestockTypeOK ==
  /\ goods \in [Items -> {"missing", "disabled", "enabled"}]
  /\ stocked \in [Items -> BOOLEAN]
  /\ row \in [Subs -> Row]
  /\ \A s \in Subs : /\ row[s].stale => row[s].status = "processing"
                     /\ ~row[s].due => row[s].status = "active"
  /\ cancelling \subseteq Subs
  /\ dispatcher \in {"recover", "claim", "gather", "wait"}
  /\ tasks \in [Slots -> Task \cup {NULL}]
  /\ gathering \subseteq Slots
  /\ sent \in [Subs -> Nat]
  /\ mishaps \in 0..RestockMaxFaults

RestockInit ==
  /\ goods = [i \in Items |-> "enabled"]
  /\ stocked = [i \in Items |-> FALSE]
  /\ row = [s \in Subs |-> [status |-> "none", due |-> TRUE, stale |-> FALSE,
                            attempts |-> 0, created |-> 0]]
  /\ cancelling = {}
  /\ dispatcher = "recover"
  /\ tasks = [t \in Slots |-> NULL]
  /\ gathering = {}
  /\ sent = [s \in Subs |-> 0]
  /\ mishaps = 0

-------------------------------------------------------------------------------
(* Customers and administrators *)

\* The tasks still in flight were claimed for an earlier subscription.
Outdated(s) ==
  [t \in Slots |-> IF tasks[t] # NULL /\ tasks[t].sub = s
                   THEN [tasks[t] EXCEPT !.fresh = FALSE] ELSE tasks[t]]

\* subscribe_to_restock: the upsert leaves created_at as it was.
Subscribe(s) ==
  /\ goods[ItemOf[s]] # "missing"
  /\ ~stocked[ItemOf[s]]
  /\ row[s].status \notin Open
  /\ row' = [row EXCEPT ![s] =
       [status |-> "active", due |-> TRUE, stale |-> FALSE, attempts |-> 0,
        created |-> IF @.created > 0 THEN @.created
                    ELSE Cardinality({r \in Subs : row[r].created > 0}) + 1]]
  /\ tasks' = Outdated(s)
  /\ sent' = [sent EXCEPT ![s] = 0]
  /\ UNCHANGED <<goods, stocked, cancelling, dispatcher, gathering, mishaps>>

\* cancel_restock_subscription reads the row without a lock ...
ReadToCancel(s) ==
  /\ row[s].status \in Open
  /\ s \notin cancelling
  /\ cancelling' = cancelling \cup {s}
  /\ UNCHANGED <<goods, stocked, row, dispatcher, tasks, gathering, sent, mishaps>>

\* ... and writes it by its primary key, whatever became of it meanwhile.
WriteCancel(s) ==
  /\ s \in cancelling
  /\ cancelling' = cancelling \ {s}
  /\ row' = IF row[s].status = "none" THEN row
            ELSE [row EXCEPT ![s].status = "cancelled", ![s].due = TRUE,
                             ![s].stale = FALSE]
  /\ UNCHANGED <<goods, stocked, dispatcher, tasks, gathering, sent, mishaps>>

Restock(i) ==
  /\ goods[i] # "missing"
  /\ ~stocked[i]
  /\ stocked' = [stocked EXCEPT ![i] = TRUE]
  /\ UNCHANGED <<goods, row, cancelling, dispatcher, tasks, gathering, sent, mishaps>>

SellOut(i) ==
  /\ stocked[i]
  /\ stocked' = [stocked EXCEPT ![i] = FALSE]
  /\ UNCHANGED <<goods, row, cancelling, dispatcher, tasks, gathering, sent, mishaps>>

ToggleItem(i) ==
  /\ goods[i] # "missing"
  /\ goods' = [goods EXCEPT ![i] = IF @ = "enabled" THEN "disabled" ELSE "enabled"]
  /\ UNCHANGED <<stocked, row, cancelling, dispatcher, tasks, gathering, sent, mishaps>>

\* Deleting a product deletes its stock and its subscriptions.
DeleteItem(i) ==
  /\ goods[i] # "missing"
  /\ goods' = [goods EXCEPT ![i] = "missing"]
  /\ stocked' = [stocked EXCEPT ![i] = FALSE]
  /\ row' = [s \in Subs |-> IF ItemOf[s] = i
                            THEN [row[s] EXCEPT !.status = "none", !.due = TRUE,
                                                !.stale = FALSE]
                            ELSE row[s]]
  /\ UNCHANGED <<cancelling, dispatcher, tasks, gathering, sent, mishaps>>

-------------------------------------------------------------------------------
(* The loop: RestockDispatcher.run and process_batch *)

\* Fault: what a dead process had claimed is never looked at again.
NeverRecovered(s) == FALSE

Recoverable(s) == row[s].status = "processing" /\ row[s].stale

RecoverStale ==
  /\ dispatcher = "recover"
  /\ dispatcher' = "claim"
  /\ row' = [s \in Subs |-> IF Recoverable(s)
                            THEN [row[s] EXCEPT !.status = "active", !.due = TRUE,
                                                !.stale = FALSE]
                            ELSE row[s]]
  /\ UNCHANGED <<goods, stocked, cancelling, tasks, gathering, sent, mishaps>>

Ready(s) ==
  /\ row[s].status = "active"
  /\ row[s].due
  /\ goods[ItemOf[s]] = "enabled"
  /\ stocked[ItemOf[s]]

\* The RestockBatchSize oldest of the subscriptions that are ready.
Candidates ==
  {s \in Subs : Ready(s) /\
     Cardinality({r \in Subs : Ready(r) /\ row[r].created < row[s].created}) < RestockBatchSize}

FreeSlots == {t \in Slots : tasks[t] = NULL}

\* A slot of its own for each of the candidates.
SlotOf ==
  CHOOSE f \in [Candidates -> FreeSlots] : \A r, s \in Candidates : f[r] = f[s] => r = s

\* claim_ready_restock_subscriptions, and a task for each subscription claimed.
ClaimBatch ==
  /\ dispatcher = "claim"
  /\ Candidates # {}
  /\ Cardinality(Candidates) <= Cardinality(FreeSlots)
  /\ row' = [s \in Subs |-> IF s \in Candidates
                            THEN [row[s] EXCEPT !.status = "processing", !.stale = FALSE]
                            ELSE row[s]]
  /\ tasks' = [t \in Slots |->
       IF \E s \in Candidates : SlotOf[s] = t
       THEN LET s == CHOOSE s \in Candidates : SlotOf[s] = t
            IN  [sub |-> s, pc |-> "queued", tries |-> row[s].attempts, fresh |-> TRUE]
       ELSE tasks[t]]
  /\ gathering' = {SlotOf[s] : s \in Candidates}
  /\ dispatcher' = "gather"
  /\ UNCHANGED <<goods, stocked, cancelling, sent, mishaps>>

ClaimNothing ==
  /\ dispatcher = "claim"
  /\ Candidates = {}
  /\ dispatcher' = "wait"
  /\ UNCHANGED <<goods, stocked, row, cancelling, tasks, gathering, sent, mishaps>>

\* Fault: the tasks are started and not awaited.
NotAwaited == TRUE

Finished == \A t \in gathering : tasks[t] = NULL

\* A full batch is followed by another at once.
Gathered ==
  /\ dispatcher = "gather"
  /\ Finished
  /\ dispatcher' = IF Cardinality(gathering) < RestockBatchSize THEN "wait" ELSE "claim"
  /\ gathering' = {}
  /\ UNCHANGED <<goods, stocked, row, cancelling, tasks, sent, mishaps>>

\* The poll interval passes, or the arrival of stock wakes the loop up.
PollRestock ==
  /\ dispatcher = "wait"
  /\ dispatcher' = "recover"
  /\ UNCHANGED <<goods, stocked, row, cancelling, tasks, gathering, sent, mishaps>>

\* next_attempt_at comes.
ComeDue(s) ==
  /\ row[s].status = "active" /\ ~row[s].due
  /\ row' = [row EXCEPT ![s].due = TRUE]
  /\ UNCHANGED <<goods, stocked, cancelling, dispatcher, tasks, gathering, sent, mishaps>>

\* RESTOCK_STALE_TIMEOUT passes since the claim.
GrowStale(s) ==
  /\ row[s].status = "processing" /\ ~row[s].stale
  /\ row' = [row EXCEPT ![s].stale = TRUE]
  /\ UNCHANGED <<goods, stocked, cancelling, dispatcher, tasks, gathering, sent, mishaps>>

-------------------------------------------------------------------------------
(* A task: process_subscription *)

At(t, pc) == tasks[t] # NULL /\ tasks[t].pc = pc

Goto(t, pc) == tasks' = [tasks EXCEPT ![t].pc = pc]

Done(t) == tasks' = [tasks EXCEPT ![t] = NULL]

Exhausted(t) == tasks[t].tries >= RestockMaxAttempts

\* What an exception that is not final leads to.
Handler(t) == IF Exhausted(t) THEN "fail" ELSE "release"

\* A task waits for the semaphore, then reads its row and its product again.
Start(t) ==
  /\ At(t, "queued")
  /\ Cardinality({u \in Slots : tasks[u] # NULL /\ tasks[u].pc # "queued"}) < Concurrent
  /\ LET s == tasks[t].sub
     IN  IF row[s].status # "processing" THEN Done(t)
         ELSE tasks' = [tasks EXCEPT
                ![t].pc = IF goods[ItemOf[s]] = "enabled" THEN "stock" ELSE "return",
                ![t].tries = row[s].attempts]
  /\ UNCHANGED <<goods, stocked, row, cancelling, dispatcher, gathering, sent, mishaps>>

CheckStock(t) ==
  /\ At(t, "stock")
  /\ Goto(t, IF stocked[ItemOf[tasks[t].sub]] THEN "send" ELSE "return")
  /\ UNCHANGED <<goods, stocked, row, cancelling, dispatcher, gathering, sent, mishaps>>

\* The message goes out for the current subscription or for an earlier one.
Delivered(t) ==
  IF tasks[t].fresh THEN [sent EXCEPT ![tasks[t].sub] = @ + 1] ELSE sent

\* After the rate limiter: Telegram accepts the message, refuses it for good, or
\* fails in a way that is worth a retry.
SendAlert(t) ==
  /\ At(t, "send")
  /\ \/ Goto(t, "mark") /\ sent' = Delivered(t)
     \/ Goto(t, "fail") /\ UNCHANGED sent
     \/ Goto(t, Handler(t)) /\ UNCHANGED sent
  /\ UNCHANGED <<goods, stocked, row, cancelling, dispatcher, gathering, mishaps>>

\* Fault: the row is written whatever its status has become.
WrittenBlindly(t) == row[tasks[t].sub].status # "none"

\* WHERE status = 'processing': another task may have claimed it meanwhile.
StillClaimed(t) == row[tasks[t].sub].status = "processing"

\* Fault: a notified row keeps its processing_started_at.
StartKept(t) == [row[tasks[t].sub] EXCEPT !.status = "notified"]

Notified(t) == [row[tasks[t].sub] EXCEPT !.status = "notified", !.stale = FALSE]

\* mark_restock_notified, mark_restock_failed, return_restock_to_active and
\* release_restock_for_retry: the last transaction of a task.
Outcome(t) ==
  LET r == row[tasks[t].sub]
  IN  CASE tasks[t].pc = "mark"   -> Notified(t)
        [] tasks[t].pc = "fail"   -> [r EXCEPT !.status = "failed", !.stale = FALSE]
        [] tasks[t].pc = "return" -> [r EXCEPT !.status = "active", !.stale = FALSE]
        [] OTHER -> [r EXCEPT !.status = "active", !.stale = FALSE, !.due = FALSE,
                              !.attempts = @ + 1]

Write(t) ==
  /\ tasks[t] # NULL
  /\ tasks[t].pc \in {"mark", "fail", "return", "release"}
  /\ row' = IF StillClaimed(t)
            THEN [row EXCEPT ![tasks[t].sub] = Outcome(t)] ELSE row
  /\ Done(t)
  /\ UNCHANGED <<goods, stocked, cancelling, dispatcher, gathering, sent, mishaps>>

-------------------------------------------------------------------------------
(* What goes wrong *)

Blame == mishaps < RestockMaxFaults /\ mishaps' = mishaps + 1

\* The message arrives and its answer does not: a TelegramNetworkError.
LoseAnswer(t) ==
  /\ At(t, "send")
  /\ Blame
  /\ sent' = Delivered(t)
  /\ Goto(t, Handler(t))
  /\ UNCHANGED <<goods, stocked, row, cancelling, dispatcher, gathering>>

\* A transaction fails inside the try block.
FailInside(t) ==
  /\ tasks[t] # NULL
  /\ tasks[t].pc \in {"stock", "mark", "return"}
  /\ Blame
  /\ Goto(t, Handler(t))
  /\ UNCHANGED <<goods, stocked, row, cancelling, dispatcher, gathering, sent>>

\* A transaction fails inside an except clause: the task raises, the loop stops
\* waiting for its batch, and the other tasks go on.
FailInHandler(t) ==
  /\ tasks[t] # NULL
  /\ tasks[t].pc \in {"fail", "release"}
  /\ Blame
  /\ Done(t)
  /\ dispatcher' = IF t \in gathering THEN "wait" ELSE dispatcher
  /\ gathering' = IF t \in gathering THEN {} ELSE gathering
  /\ UNCHANGED <<goods, stocked, row, cancelling, sent>>

\* A transaction of the loop itself fails.
FailLoop ==
  /\ dispatcher \in {"recover", "claim"}
  /\ Blame
  /\ dispatcher' = "wait"
  /\ UNCHANGED <<goods, stocked, row, cancelling, tasks, gathering, sent>>

\* The process stops and starts again: what it had not written is lost.
Crash ==
  /\ Blame
  /\ tasks' = [t \in Slots |-> NULL]
  /\ gathering' = {}
  /\ cancelling' = {}
  /\ dispatcher' = "recover"
  /\ UNCHANGED <<goods, stocked, row, sent>>

-------------------------------------------------------------------------------
TaskStep(t) == Start(t) \/ CheckStock(t) \/ SendAlert(t) \/ Write(t)

LoopStep == RecoverStale \/ ClaimBatch \/ ClaimNothing \/ Gathered \/ PollRestock

RestockNext ==
  \/ \E s \in Subs : Subscribe(s) \/ ReadToCancel(s) \/ WriteCancel(s)
  \/ \E i \in Items : Restock(i) \/ SellOut(i) \/ ToggleItem(i) \/ DeleteItem(i)
  \/ LoopStep
  \/ \E s \in Subs : ComeDue(s) \/ GrowStale(s)
  \/ \E t \in Slots : TaskStep(t)
  \/ \E t \in Slots : LoseAnswer(t) \/ FailInside(t) \/ FailInHandler(t)
  \/ FailLoop \/ Crash

\* The event loop runs every task that can go on, and clocks do not stop.
RestockFairness ==
  /\ WF_restockVars(LoopStep)
  /\ \A t \in Slots : WF_restockVars(TaskStep(t))
  /\ \A s \in Subs : WF_restockVars(ComeDue(s)) /\ WF_restockVars(GrowStale(s))

RestockSpec == RestockInit /\ [][RestockNext]_restockVars /\ RestockFairness

-------------------------------------------------------------------------------
(* Properties *)

\* A subscription is answered with one message; every further one is paid for by
\* a crash, a database error or a lost answer.
NotifiedOnce == \A s \in Subs : sent[s] <= 1 + mishaps

\* A row is not closed as notified unless its customer was told, as long as
\* nothing went wrong.
NotifiedHeard ==
  \A s \in Subs : row[s].status = "notified" /\ mishaps = 0 => sent[s] = 1

\* No subscription is retried more often than RESTOCK_MAX_ATTEMPTS.  Only a task
\* that has outlived its batch, which takes an error in an except clause, can
\* count an attempt twice.
AttemptsBounded == \A s \in Subs : row[s].attempts <= RestockMaxAttempts + mishaps

\* A cancelled subscription stays cancelled, whatever tasks are in flight, until
\* its customer subscribes again.
CancelSticks ==
  [][\A s \in Subs : row[s].status = "cancelled" =>
       \/ row'[s].status \in {"cancelled", "none"}
       \/ Subscribe(s)]_restockVars

\* A customer of a product that is back for good is eventually told or given up.
Available(s) == goods[ItemOf[s]] = "enabled" /\ stocked[ItemOf[s]]

EventuallyServed ==
  \A s \in Subs : <>[]Available(s) => <>[](row[s].status \notin Open)

===============================================================================
