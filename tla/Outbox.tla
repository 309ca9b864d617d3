--------------------------------- MODULE Outbox ---------------------------------
(***************************************************************************)
(* The notifications of manual orders: bot/misc/services/                  *)
(* outbox_dispatcher.py, whose loop reads a batch, sends it one by one and *)
(* commits once at the end.                                                *)
(*                                                                         *)
(* A step is one transaction of an administrator, the read of a batch, one *)
(* answer of Telegram, or the batch's commit or rollback.  Until then what *)
(* the dispatcher knows of the batch is in memory only.                    *)
(***************************************************************************)
EXTENDS Integers, FiniteSets

CONSTANTS
  Notes,        \* manual_order_notifications
  BatchSize,    \* 50
  MaxAttempts,  \* 3
  MaxErrors,    \* bound on the sends that raise
  MaxFaults     \* bound on crashes and failed commits

ASSUME NotesAssumption == IsFiniteSet(Notes)
ASSUME LimitsAssumption ==
  /\ BatchSize \in Nat \ {0}
  /\ MaxAttempts \in Nat \ {0}
  /\ MaxErrors \in Nat
  /\ MaxFaults \in Nat

VARIABLES
  status,     \* status of each row, none before it exists
  attempts,   \* attempts of each row
  batch,      \* the rows read and not yet sent
  result,     \* what the batch holds in memory of a row, none before its send
  loop,       \* where _poll_outbox is
  delivered,  \* how often each notification reached its customer
  refused,    \* how often its send raised
  undone,     \* how many batches were rolled back
  faults      \* faults so far

vars == <<status, attempts, batch, result, loop, delivered, refused, undone, faults>>

TypeOK ==
  /\ status \in [Notes -> {"none", "pending", "sent", "failed"}]
  /\ attempts \in [Notes -> Nat]
  /\ batch \subseteq {n \in Notes : status[n] = "pending"}
  /\ result \in [Notes -> {"none", "sent", "failed"}]
  /\ \A n \in Notes : result[n] # "none" => status[n] = "pending" /\ n \notin batch
  /\ loop \in {"poll", "batch", "wait"}
  /\ loop # "batch" => batch = {} /\ \A n \in Notes : result[n] = "none"
  /\ delivered \in [Notes -> Nat]
  /\ refused \in [Notes -> Nat]
  /\ undone \in Nat
  /\ faults \in 0..MaxFaults

Nothing == [n \in Notes |-> "none"]

Init ==
  /\ status = Nothing
  /\ attempts = [n \in Notes |-> 0]
  /\ batch = {}
  /\ result = Nothing
  /\ loop = "poll"
  /\ delivered = [n \in Notes |-> 0]
  /\ refused = [n \in Notes |-> 0]
  /\ undone = 0
  /\ faults = 0

-------------------------------------------------------------------------------
(* The administrator: a message, a request for verification, a completion *)

Enqueue(n) ==
  /\ status[n] = "none"
  /\ status' = [status EXCEPT ![n] = "pending"]
  /\ UNCHANGED <<attempts, batch, result, loop, delivered, refused, undone, faults>>

-------------------------------------------------------------------------------
(* The loop *)

\* Fault: what was sent stays eligible.
NotFailed == {n \in Notes : status[n] \in {"pending", "sent"}}

\* Fault: what raised once is not tried again.
NeverRefused == {n \in Notes : status[n] = "pending" /\ refused[n] = 0}

\* next_attempt_at is never set (see Refuse), so that every pending row is due.
Pending == {n \in Notes : status[n] = "pending"}

\* At most BatchSize of the pending rows, whichever the database returns.
ReadBatch ==
  /\ loop = "poll"
  /\ \E B \in SUBSET Pending :
       /\ B # {}
       /\ Cardinality(B) <= BatchSize
       /\ Cardinality(B) < BatchSize => B = Pending
       /\ batch' = B
  /\ loop' = "batch"
  /\ UNCHANGED <<status, attempts, result, delivered, refused, undone, faults>>

NothingPending ==
  /\ loop = "poll"
  /\ Pending = {}
  /\ loop' = "wait"
  /\ UNCHANGED <<status, attempts, batch, result, delivered, refused, undone, faults>>

Send(n) ==
  /\ n \in batch
  /\ delivered' = [delivered EXCEPT ![n] = @ + 1]
  /\ result' = [result EXCEPT ![n] = "sent"]
  /\ batch' = batch \ {n}
  /\ UNCHANGED <<status, attempts, loop, refused, undone, faults>>

\* Fault: the rows are marked as sent when they are read.
MarkedWhenRead ==
  [n \in Notes |-> IF n \in batch \/ result[n] # "none" THEN "sent" ELSE status[n]]

\* The session rolls back: the database keeps nothing of the batch.
Undone == status

RollBack ==
  /\ status' = Undone
  /\ batch' = {}
  /\ result' = Nothing
  /\ undone' = undone + 1

\* A send raises, with the message delivered (its answer was lost) or not.  The third
\* error gives the row up.  Before it the handler of the error computes the next
\* attempt with sqlalchemy.Interval, a name the module does not import: the NameError
\* leaves the loop over the batch, and the count goes with the rest.
Refuse(n) ==
  /\ n \in batch
  /\ refused[n] < MaxErrors
  /\ refused' = [refused EXCEPT ![n] = @ + 1]
  /\ delivered' = delivered \/ delivered' = [delivered EXCEPT ![n] = @ + 1]
  /\ IF attempts[n] + 1 >= MaxAttempts
     THEN /\ result' = [result EXCEPT ![n] = "failed"]
          /\ batch' = batch \ {n}
          /\ UNCHANGED <<status, loop, undone>>
     ELSE RollBack /\ loop' = "wait"
  /\ UNCHANGED <<attempts, faults>>

Commit ==
  /\ loop = "batch"
  /\ batch = {}
  /\ status' = [n \in Notes |-> IF result[n] = "none" THEN status[n] ELSE result[n]]
  /\ attempts' = [n \in Notes |-> IF result[n] = "failed" THEN attempts[n] + 1
                                  ELSE attempts[n]]
  /\ result' = Nothing
  /\ loop' = "wait"
  /\ UNCHANGED <<batch, delivered, refused, undone, faults>>

\* The polling interval passes, or wake_up is called.
Poll ==
  /\ loop = "wait"
  /\ loop' = "poll"
  /\ UNCHANGED <<status, attempts, batch, result, delivered, refused, undone, faults>>

\* The process dies, or the commit fails.
Fail ==
  /\ loop = "batch"
  /\ faults < MaxFaults
  /\ faults' = faults + 1
  /\ RollBack
  /\ \/ loop' = "poll"
     \/ batch = {} /\ loop' = "wait"
  /\ UNCHANGED <<attempts, delivered, refused>>

-------------------------------------------------------------------------------
Dispatch ==
  \/ ReadBatch \/ NothingPending \/ Commit \/ Poll
  \/ \E n \in Notes : Send(n)

Next == Dispatch \/ (\E n \in Notes : Enqueue(n) \/ Refuse(n)) \/ Fail

\* The task of the loop is never blocked for good.
Fairness == WF_vars(Dispatch)

Spec == Init /\ [][Next]_vars /\ Fairness

-------------------------------------------------------------------------------
(* Properties *)

\* A row is sent only if its customer got the message, and every further copy of it
\* was paid for by the rollback of a batch.
CopiesBounded ==
  \A n \in Notes :
    /\ status[n] = "sent" => delivered[n] >= 1
    /\ delivered[n] <= 1 + undone

\* Once the database holds a row as sent or failed, its customer hears no more of it.
ClosedKept ==
  \A n \in Notes : status[n] \in {"sent", "failed"} =>
    status'[n] = status[n] /\ delivered'[n] = delivered[n]

ClosedIsFinal == [][ClosedKept]_vars

Promise == INSTANCE Mail WITH copies <- delivered

\* Batches, rollbacks and crashes stay inside: for the code that queues notifications the
\* outbox behaves as Mail does.
MailKept == Promise!MailSpec

\* As long as its sends do not raise for ever, a notification reaches its end, past
\* batches that other notifications or crashes undo.
EventuallyClosed ==
  \A n \in Notes : status[n] = "pending" ~> status[n] \in {"sent", "failed"}

\* "Exponential backoff: 30s, 120s" (outbox_dispatcher.py:86): a notification whose
\* sends raise is given up at the third.
GivenUpAtLast == \A n \in Notes : refused[n] <= MaxAttempts

===============================================================================
