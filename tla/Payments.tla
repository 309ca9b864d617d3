------------------------------ MODULE Payments ------------------------------
(***************************************************************************)
(* Top-ups of a balance.  A CryptoPay invoice is created at the provider,  *)
(* registered as a pending payment and offered to the user, in three       *)
(* steps; it is credited by whichever comes first of the user's check (run *)
(* as many times as the button is tapped) and the recovery loop.  A        *)
(* Telegram payment (Stars or fiat) has no pending row: the update that    *)
(* announces it is the only trace of it, and Telegram repeats the update   *)
(* until it is confirmed.  Every credit goes through                       *)
(* process_payment_with_referral.                                          *)
(***************************************************************************)
EXTENDS Naturals, FiniteSets

CONSTANTS
    Invoices,   \* CryptoPay invoices, each of a user of its own
    Charges,    \* payments made inside Telegram, by their charge id
    Tasks,      \* handler calls that may run at the same time
    MaxFaults,  \* bound: failing calls, failing transactions and restarts
    NoOne       \* the invoice of an idle task

ASSUME IdsAssumption == Invoices \cap Charges = {} /\ NoOne \notin Invoices \cup Charges
ASSUME FaultsAssumption == MaxFaults \in Nat

Ids == Invoices \cup Charges

VARIABLES
    invoice,    \* the provider's side of each invoice
    charge,     \* Telegram's side of each charge and of the update about it
    row,        \* the status of each payment's row, "none" if there is none
    age,        \* how long ago each invoice's row was created
    credits,    \* how many times each payment was added to a balance
    shown,      \* the invoices whose link the user was given
    remembered, \* the invoices whose id is in the chat's state
    task,       \* what each handler call is about to do
    sweep,      \* the recovery loop: the rows it read, the one it is at
    cleanup,    \* the nightly transaction
    faults

vars == <<invoice, charge, row, age, credits, shown, remembered, task, sweep, cleanup, faults>>

Unpaid == {"pending", "failed"}
Idle == [at |-> "idle", id |-> NoOne]
Asleep == [at |-> "asleep", id |-> NoOne, todo |-> {}]

TypeOK ==
    /\ invoice \in [Invoices -> {"none", "active", "paid", "expired"}]
    /\ charge \in [Charges -> {"none", "sent", "received", "confirmed"}]
    /\ row \in [Ids -> {"none", "succeeded"} \cup Unpaid]
    /\ age \in [Invoices -> {"fresh", "stuck", "old"}]
    /\ credits \in [Ids -> Nat]
    /\ shown \subseteq Invoices
    /\ remembered \subseteq shown
    /\ task \in [Tasks -> {Idle} \cup [at : {"credit"}, id : Ids]
                \cup [at : {"register", "offer", "ask", "clear"}, id : Invoices]]
    /\ sweep \in {Asleep} \cup [at : {"pick"}, id : {NoOne}, todo : SUBSET Invoices]
                \cup [at : {"ask", "credit", "fail"}, id : Invoices, todo : SUBSET Invoices]
    /\ cleanup \in {"asleep", "deleting"}
    /\ faults \in 0..MaxFaults

Init ==
    /\ invoice = [i \in Invoices |-> "none"]
    /\ charge = [c \in Charges |-> "none"]
    /\ row = [p \in Ids |-> "none"]
    /\ age = [i \in Invoices |-> "fresh"]
    /\ credits = [p \in Ids |-> 0]
    /\ shown = {}
    /\ remembered = {}
    /\ task = [t \in Tasks |-> Idle]
    /\ sweep = Asleep
    /\ cleanup = "asleep"
    /\ faults = 0

-----------------------------------------------------------------------------
(* process_payment_with_referral, one transaction: the row is read FOR     *)
(* UPDATE, and where there is none the unique key of (provider,            *)
(* external_id) lets one of two concurrent inserts through.                *)

\* Fault: the status of the row is not looked at.
CreditableAgain(p) == p \in Ids

Creditable(p) == row[p] # "succeeded"

ProcessPayment(p) ==
    /\ Creditable(p)
    /\ row' = [row EXCEPT ![p] = "succeeded"]
    /\ credits' = [credits EXCEPT ![p] = @ + 1]

AlreadyProcessed(p) ==
    /\ ~ Creditable(p)
    /\ UNCHANGED <<row, credits>>

-----------------------------------------------------------------------------
(* The provider: an active invoice is paid or expires, for good. *)

Pay(i) ==
    /\ invoice[i] = "active"
    /\ i \in shown
    /\ invoice' = [invoice EXCEPT ![i] = "paid"]
    /\ UNCHANGED <<charge, row, age, credits, shown, remembered, task, sweep, cleanup, faults>>

Expire(i) ==
    /\ invoice[i] = "active"
    /\ invoice' = [invoice EXCEPT ![i] = "expired"]
    /\ UNCHANGED <<charge, row, age, credits, shown, remembered, task, sweep, cleanup, faults>>

(* Telegram: a charge is paid, its update is repeated until it is confirmed. *)
PayCharge(c) ==
    /\ charge[c] = "none"
    /\ charge' = [charge EXCEPT ![c] = "sent"]
    /\ UNCHANGED <<invoice, row, age, credits, shown, remembered, task, sweep, cleanup, faults>>

Confirm(c) ==
    /\ charge[c] = "received"
    /\ charge' = [charge EXCEPT ![c] = "confirmed"]
    /\ UNCHANGED <<invoice, row, age, credits, shown, remembered, task, sweep, cleanup, faults>>

(* Time: a row becomes an hour old, then older than the retention period.  *)
(* Only pending and failed rows are ever asked for their age.              *)
Grow(i) ==
    /\ row[i] \in Unpaid
    /\ age[i] # "old"
    /\ age' = [age EXCEPT ![i] = IF @ = "fresh" THEN "stuck" ELSE "old"]
    /\ UNCHANGED <<invoice, charge, row, credits, shown, remembered, task, sweep, cleanup, faults>>

-----------------------------------------------------------------------------
(* The handlers.  Each step ends at an await. *)

Goes(t, at, p) == task' = [task EXCEPT ![t] = [at |-> at, id |-> p]]
Ends(t) == task' = [task EXCEPT ![t] = Idle]

\* Fault: the button is shown before the row is committed.
OfferUnregistered(t, i) ==
    /\ task[t].at = "idle"
    /\ invoice[i] = "none"
    /\ invoice' = [invoice EXCEPT ![i] = "active"]
    /\ shown' = shown \cup {i}
    /\ remembered' = remembered \cup {i}
    /\ Goes(t, "register", i)
    /\ UNCHANGED <<charge, row, age, credits, sweep, cleanup, faults>>

(* process_replenish_balance: the invoice, then its row, then the button. *)
CreateInvoice(t, i) ==
    /\ task[t].at = "idle"
    /\ invoice[i] = "none"
    /\ invoice' = [invoice EXCEPT ![i] = "active"]
    /\ Goes(t, "register", i)
    /\ UNCHANGED <<charge, row, age, credits, shown, remembered, sweep, cleanup, faults>>

CreatePendingPayment(t) ==
    /\ task[t].at = "register"
    /\ row' = [row EXCEPT ![task[t].id] = "pending"]
    /\ Goes(t, "offer", task[t].id)
    /\ UNCHANGED <<invoice, charge, age, credits, shown, remembered, sweep, cleanup, faults>>

Offer(t) ==
    /\ task[t].at = "offer"
    /\ shown' = shown \cup {task[t].id}
    /\ remembered' = remembered \cup {task[t].id}
    /\ Ends(t)
    /\ UNCHANGED <<invoice, charge, row, age, credits, sweep, cleanup, faults>>

(* Another handler clears the chat's state, or a newer invoice replaces it. *)
Forget(i) ==
    /\ i \in remembered
    /\ remembered' = remembered \ {i}
    /\ UNCHANGED <<invoice, charge, row, age, credits, shown, task, sweep, cleanup, faults>>

(* checking_payment *)
Check(t, i) ==
    /\ task[t].at = "idle"
    /\ i \in remembered
    /\ Goes(t, "ask", i)
    /\ UNCHANGED <<invoice, charge, row, age, credits, shown, remembered, sweep, cleanup, faults>>

\* Fault: an expired invoice counts as paid.
PaidUnlessActive(status) == status # "active"

IsPaid(status) == status = "paid"

GetInvoice(t) ==
    /\ task[t].at = "ask"
    /\ IF IsPaid(invoice[task[t].id]) THEN Goes(t, "credit", task[t].id) ELSE Ends(t)
    /\ UNCHANGED <<invoice, charge, row, age, credits, shown, remembered, sweep, cleanup, faults>>

(* successful_payment_handler *)
Deliver(t, c) ==
    /\ task[t].at = "idle"
    /\ charge[c] \in {"sent", "received"}
    /\ charge' = [charge EXCEPT ![c] = "received"]
    /\ Goes(t, "credit", c)
    /\ UNCHANGED <<invoice, row, age, credits, shown, remembered, sweep, cleanup, faults>>

(* checking_payment clears the chat's state after a fresh credit. *)
\* Fault: so does the handler of the charges.
ClearsAlways(t) == Goes(t, "clear", task[t].id)

Credited(t) == IF task[t].id \in Invoices THEN Goes(t, "clear", task[t].id) ELSE Ends(t)

Credit(t) ==
    /\ task[t].at = "credit"
    /\ \/ ProcessPayment(task[t].id) /\ Credited(t)
       \/ AlreadyProcessed(task[t].id) /\ Ends(t)
    /\ UNCHANGED <<invoice, charge, age, shown, remembered, sweep, cleanup, faults>>

ClearState(t) ==
    /\ task[t].at = "clear"
    /\ remembered' = remembered \ {task[t].id}
    /\ Ends(t)
    /\ UNCHANGED <<invoice, charge, row, age, credits, shown, sweep, cleanup, faults>>

-----------------------------------------------------------------------------
(* The recovery loop.  It reads the rows, closes the session, then asks    *)
(* the provider about one row after the other.                             *)

Stuck(i) == row[i] = "pending" /\ age[i] # "fresh"

ReadStuck ==
    /\ sweep.at = "asleep"
    /\ \E i \in Invoices : Stuck(i)
    /\ sweep' = [at |-> "pick", id |-> NoOne, todo |-> {i \in Invoices : Stuck(i)}]
    /\ UNCHANGED <<invoice, charge, row, age, credits, shown, remembered, task, cleanup, faults>>

SweepTo(at) == sweep' = [at |-> at, id |-> sweep.id, todo |-> sweep.todo]
SweepOn == sweep' = [at |-> "pick", id |-> NoOne, todo |-> sweep.todo]

Pick ==
    /\ sweep.at = "pick"
    /\ \/ \E i \in sweep.todo :
             sweep' = [at |-> "ask", id |-> i, todo |-> sweep.todo \ {i}]
       \/ sweep.todo = {} /\ sweep' = Asleep
    /\ UNCHANGED <<invoice, charge, row, age, credits, shown, remembered, task, cleanup, faults>>

\* Fault: an invoice that may still be paid is given up.
GivenUpUnlessPaid(status) == status # "paid"

GivenUp(status) == status = "expired"

AskProvider ==
    /\ sweep.at = "ask"
    /\ \/ IsPaid(invoice[sweep.id]) /\ SweepTo("credit")
       \/ GivenUp(invoice[sweep.id]) /\ SweepTo("fail")
       \/ ~ IsPaid(invoice[sweep.id]) /\ ~ GivenUp(invoice[sweep.id]) /\ SweepOn
    /\ UNCHANGED <<invoice, charge, row, age, credits, shown, remembered, task, cleanup, faults>>

Recover ==
    /\ sweep.at = "credit"
    /\ ProcessPayment(sweep.id) \/ AlreadyProcessed(sweep.id)
    /\ SweepOn
    /\ UNCHANGED <<invoice, charge, age, shown, remembered, task, cleanup, faults>>

(* _mark_payment_failed updates the row by its id, whatever its status is by now. *)
MarkPaymentFailed ==
    /\ sweep.at = "fail"
    /\ row' = [row EXCEPT ![sweep.id] = "failed"]
    /\ SweepOn
    /\ UNCHANGED <<invoice, charge, age, credits, shown, remembered, task, cleanup, faults>>

-----------------------------------------------------------------------------
(* The nightly cleanup deletes old unpaid rows, then builds its third      *)
(* statement with a name the module does not import: the session rolls     *)
(* back.  Until then the deletions are visible to nobody else.             *)

Expendable(i) == row[i] \in Unpaid /\ age[i] = "old"

StartCleanup ==
    /\ cleanup = "asleep"
    /\ \E i \in Invoices : Expendable(i)
    /\ cleanup' = "deleting"
    /\ UNCHANGED <<invoice, charge, row, age, credits, shown, remembered, task, sweep, faults>>

CleanupRaises ==
    /\ cleanup = "deleting"
    /\ cleanup' = "asleep"
    /\ UNCHANGED <<invoice, charge, row, age, credits, shown, remembered, task, sweep, faults>>

-----------------------------------------------------------------------------
(* Faults: a provider call or a transaction raises and its caller gives    *)
(* up; the process restarts, and with it goes chat state kept in memory.   *)

Fault == faults < MaxFaults /\ faults' = faults + 1

TaskFails(t) ==
    /\ task[t].at # "idle"
    /\ Fault
    /\ Ends(t)
    /\ UNCHANGED <<invoice, charge, row, age, credits, shown, remembered, sweep, cleanup>>

SweepFails ==
    /\ sweep.at \in {"ask", "credit", "fail"}
    /\ Fault
    /\ SweepOn
    /\ UNCHANGED <<invoice, charge, row, age, credits, shown, remembered, task, cleanup>>

Restart ==
    /\ Fault
    /\ task' = [t \in Tasks |-> Idle]
    /\ sweep' = Asleep
    /\ cleanup' = "asleep"
    /\ remembered' \in {remembered, {}}
    /\ UNCHANGED <<invoice, charge, row, age, credits, shown>>

-----------------------------------------------------------------------------
HandlerStep(t) ==
    \/ \E i \in Invoices : CreateInvoice(t, i) \/ Check(t, i)
    \/ \E c \in Charges : Deliver(t, c)
    \/ CreatePendingPayment(t) \/ Offer(t) \/ GetInvoice(t) \/ Credit(t) \/ ClearState(t)
    \/ TaskFails(t)

Outside ==
    \/ \E i \in Invoices : Pay(i) \/ Expire(i) \/ Grow(i) \/ Forget(i)
    \/ \E c \in Charges : PayCharge(c) \/ Confirm(c)

Sweep == ReadStuck \/ Pick \/ AskProvider \/ Recover \/ MarkPaymentFailed

Next ==
    \/ \E t \in Tasks : HandlerStep(t)
    \/ Outside
    \/ Sweep \/ SweepFails
    \/ StartCleanup \/ CleanupRaises
    \/ Restart

(* Time passes, the recovery loop runs every five minutes and the cleanup  *)
(* every night; no user has to tap anything and nobody has to pay.         *)
Fairness ==
    /\ \A i \in Invoices : WF_vars(Grow(i))
    /\ WF_vars(Sweep)
    /\ WF_vars(StartCleanup) /\ WF_vars(CleanupRaises)

Spec == Init /\ [][Next]_vars /\ Fairness

-----------------------------------------------------------------------------
(* However many taps, deliveries and sweeps race, and whatever fails or    *)
(* restarts in between, a payment is added to a balance at most once.      *)
CreditedOnce == \A p \in Ids : credits[p] <= 1

(* The rows tell the truth about the balances: a payment is marked         *)
(* succeeded exactly if it was credited.  The recovery loop's unguarded    *)
(* write of "failed", based on an answer read earlier, never covers a      *)
(* credit: a row covered that way would be credited a second time.         *)
RowsTellCredits == \A p \in Ids : row[p] = "succeeded" <=> credits[p] > 0

(* No balance grows without money received: a credited invoice is paid at  *)
(* the provider, a credited charge was announced by Telegram.              *)
CreditedForMoney ==
    /\ \A i \in Invoices : credits[i] > 0 => invoice[i] = "paid"
    /\ \A c \in Charges : credits[c] > 0 => charge[c] # "none"

(* An invoice that is paid is credited in the end, even if the user never  *)
(* taps the button and whatever fails on the way: its row is committed     *)
(* before its link is shown, so the recovery loop finds it.                *)
PaidIsCredited == \A i \in Invoices : invoice[i] = "paid" ~> credits[i] = 1

(* The README's "automatic deletion of old pending/failed payments"        *)
(* (README.md:147): an old unpaid row is deleted or paid in the end.       *)
OldRowsGo == \A i \in Invoices : Expendable(i) ~> ~ Expendable(i)
=============================================================================
