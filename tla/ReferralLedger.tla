---------------------------- MODULE ReferralLedger ----------------------------
(***************************************************************************)
(* The referral ledger of bot/database/methods/referrals.py: a purchase by *)
(* a referred buyer earns its referrer a commission that is held, then     *)
(* released by a worker, then converted to store balance; an administrator *)
(* may credit or debit a referrer, and a refunded order reverses what it   *)
(* earned, as a debt when the money has already been spent.                *)
(*                                                                         *)
(* Every operation below is one database transaction that locks the user   *)
(* row (or, for the worker and the hold, the earning rows) before it reads *)
(* what it changes, so each is one step.  A call that the code refuses     *)
(* rolls back and is a stutter.  Money is in cents, time in ticks.         *)
(***************************************************************************)
EXTENDS Integers, Sequences, FiniteSets, RunningTotals

CONSTANTS
  Users,            \* telegram ids
  Referrer,         \* users.referral_id: Referrer[u] is a user or NULL
  NULL,             \* SQL NULL
  InitialBalance,   \* the balance each user starts with
  Totals,           \* totals an order may come to
  Rates,            \* StoreSettings.referral_percent, in hundredths of a percent
  HoldTime,         \* REFERRAL_HOLD_HOURS
  BatchSize,        \* REFERRAL_WORKER_BATCH_SIZE
  Adjustments,      \* amounts an administrator may enter
  Keys,             \* idempotency keys the adjustment form may submit
  MaxOrders,        \* bound on the number of purchases
  MaxTime           \* bound on the clock

ASSUME UsersAssumption ==
  /\ NULL \notin Users /\ NULL \notin Keys /\ NULL \notin Int
  /\ Referrer \in [Users -> Users \cup {NULL}]
  /\ InitialBalance \in [Users -> Nat]
ASSUME AmountsAssumption ==
  /\ Totals \subseteq Nat
  /\ Rates \subseteq Int
  /\ Adjustments \subseteq Int
ASSUME LimitsAssumption ==
  /\ HoldTime \in Nat
  /\ BatchSize \in Nat \ {0}
  /\ MaxOrders \in Nat
  /\ MaxTime \in Nat

VARIABLES
  clock,         \* the time the code reads with datetime.now
  balance,       \* users.balance
  debt,          \* users.referral_debt
  operations,    \* per user, the sum of its rows in operations
  orders,        \* number of purchases made
  earnings,      \* referral_earnings, the row with id i at index i
  conversions    \* referral_conversions, the row with id i at index i

vars == <<clock, balance, debt, operations, orders, earnings, conversions>>

Statuses == {"pending", "available", "converted", "applied", "reversed"}

Earning ==
  [ type       : {"order_purchase", "manual_adjustment", "compensating_reversal"},
    referrer   : Users,
    status     : Statuses,
    amount     : Int,
    fulfilled  : Nat \cup {NULL},    \* order_items.completed_at of its source
    ready      : Nat \cup {NULL},    \* ready_at
    recovered  : Nat,                \* balance_recovered, 0 for NULL
    owed       : Nat,                \* debt_added, 0 for NULL
    conversion : Nat,                \* conversion_id, 0 for NULL
    reversal   : Nat,                \* reversal_of_id, 0 for NULL
    key        : Keys \cup {NULL} ]  \* idempotency_key

Conversion == [user : Users, gross : Nat, offset : Nat, credit : Nat]

Ids == DOMAIN earnings

TypeOK ==
  /\ clock \in Nat
  /\ balance \in [Users -> Nat]
  /\ debt \in [Users -> Nat]
  /\ operations \in [Users -> Int]
  /\ orders \in Nat
  /\ earnings \in Seq(Earning)
  /\ conversions \in Seq(Conversion)

Init ==
  /\ clock = 0
  /\ balance = InitialBalance
  /\ debt = [u \in Users |-> 0]
  /\ operations = [u \in Users |-> 0]
  /\ orders = 0
  /\ earnings = << >>
  /\ conversions = << >>

-------------------------------------------------------------------------------
(* Amounts *)

Lesser(a, b) == IF a <= b THEN a ELSE b

\* get_referral_rate: the stored rate, clamped to 0..100 percent.
ReferralRate(stored) ==
  IF stored < 0 THEN 0 ELSE Lesser(stored, 10000)

\* _money(base_amount * rate / 100): rounded half up to the cent.
Commission(total, stored) == (total * ReferralRate(stored) + 5000) \div 10000

-------------------------------------------------------------------------------
(* Purchases *)

NewEarning(type, u, status, amount, ready) ==
  [ type |-> type, referrer |-> u, status |-> status, amount |-> amount,
    fulfilled |-> NULL, ready |-> ready, recovered |-> 0, owed |-> 0,
    conversion |-> 0, reversal |-> 0, key |-> NULL ]

\* create_purchase_referral_earning: does a purchase by b earn anything.
Earns(b, total, stored) ==
  /\ Referrer[b] \notin {NULL, b}
  /\ Commission(total, stored) > 0

\* Fault: the hold of a manual order starts when it is paid.
ReadyWhenPaid(manual) == clock + HoldTime

\* The hold starts with an instant purchase; a manual one waits for its order.
ReadyAt(manual) == IF manual THEN NULL ELSE clock + HoldTime

PurchaseEarning(b, total, stored, manual) ==
  [NewEarning("order_purchase", Referrer[b], "pending",
              Commission(total, stored), ReadyAt(manual))
   EXCEPT !.fulfilled = IF manual THEN NULL ELSE clock]

\* The ledger's part of buy_item_transaction: the buyer pays, the operation is
\* recorded and the referrer, if any, earns.
Purchase(b, total, stored, manual) ==
  /\ orders < MaxOrders
  /\ balance[b] >= total
  /\ orders' = orders + 1
  /\ balance' = [balance EXCEPT ![b] = @ - total]
  /\ operations' = [operations EXCEPT ![b] = @ - total]
  /\ earnings' = IF Earns(b, total, stored)
                 THEN Append(earnings, PurchaseEarning(b, total, stored, manual))
                 ELSE earnings
  /\ UNCHANGED <<clock, debt, conversions>>

\* start_manual_referral_hold, in the transaction that completes the order item:
\* an earning reversed in the meantime keeps no hold.
FulfilManual(i) ==
  /\ earnings[i].type = "order_purchase"
  /\ earnings[i].fulfilled = NULL
  /\ earnings' = [earnings EXCEPT
       ![i].fulfilled = clock,
       ![i].ready = IF earnings[i].status = "pending" /\ @ = NULL
                    THEN clock + HoldTime ELSE @]
  /\ UNCHANGED <<clock, balance, debt, operations, orders, conversions>>

-------------------------------------------------------------------------------
(* The availability worker *)

Mature(i) ==
  /\ earnings[i].type = "order_purchase"
  /\ earnings[i].status = "pending"
  /\ earnings[i].ready # NULL
  /\ earnings[i].ready <= clock

\* order_by(ready_at, id)
Before(i, j) ==
  \/ earnings[i].ready < earnings[j].ready
  \/ earnings[i].ready = earnings[j].ready /\ i < j

\* Fault: the limit is off by one, and a full batch never fills.
ShortBatch ==
  LET mature == {i \in Ids : Mature(i)}
  IN  {i \in mature : Cardinality({j \in mature : Before(j, i)}) + 1 < BatchSize}

\* The oldest mature earnings, BatchSize of them at most.
Batch ==
  LET mature == {i \in Ids : Mature(i)}
  IN  {i \in mature : Cardinality({j \in mature : Before(j, i)}) < BatchSize}

\* release_mature_referral_earnings, one process_batch of the worker.
ReleaseBatch ==
  /\ Batch # {}
  /\ earnings' = [i \in Ids |-> IF i \in Batch
                                THEN [earnings[i] EXCEPT !.status = "available"]
                                ELSE earnings[i]]
  /\ UNCHANGED <<clock, balance, debt, operations, orders, conversions>>

-------------------------------------------------------------------------------
(* Conversion to store balance *)

\* Fault: a conversion that collects converted rows a second time.
ConvertibleTwice(u) ==
  {i \in Ids : /\ earnings[i].referrer = u
               /\ earnings[i].status \in {"available", "converted"}
               /\ earnings[i].amount > 0}

Convertible(u) ==
  {i \in Ids : /\ earnings[i].referrer = u
               /\ earnings[i].status = "available"
               /\ earnings[i].amount > 0}

Gross(u) ==
  Total([i \in Ids |-> IF i \in Convertible(u) THEN earnings[i].amount ELSE 0],
        Len(earnings))

\* Fault: a conversion clears the debt it only pays a part of.
DebtForgotten(u, offset) == 0

DebtLeft(u, offset) == debt[u] - offset

\* convert_referral_earnings: the debt is paid off before the balance grows.
Convert(u) ==
  LET offset == Lesser(Gross(u), debt[u])
      credit == Gross(u) - offset
  IN  /\ Convertible(u) # {}
      /\ operations' = [operations EXCEPT ![u] = @ + credit]
      /\ conversions' = Append(conversions,
           [user |-> u, gross |-> Gross(u), offset |-> offset, credit |-> credit])
      /\ earnings' = [i \in Ids |->
           IF i \in Convertible(u)
           THEN [earnings[i] EXCEPT !.status = "converted",
                                    !.conversion = Len(conversions) + 1]
           ELSE earnings[i]]
      /\ debt' = [debt EXCEPT ![u] = DebtLeft(u, offset)]
      /\ balance' = [balance EXCEPT ![u] = @ + credit]
      /\ UNCHANGED <<clock, orders>>

-------------------------------------------------------------------------------
(* Debits *)

\* Fault: a debit takes from the balance what it does not hold.
RecoveredBlindly(u, amount) == amount

\* _apply_debit: what the balance can pay, the rest becoming debt.
Recovered(u, amount) == Lesser(balance[u], amount)

\* Fault: the operation is recorded for the whole debit.
WholeDebit(u, amount) == -amount

DebitOperation(u, amount) == -Recovered(u, amount)

ApplyDebit(u, amount) ==
  /\ balance' = [balance EXCEPT ![u] = @ - Recovered(u, amount)]
  /\ debt' = [debt EXCEPT ![u] = @ + (amount - Recovered(u, amount))]
  /\ operations' = [operations EXCEPT ![u] = @ + DebitOperation(u, amount)]

DebitRow(type, u, amount) ==
  [NewEarning(type, u, "applied", -amount, NULL) EXCEPT
     !.recovered = Recovered(u, amount),
     !.owed = amount - Recovered(u, amount)]

-------------------------------------------------------------------------------
(* Adjustment by an administrator *)

\* Fault: only credits are looked up, so that a debit may be submitted twice.
KeyUsedByCredit(k) == \E i \in Ids : earnings[i].key = k /\ earnings[i].amount > 0

KeyUsed(k) == \E i \in Ids : earnings[i].key = k

\* admin_adjust_referral, the two signs of its amount.
AdjustUp(u, amount, k) ==
  /\ amount > 0
  /\ ~KeyUsed(k)
  /\ earnings' = Append(earnings,
       [NewEarning("manual_adjustment", u, "available", amount, clock)
        EXCEPT !.key = k])
  /\ UNCHANGED <<clock, balance, debt, operations, orders, conversions>>

AdjustDown(u, amount, k) ==
  /\ amount < 0
  /\ ~KeyUsed(k)
  /\ ApplyDebit(u, -amount)
  /\ earnings' = Append(earnings,
       [DebitRow("manual_adjustment", u, -amount) EXCEPT !.key = k])
  /\ UNCHANGED <<clock, orders, conversions>>

\* The form of the panel, whose key makes its second submission a duplicate.
Adjust(u, amount, k) == AdjustUp(u, amount, k) \/ AdjustDown(u, amount, k)

-------------------------------------------------------------------------------
(* Reversal of a refunded order's earning *)

\* Fault: a converted earning is marked reversed instead of compensated.
HeldOrConverted(i) == earnings[i].status \in {"pending", "available", "converted"}

Held(i) == earnings[i].status \in {"pending", "available"}

Compensates(j, i) ==
  /\ earnings[j].type = "compensating_reversal"
  /\ earnings[j].reversal = i

\* Fault: the lookup of an earlier reversal is left out.
NeverCompensated(i) == FALSE

Compensated(i) == \E j \in Ids : Compensates(j, i)

\* reverse_referral_earning of an earning that has not been converted.
ReverseHeld(i) ==
  /\ earnings[i].type = "order_purchase"
  /\ Held(i)
  /\ earnings' = [earnings EXCEPT ![i].status = "reversed"]
  /\ UNCHANGED <<clock, balance, debt, operations, orders, conversions>>

\* reverse_referral_earning of a converted earning: a compensating debit, once.
ReverseConverted(i) ==
  /\ earnings[i].type = "order_purchase"
  /\ earnings[i].status = "converted"
  /\ ~Compensated(i)
  /\ ApplyDebit(earnings[i].referrer, earnings[i].amount)
  /\ earnings' = Append(earnings,
       [DebitRow("compensating_reversal", earnings[i].referrer, earnings[i].amount)
        EXCEPT !.reversal = i])
  /\ UNCHANGED <<clock, orders, conversions>>

-------------------------------------------------------------------------------
Tick ==
  /\ clock < MaxTime
  /\ clock' = clock + 1
  /\ UNCHANGED <<balance, debt, operations, orders, earnings, conversions>>

Next ==
  \/ \E b \in Users, total \in Totals, stored \in Rates, manual \in BOOLEAN :
       Purchase(b, total, stored, manual)
  \/ \E i \in Ids : FulfilManual(i)
  \/ ReleaseBatch
  \/ \E u \in Users : Convert(u)
  \/ \E u \in Users, amount \in Adjustments, k \in Keys : Adjust(u, amount, k)
  \/ \E i \in Ids : ReverseHeld(i) \/ ReverseConverted(i)
  \/ Tick

\* The worker keeps polling, and retries a batch that failed.
Fairness == WF_vars(ReleaseBatch)

Spec == Init /\ [][Next]_vars /\ Fairness

-------------------------------------------------------------------------------
(* Properties *)

\* A debt is what the audit trail says it is: the debt_added of every debit row
\* of the user (_apply_debit) less the debt_offset of every conversion.
OwedBy(u) == [i \in Ids |-> IF earnings[i].referrer = u THEN earnings[i].owed ELSE 0]
OffsetBy(u) ==
  [c \in DOMAIN conversions |->
     IF conversions[c].user = u THEN conversions[c].offset ELSE 0]

DebtAudited ==
  \A u \in Users :
    debt[u] = Total(OwedBy(u), Len(earnings)) - Total(OffsetBy(u), Len(conversions))

\* The balance is the opening balance plus the recorded operations, through
\* purchases, conversions, adjustments and reversals alike: nothing moves money
\* without its row, and no row without money.  (Cart checkouts, which record no
\* operation, are in Storefront: MoneyAudited.)
BalanceAudited == \A u \in Users : balance[u] = InitialBalance[u] + operations[u]

\* Conservation: the money the ledger put in a user's balance, less what it took
\* back and what it still claims as debt, is the sum of the user's settled rows
\* (converted earnings and applied debits).  A commission is never paid twice,
\* and a reversal takes back exactly what was paid.
Settled(u) ==
  [i \in Ids |-> IF /\ earnings[i].referrer = u
                    /\ earnings[i].status \in {"converted", "applied"}
                 THEN earnings[i].amount ELSE 0]
RecoveredFrom(u) ==
  [i \in Ids |-> IF earnings[i].referrer = u THEN earnings[i].recovered ELSE 0]
CreditTo(u) ==
  [c \in DOMAIN conversions |->
     IF conversions[c].user = u THEN conversions[c].credit ELSE 0]

NetPosition ==
  \A u \in Users :
    Total(Settled(u), Len(earnings)) =
      (Total(CreditTo(u), Len(conversions)) - Total(RecoveredFrom(u), Len(earnings)))
        - debt[u]

\* A conversion's gross_amount is the sum of the rows that name it, for as long
\* as the row exists: no earning is counted in two conversions.
GrossOf(c) ==
  [i \in Ids |-> IF earnings[i].conversion = c THEN earnings[i].amount ELSE 0]

ConversionsAudited ==
  \A c \in DOMAIN conversions :
    conversions[c].gross = Total(GrossOf(c), Len(earnings))

\* No commission can be spent before the referral hold has passed since its order
\* was fulfilled, whether the order is delivered at once or by hand.
HoldRespected ==
  \A i \in Ids :
    /\ earnings[i].type = "order_purchase"
    /\ earnings[i].status \in {"available", "converted"}
    => /\ earnings[i].fulfilled # NULL
       /\ clock >= earnings[i].fulfilled + HoldTime

\* However often a refund is reported, a converted earning is compensated at most
\* once, for its own amount and at its own referrer's expense.
CompensatedOnce ==
  \A i, j \in Ids :
    Compensates(j, i) =>
      /\ earnings[i].status = "converted"
      /\ earnings[j].amount = -earnings[i].amount
      /\ earnings[j].referrer = earnings[i].referrer
      /\ \A k \in Ids : Compensates(k, i) => k = j

\* A resubmitted adjustment form is applied once.
KeysOnce ==
  \A i, j \in Ids :
    earnings[i].key # NULL /\ earnings[i].key = earnings[j].key => i = j

\* "Never edit ledger history": no step removes a row or changes its amount, its
\* referrer or its kind, and a status only moves along its lifecycle; a converted,
\* applied or reversed row stays what it is.
Follows(status) ==
  CASE status = "pending"   -> {"pending", "available", "reversed"}
    [] status = "available" -> {"available", "converted", "reversed"}
    [] OTHER                -> {status}

HistoryKept ==
  \A i \in Ids :
    /\ i \in DOMAIN earnings'
    /\ earnings'[i].type = earnings[i].type
    /\ earnings'[i].referrer = earnings[i].referrer
    /\ earnings'[i].amount = earnings[i].amount
    /\ earnings'[i].status \in Follows(earnings[i].status)
    /\ earnings[i].ready # NULL => earnings'[i].ready = earnings[i].ready

LedgerAppendOnly == [][HistoryKept]_vars

\* A pending earning whose hold has passed does not stay pending for ever.  The
\* ids range over the rows a bounded run can have.
MaxRows == 2 * MaxOrders + Cardinality(Keys)

MatureReleased ==
  \A i \in 1..MaxRows :
    (i \in Ids /\ Mature(i)) ~> (i \in Ids /\ earnings[i].status # "pending")

===============================================================================
