----------------------------- MODULE CustomerProofs -----------------------------
(***************************************************************************)
(* What the customer's side promises.  Payments: for any number of         *)
(* invoices, charges, concurrent handler calls and faults.  Shop: for any  *)
(* products, codes, messages and edits.                                    *)
(***************************************************************************)
EXTENDS Payments, Shop, SequenceTheorems, FiniteSetTheorems, TLAPS

Paid(p) == IF p \in Invoices THEN invoice[p] = "paid" ELSE charge[p] # "none"

(* A call about to credit holds the answer "paid", the recovery loop about *)
(* to give up holds "expired": the provider takes neither back.            *)
(* A row is inserted as pending before anybody can pay: its task is alone, *)
(* the link is not shown yet.                                              *)
TaskInv(t) ==
    /\ task[t].at = "credit" => Paid(task[t].id)
    /\ task[t].at = "register" =>
          /\ row[task[t].id] = "none"
          /\ invoice[task[t].id] \notin {"none", "paid"}
    /\ task[t].at \in {"offer", "ask", "clear"} => row[task[t].id] # "none"

RegistersAlone(t, u) ==
    task[t].at = "register" /\ task[u].at = "register" /\ task[t].id = task[u].id => t = u

SweepInv ==
    /\ \A i \in sweep.todo : row[i] # "none"
    /\ sweep.at \in {"ask", "credit", "fail"} => row[sweep.id] # "none"
    /\ sweep.at = "credit" => invoice[sweep.id] = "paid"
    /\ sweep.at = "fail" => invoice[sweep.id] = "expired"

Ledger(p) ==
    /\ credits[p] \in {0, 1}
    /\ row[p] = "succeeded" <=> credits[p] = 1
    /\ credits[p] = 1 => Paid(p)
    /\ p \in Invoices /\ row[p] # "none" => invoice[p] # "none"

TasksInv == \A t \in Tasks : TaskInv(t)
AloneInv == \A t, u \in Tasks : RegistersAlone(t, u)
ShownInv == \A i \in shown : row[i] # "none"
LedgerInv == \A p \in Ids : Ledger(p)

Careful == TasksInv /\ AloneInv /\ ShownInv /\ SweepInv /\ LedgerInv

PayInv == TypeOK /\ Careful

-----------------------------------------------------------------------------
(* The payment a call is at is one the call can be about. *)
LEMMA TaskTypes ==
  ASSUME TypeOK, NEW t \in Tasks
  PROVE  /\ task[t].at \in {"register", "offer", "ask", "clear"} => task[t].id \in Invoices
         /\ task[t].at = "credit" => task[t].id \in Ids
  <1>1. task[t] \in {Idle} \cup [at : {"credit"}, id : Ids]
                    \cup [at : {"register", "offer", "ask", "clear"}, id : Invoices]
    BY DEF TypeOK
  <1>. QED
    BY <1>1 DEF Idle

(* So is the row the recovery loop is at. *)
LEMMA SweepTypes ==
  ASSUME TypeOK
  PROVE  /\ sweep.todo \subseteq Invoices
         /\ sweep.at \in {"ask", "credit", "fail"} => sweep.id \in Invoices
  BY DEF TypeOK, Asleep

(* Every step keeps the types, one action after the other. *)
LEMMA TypeStep == TypeOK /\ [Next]_vars => TypeOK'
  <1>. SUFFICES ASSUME TypeOK, [Next]_vars PROVE TypeOK'
    OBVIOUS
  <1>. USE FaultsAssumption DEF TypeOK, Ids, Unpaid, Idle, Asleep
  <1>1. ASSUME NEW i \in Invoices, Pay(i) PROVE TypeOK'
    BY <1>1 DEF Pay
  <1>2. ASSUME NEW i \in Invoices, Expire(i) PROVE TypeOK'
    BY <1>2 DEF Expire
  <1>3. ASSUME NEW i \in Invoices, Grow(i) PROVE TypeOK'
    BY <1>3 DEF Grow
  <1>4. ASSUME NEW i \in Invoices, Forget(i) PROVE TypeOK'
    BY <1>4 DEF Forget
  <1>5. ASSUME NEW c \in Charges, PayCharge(c) PROVE TypeOK'
    BY <1>5 DEF PayCharge
  <1>6. ASSUME NEW c \in Charges, Confirm(c) PROVE TypeOK'
    BY <1>6 DEF Confirm
  <1>7. ASSUME NEW t \in Tasks, NEW i \in Invoices, CreateInvoice(t, i) PROVE TypeOK'
    BY <1>7 DEF CreateInvoice, Goes
  <1>8. ASSUME NEW t \in Tasks, NEW i \in Invoices, Check(t, i) PROVE TypeOK'
    BY <1>8 DEF Check, Goes
  <1>9. ASSUME NEW t \in Tasks, NEW c \in Charges, Deliver(t, c) PROVE TypeOK'
    BY <1>9 DEF Deliver, Goes
  <1>10. ASSUME NEW t \in Tasks, CreatePendingPayment(t) PROVE TypeOK'
    BY <1>10, TaskTypes DEF CreatePendingPayment, Goes
  <1>11. ASSUME NEW t \in Tasks, Offer(t) PROVE TypeOK'
    BY <1>11, TaskTypes DEF Offer, Ends
  <1>12. ASSUME NEW t \in Tasks, GetInvoice(t) PROVE TypeOK'
    BY <1>12, TaskTypes DEF GetInvoice, IsPaid, Goes, Ends
  <1>13. ASSUME NEW t \in Tasks, Credit(t) PROVE TypeOK'
    BY <1>13 DEF Credit, Credited, ProcessPayment, AlreadyProcessed, Creditable, Goes, Ends
  <1>14. ASSUME NEW t \in Tasks, ClearState(t) PROVE TypeOK'
    BY <1>14 DEF ClearState, Ends
  <1>15. ASSUME NEW t \in Tasks, TaskFails(t) PROVE TypeOK'
    BY <1>15 DEF TaskFails, Fault, Ends
  <1>16. CASE ReadStuck
    BY <1>16 DEF ReadStuck, Stuck
  <1>17. CASE Pick
    BY <1>17 DEF Pick
  <1>18. CASE AskProvider
    BY <1>18, SweepTypes DEF AskProvider, SweepTo, SweepOn, IsPaid, GivenUp
  <1>19. CASE Recover
    BY <1>19, SweepTypes DEF Recover, ProcessPayment, AlreadyProcessed, Creditable, SweepOn
  <1>20. CASE MarkPaymentFailed
    BY <1>20, SweepTypes DEF MarkPaymentFailed, SweepOn
  <1>21. CASE SweepFails
    BY <1>21, SweepTypes DEF SweepFails, Fault, SweepOn
  <1>22. CASE StartCleanup
    BY <1>22 DEF StartCleanup
  <1>23. CASE CleanupRaises
    BY <1>23 DEF CleanupRaises
  <1>24. CASE Restart
    BY <1>24 DEF Restart, Fault
  <1>25. CASE UNCHANGED vars
    BY <1>25 DEF vars
  <1>26. QED
    BY <1>1, <1>2, <1>3, <1>4, <1>5, <1>6, <1>7, <1>8, <1>9, <1>10, <1>11, <1>12, <1>13, <1>14,
       <1>15, <1>16, <1>17, <1>18, <1>19, <1>20, <1>21, <1>22, <1>23, <1>24, <1>25 DEF Next, HandlerStep, Outside, Sweep

-----------------------------------------------------------------------------
(* Every step keeps the rest of the invariant. *)
LEMMA InvStep == PayInv /\ [Next]_vars => Careful'
  <1>. SUFFICES ASSUME PayInv, [Next]_vars PROVE Careful'
    OBVIOUS
  <1>. USE IdsAssumption DEF PayInv, Careful, TypeOK, Ids, Unpaid, Idle, Asleep, Paid,
         TasksInv, TaskInv, AloneInv, RegistersAlone, ShownInv, SweepInv, LedgerInv, Ledger
  <1>1. ASSUME NEW i \in Invoices, Pay(i) PROVE Careful'
    BY <1>1 DEF Pay
  <1>2. ASSUME NEW i \in Invoices, Expire(i) PROVE Careful'
    BY <1>2 DEF Expire
  <1>3. ASSUME NEW i \in Invoices, Grow(i) PROVE Careful'
    BY <1>3 DEF Grow
  <1>4. ASSUME NEW i \in Invoices, Forget(i) PROVE Careful'
    BY <1>4 DEF Forget
  <1>5. ASSUME NEW c \in Charges, PayCharge(c) PROVE Careful'
    BY <1>5 DEF PayCharge
  <1>6. ASSUME NEW c \in Charges, Confirm(c) PROVE Careful'
    BY <1>6 DEF Confirm
  <1>7. ASSUME NEW t \in Tasks, NEW i \in Invoices, CreateInvoice(t, i) PROVE Careful'
    BY <1>7 DEF CreateInvoice, Goes
  <1>8. ASSUME NEW t \in Tasks, NEW i \in Invoices, Check(t, i) PROVE Careful'
    BY <1>8 DEF Check, Goes
  <1>9. ASSUME NEW t \in Tasks, NEW c \in Charges, Deliver(t, c) PROVE Careful'
    BY <1>9 DEF Deliver, Goes
  <1>10. ASSUME NEW t \in Tasks, CreatePendingPayment(t) PROVE Careful'
    BY <1>10, TaskTypes DEF CreatePendingPayment, Goes
  <1>11. ASSUME NEW t \in Tasks, Offer(t) PROVE Careful'
    BY <1>11, TaskTypes DEF Offer, Ends
  <1>12. ASSUME NEW t \in Tasks, GetInvoice(t) PROVE Careful'
    BY <1>12, TaskTypes DEF GetInvoice, IsPaid, Goes, Ends
  <1>13. ASSUME NEW t \in Tasks, Credit(t) PROVE Careful'
    BY <1>13 DEF Credit, Credited, ProcessPayment, AlreadyProcessed, Creditable, Goes, Ends
  <1>14. ASSUME NEW t \in Tasks, ClearState(t) PROVE Careful'
    BY <1>14 DEF ClearState, Ends
  <1>15. ASSUME NEW t \in Tasks, TaskFails(t) PROVE Careful'
    BY <1>15 DEF TaskFails, Fault, Ends
  <1>16. CASE ReadStuck
    BY <1>16 DEF ReadStuck, Stuck
  <1>17. CASE Pick
    BY <1>17 DEF Pick
  <1>18. CASE AskProvider
    BY <1>18, SweepTypes DEF AskProvider, SweepTo, SweepOn, IsPaid, GivenUp
  <1>19. CASE Recover
    BY <1>19, SweepTypes DEF Recover, ProcessPayment, AlreadyProcessed, Creditable, SweepOn
  <1>20. CASE MarkPaymentFailed
    BY <1>20, SweepTypes DEF MarkPaymentFailed, SweepOn
  <1>21. CASE SweepFails
    BY <1>21, SweepTypes DEF SweepFails, Fault, SweepOn
  <1>22. CASE StartCleanup
    BY <1>22 DEF StartCleanup
  <1>23. CASE CleanupRaises
    BY <1>23 DEF CleanupRaises
  <1>24. CASE Restart
    BY <1>24 DEF Restart, Fault
  <1>25. CASE UNCHANGED vars
    BY <1>25 DEF vars
  <1>26. QED
    BY <1>1, <1>2, <1>3, <1>4, <1>5, <1>6, <1>7, <1>8, <1>9, <1>10, <1>11, <1>12, <1>13, <1>14,
       <1>15, <1>16, <1>17, <1>18, <1>19, <1>20, <1>21, <1>22, <1>23, <1>24, <1>25 DEF Next, HandlerStep, Outside, Sweep

LEMMA InvHolds == Spec => []PayInv
  <1>1. Init => TypeOK
    BY FaultsAssumption DEF Init, TypeOK, Ids, Unpaid, Idle, Asleep
  <1>2. Init => Careful
    BY IdsAssumption DEF Init, Careful, Ids, Idle, Asleep, Paid, TasksInv, TaskInv, AloneInv,
       RegistersAlone, ShownInv, SweepInv, LedgerInv, Ledger
  <1>3. PayInv /\ [Next]_vars => PayInv'
    BY TypeStep, InvStep DEF PayInv
  <1>. QED
    BY <1>1, <1>2, <1>3, PTL DEF Spec, PayInv

(* Every variable keeps its type: no handler step is ever about a payment  *)
(* of the wrong kind.                                                      *)
THEOREM PaymentsTypeCorrect == Spec => []TypeOK
  BY InvHolds, PTL DEF PayInv

(* process_payment_with_referral is idempotent: whatever checks, updates   *)
(* and recovery sweeps race, fail or restart, a payment is credited at     *)
(* most once.                                                              *)
THEOREM PaymentsCreditedOnce == Spec => []CreditedOnce
  <1>1. PayInv => CreditedOnce
    BY DEF PayInv, Careful, LedgerInv, Ledger, CreditedOnce
  <1>. QED
    BY <1>1, InvHolds, PTL

(* A payment's row says "succeeded" exactly if a balance received it: the  *)
(* unguarded UPDATE of _mark_payment_failed never hits a credited row.     *)
THEOREM RowsAreTrue == Spec => []RowsTellCredits
  <1>1. PayInv => RowsTellCredits
    BY DEF PayInv, Careful, LedgerInv, Ledger, RowsTellCredits
  <1>. QED
    BY <1>1, InvHolds, PTL

(* Nothing is credited that nobody paid, although the answer of the        *)
(* provider is read before the transaction that acts on it.                *)
THEOREM NothingForNothing == Spec => []CreditedForMoney
  <1>1. PayInv => CreditedForMoney
    BY IdsAssumption DEF PayInv, Careful, LedgerInv, Ledger, Paid, Ids, CreditedForMoney
  <1>. QED
    BY <1>1, InvHolds, PTL
-------------------------------------------------------------------------------
(* The shop *)

\* A product that the cache serves as deleted was deleted, and nothing brings it back.
ServedDeletedIsDeleted ==
  \A g \in Goods : served[g].status = "deleted" => goods[g].status = "deleted"

\* The customer knows the quantity the FSM holds, or was told that there is nothing to be
\* had, or the product is gone, and all that its pages do is to say so.
QuantityKnown ==
  fsm.item # NoGoods => told \in {fsm.qty, Gone} \/ served[fsm.item].status = "deleted"

ShopInv == ShopTypeOK /\ ServedDeletedIsDeleted /\ QuantityKnown /\ BoughtFromPage /\ QuantityTold

\* What a tap may leave behind.
FsmTyped ==
  fsm \in [item : Goods \union {NoGoods}, qty : Nat, promo : Promos \union {NoPromo},
           awaiting : BOOLEAN, shelf : Seq(Goods)]

ReceiptTrue(page) ==
  page.kind = "receipt" => page.item = page.page /\ page.told \in {page.qty, Gone}

\* One message at most shows another page, and a receipt is a true one.
ScreenMove ==
  \/ UNCHANGED screen
  \/ \E m \in Screens, page \in Page :
       screen' = [screen EXCEPT ![m] = page] /\ ReceiptTrue(page)

\* A tap: the shop stays as it is, the customer is told what the FSM holds.
Tap ==
  /\ UNCHANGED <<goods, used, edits>>
  /\ served' = served
  /\ ScreenMove /\ FsmTyped' /\ told' \in Nat \union {Gone}
  /\ fsm'.item # NoGoods =>
       told' \in {fsm'.qty, Gone} \/ served[fsm'.item].status = "deleted"

LEMMA ReceiptsTrue ==
  BoughtFromPage /\ QuantityTold <=> \A m \in Screens : ReceiptTrue(screen[m])
BY DEF BoughtFromPage, QuantityTold, Receipts, ReceiptTrue

LEMMA ReceiptsTrueNext ==
  (BoughtFromPage /\ QuantityTold)' <=> \A m \in Screens : ReceiptTrue(screen'[m])
BY DEF BoughtFromPage, QuantityTold, Receipts, ReceiptTrue

LEMMA ScreenKept ==
  ASSUME ShopInv, ScreenMove
  PROVE  screen' \in [Screens -> Page] /\ (BoughtFromPage /\ QuantityTold)'
<1>1. screen \in [Screens -> Page] /\ \A m \in Screens : ReceiptTrue(screen[m])
  BY ReceiptsTrue DEF ShopInv, ShopTypeOK
<1>2. CASE UNCHANGED screen
  BY <1>1, <1>2, ReceiptsTrueNext
<1>3. ASSUME NEW m \in Screens, NEW page \in Page,
             screen' = [screen EXCEPT ![m] = page], ReceiptTrue(page)
      PROVE  screen' \in [Screens -> Page] /\ \A n \in Screens : ReceiptTrue(screen'[n])
  BY <1>1, <1>3
<1> QED
  BY <1>2, <1>3, ReceiptsTrueNext DEF ScreenMove

LEMMA TapKeeps ==
  ASSUME ShopInv, Tap
  PROVE  ShopInv'
<1>1. screen' \in [Screens -> Page] /\ (BoughtFromPage /\ QuantityTold)'
  BY ScreenKept DEF Tap
<1>2. ShopTypeOK'
  BY <1>1 DEF ShopInv, Tap, ShopTypeOK, FsmTyped
<1>3. ServedDeletedIsDeleted'
  BY DEF ShopInv, Tap, ServedDeletedIsDeleted
<1>4. QuantityKnown'
  BY DEF Tap, QuantityKnown
<1> QED
  BY <1>1, <1>2, <1>3, <1>4 DEF ShopInv

-------------------------------------------------------------------------------
(* Pages *)

LEMMA AmountTyped ==
  ASSUME ShopInv, NEW g \in Goods
  PROVE  /\ Amount(g) \in {Unlimited} \union Nat
         /\ \A q \in Nat : Clamped(g, q) \in Nat
         /\ \A q \in Nat : Clamped(g, q) = IF Enough(g, q) THEN q ELSE Amount(g)
<1>1. served[g].count \in Nat
  BY DEF ShopInv, ShopTypeOK, CachedRow
<1> QED
  BY <1>1 DEF Amount, Clamped, Enough, Unlimited

LEMMA CachedTyped ==
  ASSUME ShopInv, NEW g \in Goods
  PROVE  Cached(goods[g]) \in CachedRow /\ Cached(goods[g]).status = goods[g].status
<1>1. goods[g] \in Row
  BY DEF ShopInv, ShopTypeOK
<1> QED
  BY <1>1 DEF Row, CachedRow, Cached, Count, Unlimited

\* A page that shows no receipt, and of which nothing is told.
LEMMA Shown ==
  ASSUME ShopInv, NEW m \in Screens, NEW page \in Page, page.kind # "receipt", Show(m, page)
  PROVE  ScreenMove /\ told' = told
BY DEF Show, ScreenMove, ReceiptTrue

LEMMA ItemShown ==
  ASSUME ShopInv, NEW m \in Screens, NEW g \in Goods, NEW q \in Nat, ItemPage(m, g, q)
  PROVE  ScreenMove /\ told' \in {q, Gone}
<1>1. CASE served[g].status \in {"sold", "manual"}
  <2> DEFINE page == [kind |-> "item", item |-> g, stock |-> Amount(g)]
  <2>1. page \in Page /\ page.kind # "receipt"
    BY AmountTyped DEF Page
  <2>2. screen' = [screen EXCEPT ![m] = page] /\ told' = q
    BY <1>1 DEF ItemPage, ShowQuantity
  <2> QED
    BY <2>1, <2>2 DEF ScreenMove, ReceiptTrue
<1>2. CASE served[g].status \notin {"sold", "manual"}
  BY <1>2 DEF ItemPage, ShowGone, ScreenMove
<1> QED
  BY <1>1, <1>2

LEMMA KeypadShown ==
  ASSUME ShopInv, NEW m \in Screens, NEW g \in Goods, NEW q \in Nat, KeypadPage(m, g, q)
  PROVE  ScreenMove /\ told' \in Nat \union {Gone}
         /\ (told' = q \/ served[g].status = "deleted")
<1>1. CASE served[g].status # "deleted"
  <2> DEFINE page == [kind |-> "keypad", item |-> g]
  <2>1. page \in Page /\ page.kind # "receipt"
    BY DEF Page
  <2>2. screen' = [screen EXCEPT ![m] = page] /\ told' = q
    BY <1>1 DEF KeypadPage, ShowQuantity
  <2> QED
    BY <2>1, <2>2 DEF ScreenMove, ReceiptTrue
<1>2. CASE served[g].status = "deleted"
  BY <1>2 DEF KeypadPage, ScreenMove, ShopInv, ShopTypeOK
<1> QED
  BY <1>1, <1>2

\* The checkout page tells the quantity that it leaves in the FSM.
LEMMA CheckoutShown ==
  ASSUME ShopInv, NEW m \in Screens,
         NEW data \in [item : Goods \union {NoGoods}, qty : Nat, promo : Promos \union {NoPromo},
                       awaiting : BOOLEAN, shelf : Seq(Goods)],
         data.item \in Goods, CheckoutPage(m, data)
  PROVE  /\ ScreenMove /\ FsmTyped' /\ told' \in Nat \union {Gone}
         /\ fsm'.item = data.item
         /\ told' = fsm'.qty \/ served[fsm'.item].status = "deleted"
<1> DEFINE g == data.item
           p == IF data.promo # NoPromo /\ ~Valid(data.promo, g) THEN NoPromo ELSE data.promo
           q == IF Enough(g, data.qty) THEN data.qty ELSE Amount(g)
           page == [kind |-> "checkout", item |-> g, promo |-> p]
<1>1. CASE served[g].status = "deleted"
  <2>1. fsm' = data /\ UNCHANGED <<screen, told>>
    BY <1>1 DEF CheckoutPage
  <2> QED
    BY <1>1, <2>1 DEF FsmTyped, ScreenMove, ShopInv, ShopTypeOK
<1>2. CASE served[g].status # "deleted"
  <2>1. fsm' = [data EXCEPT !.qty = Clamped(g, data.qty), !.promo = p]
        /\ screen' = [screen EXCEPT ![m] = page] /\ told' = q
    BY <1>2 DEF CheckoutPage, ShowQuantity
  <2>2. Clamped(g, data.qty) \in Nat /\ q = Clamped(g, data.qty)
    BY AmountTyped
  <2>3. p \in Promos \union {NoPromo}
    OBVIOUS
  <2>4. page \in Page /\ page.kind # "receipt"
    BY <2>3 DEF Page
  <2> HIDE DEF p, q, page
  <2>5. FsmTyped' /\ fsm'.item = data.item /\ fsm'.qty = Clamped(g, data.qty)
    BY <2>1, <2>2, <2>3 DEF FsmTyped
  <2>6. ScreenMove
    BY <2>1, <2>4 DEF ScreenMove, ReceiptTrue
  <2> QED
    BY <2>1, <2>2, <2>5, <2>6
<1> QED
  BY <1>1, <1>2

\* The products of a page are products.
LEMMA PageTyped ==
  ASSUME ShopInv, NEW of \in SUBSET Goods, NEW list \in Listings(of), NEW n \in Nat
  PROVE  PageOf(list, n) \in Seq(Goods)
<1> DEFINE onSale == {g \in of : goods[g].status \in {"sold", "manual"}}
           k == Cardinality(onSale)
           last == (n + 1) * PageSize
           first == n * PageSize + 1
           end == IF last < Len(list) THEN last ELSE Len(list)
<1>1. IsFiniteSet(onSale)
  BY ShopAssumption, FS_Subset
<1>2. k \in Nat
  BY <1>1, FS_CardinalityType
<1>3. list \in [1..k -> onSale]
  BY DEF Listings
<1>4. list \in Seq(Goods) /\ Len(list) = k /\ DOMAIN list = 1..k
  <2>1. list \in [1..k -> Goods]
    BY <1>3
  <2> HIDE DEF k
  <2>2. list \in Seq(Goods)
    BY <1>2, <2>1, SeqDef
  <2> QED
    BY <1>2, <2>1, <2>2, LenProperties
<1>5. n * PageSize \in Nat /\ (n + 1) * PageSize \in Nat
  <2>1. \A a, b \in Nat : a * b \in Nat
    OBVIOUS
  <2> QED
    BY <2>1, ShopAssumption
<1>6. first \in Nat \ {0} /\ end \in Nat /\ end <= k
  BY <1>2, <1>4, <1>5
<1> HIDE DEF first, end, k, onSale
<1>7. \A i \in first..end : list[i] \in Goods
  <2> SUFFICES ASSUME NEW i \in first..end PROVE list[i] \in Goods
    OBVIOUS
  <2>1. i \in 1..k
    BY <1>2, <1>6
  <2> QED
    BY <1>4, <2>1, ElementOfSeq
<1>8. PageOf(list, n) = SubSeq(list, first, end)
  BY DEF PageOf, first, end
<1>9. CASE first <= end
  BY <1>2, <1>4, <1>6, <1>7, <1>8, <1>9, SubSeqProperties
<1>10. CASE ~(first <= end)
  BY <1>2, <1>4, <1>6, <1>7, <1>8, <1>10, SubSeqProperties
<1> QED
  BY <1>9, <1>10

-------------------------------------------------------------------------------
(* Taps *)

LEMMA ShelfStep ==
  ASSUME ShopInv, NEW m \in Screens, NEW n \in 0..1, OpenShelf(m, n) \/ OpenDeals(m, n)
  PROVE  Tap
<1>0. PICK of \in SUBSET Goods : \E list \in Listings(of) : ShowShelf(m, list, n)
  BY ShopAssumption DEF OpenShelf, OpenDeals
<1>1. PICK list \in Listings(of) : ShowShelf(m, list, n)
  BY <1>0
<1> DEFINE p == PageOf(list, n)
           page == [kind |-> "shelf", size |-> Len(p)]
<1>2. p \in Seq(Goods)
  BY PageTyped
<1>3. Len(p) \in Nat
  BY <1>2, LenProperties
<1>4. page \in Page /\ page.kind # "receipt"
  BY <1>3 DEF Page
<1>5. fsm' = [fsm EXCEPT !.shelf = p] /\ Show(m, page) /\ UNCHANGED <<goods, served, used, edits>>
  BY <1>1 DEF ShowShelf
<1> HIDE DEF p, page
<1>6. ScreenMove /\ told' = told
  BY <1>4, <1>5, Shown
<1>7. FsmTyped' /\ fsm'.item = fsm.item /\ fsm'.qty = fsm.qty
  BY <1>2, <1>5 DEF FsmTyped, ShopInv, ShopTypeOK
<1> QED
  BY <1>5, <1>6, <1>7 DEF Tap, ShopInv, ShopTypeOK, QuantityKnown

\* The taps that set a product and a quantity and draw the page of the product.
LEMMA ItemTap ==
  ASSUME ShopInv, NEW m \in Screens, NEW g \in Goods, NEW q \in Nat,
         fsm' = [fsm EXCEPT !.item = g, !.qty = q], ItemPage(m, g, q),
         UNCHANGED <<goods, served, used, edits>>
  PROVE  Tap
<1>1. ScreenMove /\ told' \in {q, Gone}
  BY ItemShown
<1>2. FsmTyped' /\ fsm'.qty = q
  BY DEF FsmTyped, ShopInv, ShopTypeOK
<1> QED
  BY <1>1, <1>2 DEF Tap

\* The same for the product that the FSM holds.
LEMMA QuantityTap ==
  ASSUME ShopInv, NEW m \in Screens, NEW q \in Nat, fsm.item \in Goods,
         fsm' = [fsm EXCEPT !.qty = q], ItemPage(m, fsm.item, q),
         UNCHANGED <<goods, served, used, edits>>
  PROVE  Tap
<1>1. ScreenMove /\ told' \in {q, Gone}
  BY ItemShown
<1>2. FsmTyped' /\ fsm'.qty = q
  BY DEF FsmTyped, ShopInv, ShopTypeOK
<1> QED
  BY <1>1, <1>2 DEF Tap

\* The FSM keeps product and quantity, and the message shows a page that is no receipt.
LEMMA QuietTap ==
  ASSUME ShopInv, ScreenMove, told' = told, FsmTyped', fsm'.item = fsm.item,
         fsm'.qty = fsm.qty, UNCHANGED <<goods, served, used, edits>>
  PROVE  Tap
BY DEF Tap, ShopInv, ShopTypeOK, QuantityKnown

LEMMA CheckoutTap ==
  ASSUME ShopInv, NEW m \in Screens,
         NEW data \in [item : Goods \union {NoGoods}, qty : Nat, promo : Promos \union {NoPromo},
                       awaiting : BOOLEAN, shelf : Seq(Goods)],
         data.item \in Goods, CheckoutPage(m, data), UNCHANGED <<goods, served, used, edits>>
  PROVE  Tap
BY CheckoutShown DEF Tap

LEMMA FsmNow ==
  ASSUME ShopInv
  PROVE  /\ fsm \in [item : Goods \union {NoGoods}, qty : Nat, promo : Promos \union {NoPromo},
                     awaiting : BOOLEAN, shelf : Seq(Goods)]
         /\ \A m \in Screens : Same(m) => fsm.item \in Goods
BY DEF ShopInv, ShopTypeOK, Same

LEMMA MenuTap ==
  ASSUME ShopInv, NEW m \in Screens, Show(m, Menu)
  PROVE  ScreenMove /\ told' = told
BY Shown DEF Menu, Page

LEMMA KeypadStep ==
  ASSUME ShopInv, NEW m \in Screens, Keypad(m)
  PROVE  Tap
<1>1. Same(m) /\ UNCHANGED <<goods, served, used, edits>>
  BY DEF Keypad
<1>2. PICK q \in {0} \union (IF screen[m].kind = "item" THEN {}
              ELSE {fsm.qty \div Base} \union {fsm.qty * Base + d : d \in 0..Base - 1}) :
        SetQuantity(q) /\ KeypadPage(m, fsm.item, q)
  BY DEF Keypad
<1>3. q \in Nat
  <2>1. fsm.qty \in Nat /\ Base \in Nat \ {0}
    BY FsmNow, ShopAssumption
  <2>2. \A a, b \in Nat : a * b \in Nat
    OBVIOUS
  <2>3. fsm.qty \div Base \in Nat
    BY <2>1
  <2>4. \A d \in 0..Base - 1 : fsm.qty * Base + d \in Nat
    BY <2>1, <2>2
  <2> QED
    BY <1>2, <2>3, <2>4
<1>4. ScreenMove /\ told' \in Nat \union {Gone}
      /\ (told' = q \/ served[fsm.item].status = "deleted")
  BY <1>1, <1>2, <1>3, FsmNow, KeypadShown
<1>5. FsmTyped' /\ fsm'.item = fsm.item /\ fsm'.qty = q
  BY <1>2, <1>3, FsmNow DEF SetQuantity, FsmTyped
<1> QED
  BY <1>1, <1>4, <1>5 DEF Tap

LEMMA ContinueStep ==
  ASSUME ShopInv, NEW m \in Screens, Continue(m)
  PROVE  Tap
<1>1. Same(m) /\ UNCHANGED <<goods, served, used, edits>>
      /\ ((Show(m, Menu) /\ UNCHANGED fsm) \/ CheckoutPage(m, fsm))
  BY DEF Continue
<1>2. CASE Show(m, Menu) /\ UNCHANGED fsm
  <2>1. FsmTyped'
    BY <1>2, FsmNow DEF FsmTyped
  <2> QED
    BY <1>1, <1>2, <2>1, MenuTap, QuietTap
<1>3. CASE CheckoutPage(m, fsm)
  BY <1>1, <1>3, FsmNow, CheckoutTap
<1> QED
  BY <1>1, <1>2, <1>3

LEMMA PromoStep ==
  ASSUME ShopInv, NEW m \in Screens,
         ApplyPromo(m) \/ RemovePromo(m) \/ \E p \in Promos : EnterCode(m, p)
  PROVE  Tap
<1>1. CASE ApplyPromo(m)
  <2> DEFINE page == [kind |-> "prompt", item |-> screen[m].item]
  <2>1. /\ Same(m) /\ fsm' = [fsm EXCEPT !.awaiting = TRUE]
        /\ Show(m, page) /\ UNCHANGED <<goods, served, used, edits>>
    BY <1>1 DEF ApplyPromo
  <2>2. screen[m].item \in Goods
    BY <2>1, FsmNow DEF Same
  <2>3. page \in Page /\ page.kind # "receipt"
    BY <2>2 DEF Page
  <2> HIDE DEF page
  <2>4. ScreenMove /\ told' = told
    BY <2>1, <2>3, Shown
  <2>5. FsmTyped' /\ fsm'.item = fsm.item /\ fsm'.qty = fsm.qty
    BY <2>1, FsmNow DEF FsmTyped
  <2> QED
    BY <2>1, <2>4, <2>5, QuietTap
<1>2. CASE RemovePromo(m)
  <2> DEFINE data == [fsm EXCEPT !.promo = NoPromo]
  <2>1. Same(m) /\ CheckoutPage(m, data) /\ UNCHANGED <<goods, served, used, edits>>
    BY <1>2 DEF RemovePromo
  <2>2. data \in [item : Goods \union {NoGoods}, qty : Nat, promo : Promos \union {NoPromo},
                  awaiting : BOOLEAN, shelf : Seq(Goods)]
        /\ data.item \in Goods
    BY <2>1, FsmNow
  <2> HIDE DEF data
  <2> QED
    BY <2>1, <2>2, CheckoutTap
<1>3. ASSUME NEW p \in Promos, EnterCode(m, p)
      PROVE  Tap
  <2>1. UNCHANGED <<goods, served, used, edits>>
    BY <1>3 DEF EnterCode
  <2>2. CASE fsm.item = NoGoods \/ ~Valid(p, fsm.item)
    <3>1. fsm' = [fsm EXCEPT !.awaiting = FALSE]
          /\ IF fsm.item = NoGoods THEN UNCHANGED <<screen, told>>
             ELSE Show(m, [kind |-> "prompt", item |-> fsm.item])
      BY <1>3, <2>2 DEF EnterCode
    <3>2. FsmTyped' /\ fsm'.item = fsm.item /\ fsm'.qty = fsm.qty
      BY <3>1, FsmNow DEF FsmTyped
    <3>3. ScreenMove /\ told' = told
      <4>1. CASE fsm.item = NoGoods
        BY <3>1, <4>1 DEF ScreenMove
      <4>2. CASE fsm.item # NoGoods
        <5> DEFINE page == [kind |-> "prompt", item |-> fsm.item]
        <5>1. fsm.item \in Goods
          BY <4>2, FsmNow
        <5>2. page \in Page /\ page.kind # "receipt"
          BY <5>1 DEF Page
        <5>3. Show(m, page)
          BY <3>1, <4>2
        <5> HIDE DEF page
        <5> QED
          BY <5>2, <5>3, Shown
      <4> QED
        BY <4>1, <4>2
    <3> QED
      BY <2>1, <3>2, <3>3, QuietTap
  <2>3. CASE ~(fsm.item = NoGoods \/ ~Valid(p, fsm.item))
    <3> DEFINE data == [fsm EXCEPT !.awaiting = FALSE, !.promo = p]
    <3>1. CheckoutPage(m, data)
      BY <1>3, <2>3 DEF EnterCode
    <3>2. data \in [item : Goods \union {NoGoods}, qty : Nat, promo : Promos \union {NoPromo},
                    awaiting : BOOLEAN, shelf : Seq(Goods)]
          /\ data.item \in Goods
      BY <2>3, FsmNow
    <3> HIDE DEF data
    <3> QED
      BY <2>1, <3>1, <3>2, CheckoutTap
  <2> QED
    BY <2>2, <2>3
<1> QED
  BY <1>1, <1>2, <1>3

\* The other taps.
LEMMA TapStep ==
  ASSUME ShopInv, NEW m \in Screens,
         \/ OpenMenu(m) \/ OpenCategories(m) \/ NotFound(m) \/ Decline(m)
         \/ KeypadBack(m) \/ ChangeQuantity(m) \/ BuyAgain(m)
         \/ \E i \in 1..PageSize : OpenItem(m, i)
         \/ \E g \in Goods : OpenDirectly(m, g)
         \/ \E q \in Bases \union 1..MaxStock : QuickQuantity(m, q)
  PROVE  Tap
<1>1. CASE OpenMenu(m)
  <2>1. ScreenMove /\ told' = told /\ fsm' = Cleared /\ UNCHANGED <<goods, served, used, edits>>
    BY <1>1, MenuTap DEF OpenMenu
  <2>2. Cleared \in [item : Goods \union {NoGoods}, qty : Nat, promo : Promos \union {NoPromo},
                     awaiting : BOOLEAN, shelf : Seq(Goods)]
        /\ Cleared.item = NoGoods
    BY EmptySeq DEF Cleared
  <2> QED
    BY <2>1, <2>2 DEF Tap, FsmTyped, ShopInv, ShopTypeOK
<1>2. CASE OpenCategories(m) \/ NotFound(m) \/ Decline(m)
  <2>1. UNCHANGED <<goods, served, used, edits, fsm>>
        /\ \E page \in {Menu, [kind |-> "categories"]} : Show(m, page)
    BY <1>2 DEF OpenCategories, NotFound, Decline
  <2>2. ScreenMove /\ told' = told
    BY <2>1, Shown DEF Page, Menu
  <2>3. FsmTyped'
    BY <2>1, FsmNow DEF FsmTyped
  <2> QED
    BY <2>1, <2>2, <2>3, QuietTap
<1>3. CASE KeypadBack(m) \/ BuyAgain(m)
  <2>1. Same(m) /\ fsm' = [fsm EXCEPT !.qty = 1] /\ ItemPage(m, fsm.item, 1)
        /\ UNCHANGED <<goods, served, used, edits>>
    BY <1>3 DEF KeypadBack, BuyAgain, SetQuantity
  <2> QED
    BY <2>1, FsmNow, QuantityTap
<1>4. CASE ChangeQuantity(m)
  <2>1. Same(m) /\ UNCHANGED fsm /\ ItemPage(m, fsm.item, fsm.qty)
        /\ UNCHANGED <<goods, served, used, edits>>
    BY <1>4 DEF ChangeQuantity
  <2>2. fsm' = [fsm EXCEPT !.qty = fsm.qty] /\ fsm.qty \in Nat
    BY <2>1, FsmNow
  <2> QED
    BY <2>1, <2>2, FsmNow, QuantityTap
<1>5. ASSUME NEW i \in 1..PageSize, OpenItem(m, i)
      PROVE  Tap
  <2> DEFINE g == fsm.shelf[i]
  <2>1. i <= Len(fsm.shelf) /\ fsm' = [fsm EXCEPT !.item = g, !.qty = 1] /\ ItemPage(m, g, 1)
        /\ UNCHANGED <<goods, served, used, edits>>
    BY <1>5 DEF OpenItem
  <2>2. fsm.shelf \in Seq(Goods) /\ i \in 1..Len(fsm.shelf)
    BY <2>1, FsmNow, LenProperties, ShopAssumption
  <2>3. g \in Goods
    BY <2>2, ElementOfSeq
  <2> HIDE DEF g
  <2> QED
    BY <2>1, <2>3, ItemTap
<1>6. ASSUME NEW g \in Goods, OpenDirectly(m, g)
      PROVE  Tap
  BY <1>6, ItemTap DEF OpenDirectly
<1>7. ASSUME NEW q \in Bases \union 1..MaxStock, QuickQuantity(m, q)
      PROVE  Tap
  <2>1. Same(m) /\ fsm' = [fsm EXCEPT !.qty = q] /\ ItemPage(m, fsm.item, q)
        /\ UNCHANGED <<goods, served, used, edits>>
    BY <1>7 DEF QuickQuantity, SetQuantity
  <2>2. q \in Nat
    BY ShopAssumption
  <2> QED
    BY <2>1, <2>2, FsmNow, QuantityTap
<1> QED
  BY <1>1, <1>2, <1>3, <1>4, <1>5, <1>6, <1>7

-------------------------------------------------------------------------------
(* The other steps *)

LEMMA RefreshStep ==
  ASSUME ShopInv, NEW m \in Screens, Refresh(m)
  PROVE  ShopInv'
<1> DEFINE g == fsm.item
           stock == goods[g].stock
           q == IF stock = 0 THEN 1
                ELSE IF stock # Unlimited /\ fsm.qty > stock THEN stock ELSE fsm.qty
           page == [kind |-> "item", item |-> g, stock |-> stock]
<1>1. /\ Same(m) /\ fsm' = [fsm EXCEPT !.qty = q]
      /\ served' = [served EXCEPT ![g] = Cached(goods[g])]
      /\ IF goods[g].status \in {"sold", "manual"}
         THEN screen' = [screen EXCEPT ![m] = page] /\ told' = q
         ELSE told' = Gone /\ UNCHANGED screen
      /\ UNCHANGED <<goods, used, edits>>
  BY DEF Refresh, SetQuantity, ShowQuantity, ShowGone
<1>2. g \in Goods
  BY <1>1, FsmNow
<1>3. goods[g] \in Row /\ served \in [Goods -> CachedRow]
  BY <1>2 DEF ShopInv, ShopTypeOK
<1>4. stock \in {Unlimited} \union Nat /\ q \in Nat
  BY <1>3, FsmNow DEF Row, Unlimited
<1>5. page \in Page /\ page.kind # "receipt"
  BY <1>2, <1>4 DEF Page
<1>6. Cached(goods[g]) \in CachedRow /\ Cached(goods[g]).status = goods[g].status
  BY <1>2, CachedTyped
<1>7. served' \in [Goods -> CachedRow]
  BY <1>1, <1>3, <1>6
<1>8. ServedDeletedIsDeleted'
  BY <1>1, <1>2, <1>3, <1>6 DEF ServedDeletedIsDeleted, ShopInv
<1> HIDE DEF page, q, stock
<1>9. ScreenMove /\ told' \in {q, Gone}
  BY <1>1, <1>5 DEF ScreenMove, ReceiptTrue
<1>10. FsmTyped' /\ fsm'.qty = q
  BY <1>1, <1>4, FsmNow DEF FsmTyped
<1>11. ShopTypeOK' /\ (BoughtFromPage /\ QuantityTold)'
  BY <1>1, <1>4, <1>7, <1>9, <1>10, ScreenKept DEF ShopInv, ShopTypeOK, FsmTyped
<1> QED
  BY <1>8, <1>9, <1>10, <1>11 DEF ShopInv, QuantityKnown

LEMMA PurchaseStep ==
  ASSUME ShopInv, NEW m \in Screens, NEW receipt \in Screens, ConfirmPurchase(m, receipt)
  PROVE  ShopInv'
<1> DEFINE g == fsm.item
           page == [kind |-> "receipt", item |-> fsm.item, qty |-> fsm.qty,
                    page |-> screen[m].item, told |-> told]
<1>1. /\ Same(m) /\ served[g].status # "deleted"
      /\ goods[g].stock = Unlimited \/ fsm.qty <= goods[g].stock
      /\ goods' = IF goods[g].stock = Unlimited THEN goods
                  ELSE [goods EXCEPT ![g].stock = goods[g].stock - fsm.qty]
      /\ used' = used \union ({fsm.promo} \ {NoPromo})
      /\ screen' = [screen EXCEPT ![receipt] = page] /\ UNCHANGED told
      /\ UNCHANGED <<served, fsm, edits>>
  BY DEF ConfirmPurchase, Show, Receipt
<1>2. g \in Goods /\ screen[m].item = g
  BY <1>1, FsmNow DEF Same
<1>3. told \in {fsm.qty, Gone} /\ told \in Nat \union {Gone}
  BY <1>1, <1>2, ShopAssumption DEF ShopInv, ShopTypeOK, QuantityKnown, NoGoods
<1>4. page \in Page /\ ReceiptTrue(page)
  BY <1>2, <1>3, FsmNow DEF Page, ReceiptTrue
<1>5. goods' \in [Goods -> Row] /\ \A h \in Goods : goods'[h].status = goods[h].status
  <2>1. goods \in [Goods -> Row] /\ goods[g] \in Row /\ fsm.qty \in Nat
    BY <1>2, FsmNow DEF ShopInv, ShopTypeOK
  <2>2. CASE goods[g].stock = Unlimited
    BY <1>1, <2>1, <2>2
  <2>3. CASE goods[g].stock # Unlimited
    <3>1. goods[g].stock - fsm.qty \in Nat
      BY <1>1, <2>1, <2>3 DEF Row
    <3>2. [goods[g] EXCEPT !.stock = goods[g].stock - fsm.qty] \in Row
      BY <2>1, <3>1 DEF Row
    <3>3. goods' = [goods EXCEPT ![g] = [goods[g] EXCEPT !.stock = goods[g].stock - fsm.qty]]
      BY <1>1, <2>1, <2>3 DEF Row
    <3> QED
      BY <2>1, <3>2, <3>3 DEF Row
  <2> QED
    BY <2>2, <2>3
<1>6. used' \subseteq Promos
  BY <1>1, FsmNow DEF ShopInv, ShopTypeOK
<1> HIDE DEF page
<1>7. ScreenMove
  BY <1>1, <1>4 DEF ScreenMove
<1>8. ShopTypeOK' /\ (BoughtFromPage /\ QuantityTold)'
  BY <1>1, <1>5, <1>6, <1>7, ScreenKept DEF ShopInv, ShopTypeOK
<1>9. ServedDeletedIsDeleted' /\ QuantityKnown'
  BY <1>1, <1>5 DEF ShopInv, ServedDeletedIsDeleted, QuantityKnown
<1> QED
  BY <1>8, <1>9 DEF ShopInv

LEMMA AroundStep ==
  ASSUME ShopInv, NEW g \in Goods, Edit(g) \/ Refill(g)
  PROVE  ShopInv'
<1>1. goods \in [Goods -> Row] /\ served \in [Goods -> CachedRow] /\ goods[g] \in Row /\ edits \in 0..MaxEdits
  BY DEF ShopInv, ShopTypeOK
<1>2. UNCHANGED <<used, fsm, screen, told>>
  BY DEF Edit, Refill
<1>3. (BoughtFromPage /\ QuantityTold)'
  BY <1>2 DEF ShopInv, BoughtFromPage, QuantityTold, Receipts
<1>4. CASE Edit(g)
  <2>1. goods[g].status # "deleted" /\ UNCHANGED served /\ edits' \in 0..MaxEdits
    BY <1>1, <1>4, ShopAssumption DEF Edit
  <2>2. goods' \in [Goods -> Row] /\ \A h \in Goods : h # g => goods'[h] = goods[h]
    BY <1>1, <1>4, ShopAssumption DEF Edit, Row
  <2>3. ServedDeletedIsDeleted'
    BY <2>1, <2>2 DEF ShopInv, ServedDeletedIsDeleted
  <2> QED
    BY <1>2, <1>3, <2>1, <2>2, <2>3 DEF ShopInv, ShopTypeOK, QuantityKnown
<1>5. CASE Refill(g)
  <2>1. served' = [served EXCEPT ![g] = Cached(goods[g])] /\ UNCHANGED <<goods, edits>>
    BY <1>5 DEF Refill
  <2>2. Cached(goods[g]) \in CachedRow /\ Cached(goods[g]).status = goods[g].status
    BY CachedTyped
  <2>3. served' \in [Goods -> CachedRow]
    BY <1>1, <2>1, <2>2
  <2>4. \A h \in Goods : served[h].status = "deleted" => served'[h].status = "deleted"
    BY <1>1, <2>1, <2>2 DEF ShopInv, ServedDeletedIsDeleted
  <2>5. ServedDeletedIsDeleted'
    BY <1>1, <2>1, <2>2 DEF ShopInv, ServedDeletedIsDeleted
  <2>6. QuantityKnown'
    BY <1>2, <2>4, FsmNow DEF ShopInv, QuantityKnown
  <2> QED
    BY <1>2, <1>3, <2>1, <2>3, <2>5, <2>6 DEF ShopInv, ShopTypeOK
<1> QED
  BY <1>4, <1>5

LEMMA ShopInvStep ==
  ASSUME ShopInv, [ShopNext]_shopVars
  PROVE  ShopInv'
<1>1. CASE UNCHANGED shopVars
  BY <1>1 DEF shopVars, ShopInv, ShopTypeOK, ServedDeletedIsDeleted, QuantityKnown,
    BoughtFromPage, QuantityTold, Receipts
<1>2. ASSUME NEW m \in Screens,
             \/ OpenMenu(m) \/ OpenCategories(m) \/ NotFound(m) \/ Keypad(m) \/ KeypadBack(m)
             \/ ChangeQuantity(m) \/ Refresh(m) \/ BuyAgain(m) \/ Continue(m) \/ ApplyPromo(m)
             \/ RemovePromo(m) \/ Decline(m)
             \/ \E n \in 0..1 : OpenShelf(m, n) \/ OpenDeals(m, n)
             \/ \E i \in 1..PageSize : OpenItem(m, i)
             \/ \E g \in Goods : OpenDirectly(m, g)
             \/ \E q \in Bases \union 1..MaxStock : QuickQuantity(m, q)
             \/ \E p \in Promos : EnterCode(m, p)
             \/ \E receipt \in Screens : ConfirmPurchase(m, receipt)
      PROVE  ShopInv'
  <2>1. CASE Keypad(m) \/ Continue(m)
    BY <2>1, KeypadStep, ContinueStep, TapKeeps
  <2>2. CASE ApplyPromo(m) \/ RemovePromo(m) \/ \E p \in Promos : EnterCode(m, p)
    BY <2>2, PromoStep, TapKeeps
  <2>3. CASE \E n \in 0..1 : OpenShelf(m, n) \/ OpenDeals(m, n)
    BY <2>3, ShelfStep, TapKeeps
  <2>4. CASE Refresh(m) \/ \E receipt \in Screens : ConfirmPurchase(m, receipt)
    BY <2>4, RefreshStep, PurchaseStep
  <2>5. CASE \/ OpenMenu(m) \/ OpenCategories(m) \/ NotFound(m) \/ Decline(m)
             \/ KeypadBack(m) \/ ChangeQuantity(m) \/ BuyAgain(m)
             \/ \E i \in 1..PageSize : OpenItem(m, i)
             \/ \E g \in Goods : OpenDirectly(m, g)
             \/ \E q \in Bases \union 1..MaxStock : QuickQuantity(m, q)
    BY <2>5, TapStep, TapKeeps
  <2> QED
    BY <1>2, <2>1, <2>2, <2>3, <2>4, <2>5
<1>3. ASSUME NEW g \in Goods, Edit(g) \/ Refill(g)
      PROVE  ShopInv'
  BY <1>3, AroundStep
<1> QED
  BY <1>1, <1>2, <1>3 DEF ShopNext

LEMMA ShopInvInit ==
  ASSUME ShopInit
  PROVE  ShopInv
<1>1. goods = [g \in Goods |-> [status |-> "sold", stock |-> MaxStock]]
      /\ served = [g \in Goods |-> Cached(goods[g])]
  BY DEF ShopInit
<1>2. goods \in [Goods -> Row] /\ \A g \in Goods : goods[g].status = "sold"
  BY <1>1, ShopAssumption DEF Row
<1>3. \A g \in Goods : Cached(goods[g]) \in CachedRow /\ Cached(goods[g]).status = "sold"
  BY <1>2 DEF Cached, Count, CachedRow, Row
<1>4. served \in [Goods -> CachedRow] /\ \A g \in Goods : served[g].status = "sold"
  BY <1>1, <1>3
<1>5. Cleared \in [item : Goods \union {NoGoods}, qty : Nat, promo : Promos \union {NoPromo},
                   awaiting : BOOLEAN, shelf : Seq(Goods)]
      /\ Cleared.item = NoGoods
  BY EmptySeq DEF Cleared
<1>6. Menu \in Page /\ Menu.kind # "receipt"
  BY DEF Menu, Page
<1>7. screen \in [Screens -> Page] /\ \A m \in Screens : ReceiptTrue(screen[m])
  BY <1>6 DEF ShopInit, ReceiptTrue
<1>8. ShopTypeOK
  BY <1>2, <1>4, <1>5, <1>7, ShopAssumption DEF ShopInit, ShopTypeOK
<1> QED
  BY <1>2, <1>4, <1>5, <1>7, <1>8, ReceiptsTrue
  DEF ShopInit, ShopInv, ServedDeletedIsDeleted, QuantityKnown

LEMMA ShopInvHolds == ShopSpec => []ShopInv
<1>1. ShopInit => ShopInv
  BY ShopInvInit
<1>2. ShopInv /\ [ShopNext]_shopVars => ShopInv'
  BY ShopInvStep
<1> QED
  BY <1>1, <1>2, PTL DEF ShopSpec

-------------------------------------------------------------------------------
(* Theorems about the shop *)

\* The stock of no product goes below zero, and the FSM and the pages hold what they name,
\* whichever buttons of whichever messages are tapped.
THEOREM ShopTypeCorrect == ShopSpec => []ShopTypeOK
<1>1. ShopInv => ShopTypeOK
  BY DEF ShopInv
<1> QED
  BY <1>1, ShopInvHolds, PTL

\* For any products, codes, messages and edits, the product that buy_item_callback_handler
\* buys is the one of the page whose button was tapped.
THEOREM BoughtIsOnPage == ShopSpec => []BoughtFromPage
<1>1. ShopInv => BoughtFromPage
  BY DEF ShopInv
<1> QED
  BY <1>1, ShopInvHolds, PTL

\* Whatever way the quantity of the FSM was set or put right (quick buttons, keypad,
\* refresh:item, the checkout page), it is bought as the customer was told it last: a page
\* that could not be drawn leaves a product that the purchase refuses.
THEOREM BoughtAsTold == ShopSpec => []QuantityTold
<1>1. ShopInv => QuantityTold
  BY DEF ShopInv
<1> QED
  BY <1>1, ShopInvHolds, PTL

===============================================================================
