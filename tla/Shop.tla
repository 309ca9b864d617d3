----------------------------------- MODULE Shop -----------------------------------
(***************************************************************************)
(* The shop as one customer walks through it, from the lists of products   *)
(* to the purchase: bot/handlers/user/shop_and_goods.py with the keyboards *)
(* of bot/keyboards/inline.py, and the purchase button of                  *)
(* bot/handlers/user/balance_and_payment.py.                               *)
(*                                                                         *)
(* What the customer is about to buy is kept in one FSM record, while      *)
(* every message sent before keeps its buttons: the messages are Screens,  *)
(* and any of them may be tapped next.  The customer waits for the page    *)
(* that answers a tap, but may tap "Confirm" again while the purchase      *)
(* runs.  Prices, and purchases at the same time, are left to Storefront.  *)
(***************************************************************************)
EXTENDS Integers, FiniteSets, Sequences

CONSTANTS
  Goods,      \* the products: numbers, in the order of their names
  Deals,      \* those shown as popular deals
  Promos,     \* promo codes
  Bound,      \* the product each code is bound to, or AnyGoods
  Screens,    \* the messages of the chat that still have buttons
  PageSize,   \* products of a list's page, 10
  Bases,      \* the quick quantities, 1 to 50
  Base, Digits, \* what the keypad takes: 4 digits of base 10
  MaxUnlimited, \* what may be ordered of an unlimited product, 1000
  MaxOrder,   \* what ItemPurchaseRequest accepts, 100
  MaxStock,   \* bound on the units in stock
  MaxEdits    \* bound on what administrators and other customers do

ASSUME ShopAssumption ==
  /\ Goods \subseteq Nat \ {0} /\ IsFiniteSet(Goods) /\ Deals \subseteq Goods
  /\ PageSize \in Nat \ {0} /\ Bases \subseteq Nat \ {0} /\ Base \in Nat \ {0}
  /\ MaxStock \in Nat /\ MaxEdits \in Nat

VARIABLES
  goods,   \* each product's row, and its count of values
  served,  \* what the cache serves of it: item_info and item_values
  used,    \* the codes the customer has used
  fsm,     \* the FSM data of the chat
  screen,  \* the page each message shows
  told,    \* the quantity the customer was last shown for the product in the FSM
  edits    \* edits so far

shopVars == <<goods, served, used, fsm, screen, told, edits>>

Unlimited == -1
AnyGoods == 0
NoGoods == 0
NoPromo == "no promo"
Gone == -1          \* told that the product is not to be had
Menu == [kind |-> "menu"]
Cleared == [item |-> NoGoods, qty |-> 1, promo |-> NoPromo, awaiting |-> FALSE, shelf |-> <<>>]

Count(row) == IF row.stock = Unlimited THEN 1 ELSE row.stock
Cached(row) == [status |-> row.status, count |-> Count(row)]

\* select_item_values_amount_cached, next to check_value, which is not cached.
Amount(g) == IF goods[g].stock = Unlimited THEN Unlimited ELSE served[g].count

Enough(g, q) == Amount(g) = Unlimited \/ q <= Amount(g)

Row == [status : {"sold", "manual", "hidden", "deleted"}, stock : {Unlimited} \union Nat]
CachedRow == [status : {"sold", "manual", "hidden", "deleted"}, count : Nat]

Page ==
  {Menu} \union [kind : {"categories"}] \union [kind : {"shelf"}, size : Nat]
    \union [kind : {"item"}, item : Goods, stock : {Unlimited} \union Nat]
    \union [kind : {"keypad", "prompt"}, item : Goods]
    \union [kind : {"checkout"}, item : Goods, promo : Promos \union {NoPromo}]
    \union [kind : {"receipt"}, item : Goods, qty : Nat, page : Goods, told : Nat \union {Gone}]

ShopTypeOK ==
  /\ goods \in [Goods -> Row]
  /\ served \in [Goods -> CachedRow]
  /\ used \subseteq Promos
  /\ fsm \in [item : Goods \union {NoGoods}, qty : Nat, promo : Promos \union {NoPromo},
              awaiting : BOOLEAN, shelf : Seq(Goods)]
  /\ screen \in [Screens -> Page]
  /\ told \in Nat \union {Gone}
  /\ edits \in 0..MaxEdits

ShopInit ==
  /\ goods = [g \in Goods |-> [status |-> "sold", stock |-> MaxStock]]
  /\ served = [g \in Goods |-> Cached(goods[g])]
  /\ used = {}
  /\ fsm = Cleared
  /\ screen = [m \in Screens |-> Menu]
  /\ told = Gone
  /\ edits = 0

-------------------------------------------------------------------------------
(* Pages *)

Show(m, page) == screen' = [screen EXCEPT ![m] = page] /\ UNCHANGED told

\* A page of a product that names a quantity.
ShowQuantity(m, page, q) ==
  /\ screen' = [screen EXCEPT ![m] = page]
  /\ told' = q

ShowGone == told' = Gone /\ UNCHANGED screen

\* _render_item_page: for a product that is not sold any more an alert and no page.
ItemPage(m, g, q) ==
  IF served[g].status \in {"sold", "manual"}
  THEN ShowQuantity(m, [kind |-> "item", item |-> g, stock |-> Amount(g)], q)
  ELSE ShowGone

\* _render_keypad_page: without the product nothing is drawn and nothing said.
KeypadPage(m, g, q) ==
  IF served[g].status # "deleted"
  THEN ShowQuantity(m, [kind |-> "keypad", item |-> g], q)
  ELSE UNCHANGED <<screen, told>>

\* validate_promo_for_item.
Valid(p, g) == p \notin used /\ Bound[p] \in {AnyGoods, g}

\* Fault: the page shows what can be had, the FSM keeps what was asked for.
AskedFor(g, q) == q

\* A quantity that was in stock when it was chosen.
Clamped(g, q) == IF Enough(g, q) THEN q ELSE Amount(g)

\* _render_checkout_page, for the data of the FSM: it puts right the quantity and the code.
\* The balance decides whether the page has the button to confirm, which may not be used.
CheckoutPage(m, data) ==
  LET g == data.item
      q == IF Enough(g, data.qty) THEN data.qty ELSE Amount(g)
      p == IF data.promo # NoPromo /\ ~Valid(data.promo, g) THEN NoPromo ELSE data.promo
  IN IF served[g].status = "deleted"
     THEN fsm' = data /\ UNCHANGED <<screen, told>>
     ELSE /\ fsm' = [data EXCEPT !.qty = Clamped(g, @), !.promo = p]
          /\ ShowQuantity(m, [kind |-> "checkout", item |-> g, promo |-> p], q)

-------------------------------------------------------------------------------
(* Lists *)

\* query_items_in_category and query_popular_deals: what is on sale, in the order of the
\* names; the one list there is, as a set.
Listings(of) ==
  LET onSale == {g \in of : goods[g].status \in {"sold", "manual"}}
  IN {list \in [1..Cardinality(onSale) -> onSale] :
        \A i, j \in DOMAIN list : i < j => list[i] < list[j]}

PageOf(list, n) ==
  LET last == (n + 1) * PageSize
  IN SubSeq(list, n * PageSize + 1, IF last < Len(list) THEN last ELSE Len(list))

\* back_to_menu, and every command: the FSM is cleared.
OpenMenu(m) ==
  /\ screen[m] # Menu
  /\ fsm' = Cleared
  /\ Show(m, Menu)
  /\ UNCHANGED <<goods, served, used, edits>>

\* _render_category_page: a page of categories.
OpenCategories(m) ==
  /\ screen[m].kind \in {"menu", "shelf"}
  /\ Show(m, [kind |-> "categories"])
  /\ UNCHANGED <<goods, served, used, fsm, edits>>

\* The FSM holds the products of the page that was shown last, the buttons of any page
\* only positions in it.
ShowShelf(m, list, n) ==
  LET page == PageOf(list, n)
  IN /\ n > 0 => page # <<>>
     /\ fsm' = [fsm EXCEPT !.shelf = page]
     /\ Show(m, [kind |-> "shelf", size |-> Len(page)])
     /\ UNCHANGED <<goods, served, used, edits>>

\* _render_goods_page: the products of a category.
OpenShelf(m, n) ==
  /\ screen[m].kind \in {"categories", "shelf", "item"}
  /\ \E list \in Listings(Goods) : ShowShelf(m, list, n)

\* _render_popular_deals_page.
OpenDeals(m, n) ==
  /\ screen[m].kind \in {"menu", "categories", "shelf", "item"}
  /\ \E list \in Listings(Deals) : ShowShelf(m, list, n)

\* item_info_callback_handler and pd_item_info_callback_handler.
OpenItem(m, i) ==
  /\ screen[m].kind = "shelf" /\ i <= screen[m].size
  /\ i <= Len(fsm.shelf)
  /\ fsm' = [fsm EXCEPT !.item = fsm.shelf[i], !.qty = 1]
  /\ ItemPage(m, fsm.shelf[i], 1)
  /\ UNCHANGED <<goods, served, used, edits>>

\* direct_item, from a button of the main menu or of a restock notice: a new message.
OpenDirectly(m, g) ==
  /\ goods[g].status # "deleted"
  /\ fsm' = [fsm EXCEPT !.item = g, !.qty = 1]
  /\ ItemPage(m, g, 1)
  /\ UNCHANGED <<goods, served, used, edits>>

-------------------------------------------------------------------------------
(* The quantity *)

\* Fault: the button is trusted to be of the product that the FSM holds.
Trusted(m) == fsm.item # NoGoods

\* Every button names its product, which is compared with the FSM's.
Same(m) == fsm.item # NoGoods /\ fsm.item = screen[m].item

\* Otherwise some handlers replace the page and the others only say so.
NotFound(m) ==
  /\ screen[m].kind \in {"item", "checkout", "receipt", "prompt"}
  /\ ~Same(m)
  /\ Show(m, Menu)
  /\ UNCHANGED <<goods, served, used, fsm, edits>>

InStock(m) == screen[m].kind = "item" /\ screen[m].stock # 0

\* get_quick_quantities of the stock the page was made for.
QuickQuantities(stock) ==
  IF stock = Unlimited THEN Bases ELSE {b \in Bases \union {stock} : b <= stock}

SetQuantity(q) == fsm' = [fsm EXCEPT !.qty = q]

QuickQuantity(m, q) ==
  /\ InStock(m) /\ q \in QuickQuantities(screen[m].stock)
  /\ Same(m) /\ Enough(fsm.item, q)
  /\ SetQuantity(q)
  /\ ItemPage(m, fsm.item, q)
  /\ UNCHANGED <<goods, served, used, edits>>

\* Fault: the fifth digit is accepted.
Unchecked(q) == TRUE

FitsKeypad(q) == q < Base ^ Digits

\* The keypad opens at 0, "C" sets it to 0 again, a digit and the backspace change it.
Keypad(m) ==
  /\ InStock(m) \/ screen[m].kind = "keypad"
  /\ Same(m)
  /\ \E q \in {0} \union
       (IF screen[m].kind = "item" THEN {}
        ELSE {fsm.qty \div Base} \union {fsm.qty * Base + d : d \in 0..Base - 1}) :
       /\ FitsKeypad(q)
       /\ SetQuantity(q)
       /\ KeypadPage(m, fsm.item, q)
  /\ UNCHANGED <<goods, served, used, edits>>

KeypadBack(m) ==
  /\ screen[m].kind = "keypad" /\ Same(m)
  /\ SetQuantity(1)
  /\ ItemPage(m, fsm.item, 1)
  /\ UNCHANGED <<goods, served, used, edits>>

\* "Change quantity" and "Back" of the checkout page.
ChangeQuantity(m) ==
  /\ screen[m].kind = "checkout" /\ Same(m)
  /\ UNCHANGED fsm
  /\ ItemPage(m, fsm.item, fsm.qty)
  /\ UNCHANGED <<goods, served, used, edits>>

\* refresh:item drops the cached rows and puts right a quantity that is too large; the
\* buttons about restock alerts only draw the page again.
Refresh(m) ==
  LET g == fsm.item
      stock == goods[g].stock
      q == IF stock = 0 THEN 1
           ELSE IF stock # Unlimited /\ fsm.qty > stock THEN stock ELSE fsm.qty
  IN /\ screen[m].kind = "item" /\ Same(m)
     /\ served' = [served EXCEPT ![g] = Cached(goods[g])]
     /\ SetQuantity(q)
     /\ IF goods[g].status \in {"sold", "manual"}
        THEN ShowQuantity(m, [kind |-> "item", item |-> g, stock |-> stock], q)
        ELSE ShowGone
     /\ UNCHANGED <<goods, used, edits>>

BuyAgain(m) ==
  /\ screen[m].kind = "receipt" /\ Same(m)
  /\ SetQuantity(1)
  /\ ItemPage(m, fsm.item, 1)
  /\ UNCHANGED <<goods, served, used, edits>>

-------------------------------------------------------------------------------
(* Checkout *)

\* continue_product_checkout, by the row and not by the cache; it does not ask whether the
\* product is still shown.  A manual product goes on to its form,
\* whose pages are those of IntakeDialog.
Continue(m) ==
  LET g == fsm.item
      enough == IF goods[g].stock = Unlimited THEN fsm.qty <= MaxUnlimited ELSE Enough(g, fsm.qty)
  IN /\ \/ InStock(m)
        \/ screen[m].kind = "prompt"
        \/ screen[m].kind = "keypad" /\ fsm.qty > 0
     /\ Same(m)
     /\ IF goods[g].status = "deleted" THEN Show(m, Menu) /\ UNCHANGED fsm
        ELSE /\ enough
             /\ IF goods[g].status = "manual"
                THEN Show(m, Menu) /\ UNCHANGED fsm
                ELSE CheckoutPage(m, fsm)
     /\ UNCHANGED <<goods, served, used, edits>>

ApplyPromo(m) ==
  /\ screen[m].kind = "checkout" /\ screen[m].promo = NoPromo /\ Same(m)
  /\ fsm' = [fsm EXCEPT !.awaiting = TRUE]
  /\ Show(m, [kind |-> "prompt", item |-> screen[m].item])
  /\ UNCHANGED <<goods, served, used, edits>>

RemovePromo(m) ==
  /\ screen[m].kind = "checkout" /\ screen[m].promo # NoPromo /\ Same(m)
  /\ CheckoutPage(m, [fsm EXCEPT !.promo = NoPromo])
  /\ UNCHANGED <<goods, served, used, edits>>

\* Any text is a code while one is awaited, for whatever product the FSM holds by then.
EnterCode(m, p) ==
  /\ fsm.awaiting
  /\ IF fsm.item = NoGoods \/ ~Valid(p, fsm.item)
     THEN /\ fsm' = [fsm EXCEPT !.awaiting = FALSE]
          /\ IF fsm.item = NoGoods THEN UNCHANGED <<screen, told>>
             ELSE Show(m, [kind |-> "prompt", item |-> fsm.item])
     ELSE CheckoutPage(m, [fsm EXCEPT !.awaiting = FALSE, !.promo = p])
  /\ UNCHANGED <<goods, served, used, edits>>

\* render_purchase_success_from_order: what was bought, as the order has it.  page and told
\* record the page that was confirmed and the quantity the customer was shown last.
Receipt(m) == [kind |-> "receipt", item |-> fsm.item, qty |-> fsm.qty,
               page |-> screen[m].item, told |-> told]

\* buy_item_callback_handler, with the values of the FSM it has read once, and
\* buy_item_transaction: the product may be hidden by now.  The FSM keeps product, quantity
\* and code.  The receipt is a message of its own, and the page goes, if it is not tapped
\* again before.
ConfirmPurchase(m, receipt) ==
  LET g == fsm.item
  IN /\ screen[m].kind = "checkout" /\ Same(m)
     /\ served[g].status \notin {"deleted", "manual"}
     /\ fsm.qty \in 1..MaxOrder
     /\ goods[g].status \in {"sold", "hidden"}
     /\ goods[g].stock = Unlimited \/ fsm.qty <= goods[g].stock
     /\ fsm.promo # NoPromo => Valid(fsm.promo, g)
     /\ goods' = IF goods[g].stock = Unlimited THEN goods
                 ELSE [goods EXCEPT ![g].stock = @ - fsm.qty]
     /\ used' = used \union ({fsm.promo} \ {NoPromo})
     /\ Show(receipt, Receipt(m))
     /\ UNCHANGED <<served, fsm, edits>>

\* The purchase fails: no product, no stock, no money, a code that does not hold.
Decline(m) ==
  /\ screen[m].kind = "checkout" /\ Same(m)
  /\ Show(m, Menu)
  /\ UNCHANGED <<goods, served, used, fsm, edits>>

-------------------------------------------------------------------------------
(* Around the customer *)

\* An administrator hides, deletes or restocks a product, others buy it.
Edit(g) ==
  /\ edits < MaxEdits
  /\ edits' = edits + 1
  /\ goods[g].status # "deleted"
  /\ \/ \E s \in {"sold", "manual", "hidden", "deleted"} : goods' = [goods EXCEPT ![g].status = s]
     \/ \E n \in {Unlimited} \union 0..MaxStock : goods' = [goods EXCEPT ![g].stock = n]
  /\ UNCHANGED <<served, used, fsm, screen, told>>

\* A cached row expires or is dropped, and is read again.
Refill(g) ==
  /\ served[g] # Cached(goods[g])
  /\ served' = [served EXCEPT ![g] = Cached(goods[g])]
  /\ UNCHANGED <<goods, used, fsm, screen, told, edits>>

ShopNext ==
  \/ \E m \in Screens :
       \/ OpenMenu(m) \/ OpenCategories(m) \/ NotFound(m) \/ Keypad(m) \/ KeypadBack(m)
       \/ ChangeQuantity(m) \/ Refresh(m) \/ BuyAgain(m) \/ Continue(m) \/ ApplyPromo(m)
       \/ RemovePromo(m) \/ Decline(m)
       \/ \E n \in 0..1 : OpenShelf(m, n) \/ OpenDeals(m, n)
       \/ \E i \in 1..PageSize : OpenItem(m, i)
       \/ \E g \in Goods : OpenDirectly(m, g)
       \/ \E q \in Bases \union 1..MaxStock : QuickQuantity(m, q)
       \/ \E p \in Promos : EnterCode(m, p)
       \/ \E receipt \in Screens : ConfirmPurchase(m, receipt)
  \/ \E g \in Goods : Edit(g) \/ Refill(g)

ShopSpec == ShopInit /\ [][ShopNext]_shopVars

-------------------------------------------------------------------------------
(* Properties *)

Receipts == {screen[m] : m \in {n \in Screens : screen[n].kind = "receipt"}}

\* Whatever page the FSM has moved on to, the product that is bought is the one of the page
\* whose "Confirm" was tapped.
BoughtFromPage == \A r \in Receipts : r.item = r.page

\* The quantity that is bought is the one the customer was shown last for the product, by
\* whichever message, unless the last word was that it is not to be had.
QuantityTold == \A r \in Receipts : r.told \in {r.qty, Gone}

===============================================================================
