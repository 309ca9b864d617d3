------------------------------ MODULE Storefront ------------------------------
(***************************************************************************)
(* The shop of bot/database/methods/transactions.py: direct purchases with *)
(* their order, the cart checkout, balance promo codes and the balance an  *)
(* administrator sets, against the stock, the promo codes and the products *)
(* that administrators edit meanwhile (create.py, delete.py, update.py).   *)
(*                                                                         *)
(* Every operation is one database transaction.  The ones that move money  *)
(* lock the user, the product, the promo code and the stock rows before    *)
(* they read them, so each is one step; a call the code refuses rolls back *)
(* and is a stutter.  Money is in cents.  What a purchase earns a referrer *)
(* is the subject of ReferralLedger.                                       *)
(***************************************************************************)
EXTENDS Integers, Sequences, FiniteSets, RunningTotals

CONSTANTS
  Users,          \* telegram ids
  Items,          \* products
  Values,         \* ids of the stock rows administrators may add
  Home,           \* the product of each stock row
  Infinite,       \* the stock rows with is_infinity
  Price,          \* price of each product
  Promos,         \* promo codes
  Discount,       \* [kind, value, max, item] of each promo code
  Drafts,         \* public tokens of intake drafts
  Schemas,        \* fingerprints of a product's customer fields
  NULL,           \* SQL NULL
  Quantities,     \* quantities a customer may ask for
  Amounts,        \* amounts an administrator may add to a balance or take from it
  InitialBalance, \* the balance each user starts with
  InitialMode,    \* fulfillment_mode of each product at the start
  CartMax,        \* CART_MAX_ITEMS
  MaxRows,        \* bound on the number of orders and of bought rows
  MaxBalance      \* bound on a balance that is topped up

ASSUME SetsAssumption ==
  /\ NULL \notin Users \cup Items \cup Promos \cup Drafts \cup Schemas
  /\ IsFiniteSet(Values)
  /\ Infinite \subseteq Values
  /\ Home \in [Values -> Items]
  /\ InitialMode \in [Items -> {"instant", "manual"}]
ASSUME MoneyAssumption ==
  /\ Price \in [Items -> Nat]
  /\ InitialBalance \in [Users -> Nat]
  /\ Quantities \subseteq Nat \ {0}
  /\ Amounts \subseteq Nat \ {0}
  /\ Discount \in [Promos -> [kind : {"percent", "fixed", "balance"},
                              value : Nat, max : Nat, item : Items \cup {NULL}]]
  /\ \A p \in Promos : Discount[p].kind = "percent" => Discount[p].value <= 100
ASSUME LimitsAssumption == {CartMax, MaxRows, MaxBalance} \subseteq Nat

VARIABLES
  balance,     \* users.balance
  operations,  \* per user, the sum of its rows in operations
  goods,       \* products: still listed, fulfillment_mode, current fields
  shelf,       \* item_values: the stock rows for sale
  unused,      \* stock rows no administrator has added yet
  promos,      \* promo_codes: present, active, expired, current_uses, item_id
  usages,      \* promo_code_usages: pairs of a code and a user
  cart,        \* cart_items of each user
  drafts,      \* checkout_intake_drafts by token, NULL before it exists
  orders,      \* orders, each with its single order item
  bought       \* bought_goods

vars == <<balance, operations, goods, shelf, unused, promos, usages, cart,
          drafts, orders, bought>>

Good   == [listed : BOOLEAN, mode : {"instant", "manual"}, fields : Schemas]
Promo  == [present : BOOLEAN, active : BOOLEAN, expired : BOOLEAN, uses : Nat,
           item : Items \cup {NULL}]
Line   == [item : Items, promo : Promos \cup {NULL}]
Draft  == [user : Users, item : Items, quantity : Nat, fields : Schemas,
           status : {"pending", "consumed", "closed"}, order : Nat]
Order  == [user : Users, item : Items, quantity : Nat, total : Nat,
           manual : BOOLEAN, draft : Drafts \cup {NULL}, promo : Promos \cup {NULL}]
Bought == [user : Users, value : Values, price : Nat, order : Nat]

ASSUME RowsAssumption == NULL \notin Draft

TypeOK ==
  /\ balance \in [Users -> Nat]
  /\ operations \in [Users -> Int]
  /\ goods \in [Items -> Good]
  /\ shelf \subseteq Values
  /\ unused \subseteq Values
  /\ promos \in [Promos -> Promo]
  /\ usages \subseteq Promos \X Users
  /\ cart \in [Users -> Seq(Line)]
  /\ drafts \in [Drafts -> Draft \cup {NULL}]
  /\ orders \in Seq(Order)
  /\ bought \in Seq(Bought)

Init ==
  /\ balance = InitialBalance
  /\ operations = [u \in Users |-> 0]
  /\ goods \in {[i \in Items |-> [listed |-> TRUE, mode |-> InitialMode[i],
                                  fields |-> s]] : s \in Schemas}
  /\ shelf = {}
  /\ unused = Values
  /\ promos = [p \in Promos |-> [present |-> TRUE, active |-> TRUE, expired |-> FALSE,
                                 uses |-> 0, item |-> Discount[p].item]]
  /\ usages = {}
  /\ cart = [u \in Users |-> << >>]
  /\ drafts = [d \in Drafts |-> NULL]
  /\ orders = << >>
  /\ bought = << >>

-------------------------------------------------------------------------------
(* Stock, prices and promo codes *)

Lesser(a, b) == IF a <= b THEN a ELSE b

Shelf(i) == {v \in shelf : Home[v] = i}

\* Decimal.quantize: to the cent, a half to the even cent.
HalfEven(n, d) ==
  LET q == n \div d
      r == n % d
  IN  IF 2 * r > d \/ (2 * r = d /\ q % 2 = 1) THEN q + 1 ELSE q

Discounted(i, p) ==
  CASE p = NULL                      -> Price[i]
    [] p # NULL /\ Discount[p].kind = "percent" ->
         HalfEven(Price[i] * (100 - Discount[p].value), 100)
    [] OTHER -> Price[i] - Lesser(Discount[p].value, Price[i])

\* Fault: the per-user lookup is left out.
OpenToAll(p, u) ==
  /\ promos[p].present /\ promos[p].active /\ ~promos[p].expired
  /\ Discount[p].max > 0 => promos[p].uses < Discount[p].max

\* Fault: the limit on uses is off by one.
OpenOnceMore(p, u) ==
  /\ promos[p].present /\ promos[p].active /\ ~promos[p].expired
  /\ Discount[p].max > 0 => promos[p].uses <= Discount[p].max
  /\ <<p, u>> \notin usages

\* A code the user may still use: neither worn out nor used by the same user.
Open(p, u) ==
  /\ promos[p].present /\ promos[p].active /\ ~promos[p].expired
  /\ Discount[p].max > 0 => promos[p].uses < Discount[p].max
  /\ <<p, u>> \notin usages

\* A code that discounts product i, directly or from the cart.
Valid(p, u, i) ==
  /\ Discount[p].kind # "balance"
  /\ Open(p, u)
  /\ promos[p].item \in {NULL, i}

\* current_uses of every used code grows, and its usage row is added.
UseAll(used, u) ==
  /\ promos' = [p \in Promos |-> IF p \in used
                                 THEN [promos[p] EXCEPT !.uses = @ + 1]
                                 ELSE promos[p]]
  /\ usages' = usages \cup (used \X {u})

Chosen(p) == {p} \ {NULL}

-------------------------------------------------------------------------------
(* Direct purchase: buy_item_transaction *)

\* Fault: the balance is not checked before it is debited.
OnCredit(u, total) == TRUE

Affordable(u, total) == balance[u] >= total

\* A manual product is bought with a pending draft that matches it, and an
\* instant one without.
Backed(d, u, i, q) ==
  IF goods[i].mode = "instant" THEN d = NULL
  ELSE /\ d # NULL
       /\ drafts[d] # NULL
       /\ drafts[d].status = "pending"
       /\ drafts[d].user = u /\ drafts[d].item = i
       /\ drafts[d].quantity = q
       /\ drafts[d].fields = goods[i].fields

Listing(R) ==
  CHOOSE f \in [1..Cardinality(R) -> R] :
    \A j, k \in DOMAIN f : f[j] = f[k] => j = k

\* What a purchase of q units may be given, and the stock rows it uses up.  The
\* query takes q rows in any order; when the first is unlimited it stands for
\* all of them and stays for sale.
Dispensed(i, q) ==
  {[given |-> [k \in 1..q |-> v], taken |-> {}] : v \in Shelf(i) \cap Infinite}
  \cup
  {[given |-> Listing(R), taken |-> R] :
     R \in {S \in SUBSET Shelf(i) : Cardinality(S) = q /\ ~(S \subseteq Infinite)}}

\* Fault: the operation is recorded for the price of one unit.
UnitOperation(i, q, p) == Discounted(i, p)

OrderTotal(i, q, p) == q * Discounted(i, p)

\* Fault: the draft stays pending once its order is paid.
StillPending(d) == drafts

Consume(d) ==
  IF d = NULL THEN drafts
  ELSE [drafts EXCEPT ![d].status = "consumed", ![d].order = Len(orders) + 1]

\* Fault: the units of a manual order are handed over with the receipt.
RowsAtOnce(u, i, q, p, given) ==
  [k \in 1..q |-> [user |-> u, value |-> given[k], price |-> Discounted(i, p),
                   order |-> Len(orders) + 1]]

\* The bought rows of an instant order, one per unit; a manual order has none.
DeliveryRows(u, i, q, p, given) ==
  IF goods[i].mode = "manual" THEN << >>
  ELSE [k \in 1..q |-> [user |-> u, value |-> given[k], price |-> Discounted(i, p),
                        order |-> Len(orders) + 1]]

Buy(u, i, q, p, d) ==
  /\ Len(orders) < MaxRows
  /\ goods[i].listed
  /\ Backed(d, u, i, q)
  /\ p # NULL => Valid(p, u, i)
  /\ Affordable(u, q * Discounted(i, p))
  /\ \E s \in Dispensed(i, q) :
       /\ shelf' = shelf \ s.taken
       /\ bought' = bought \o DeliveryRows(u, i, q, p, s.given)
  /\ balance' = [balance EXCEPT ![u] = @ - q * Discounted(i, p)]
  /\ operations' = [operations EXCEPT ![u] = @ - OrderTotal(i, q, p)]
  /\ UseAll(Chosen(p), u)
  /\ orders' = Append(orders,
       [user |-> u, item |-> i, quantity |-> q, total |-> q * Discounted(i, p),
        manual |-> goods[i].mode = "manual", draft |-> d, promo |-> p])
  /\ drafts' = Consume(d)
  /\ UNCHANGED <<goods, unused, cart>>

-------------------------------------------------------------------------------
(* Cart: add_to_cart, remove_from_cart, clear_cart, checkout_cart_transaction *)

TakesMore(u, i) == Len(cart[u]) < CartMax /\ goods[i].listed

\* The button of the cart.  A line keeps the code that was applied on the
\* product's page, valid then.
AddToCart(u, i, p) ==
  /\ TakesMore(u, i)
  /\ p # NULL => Discount[p].kind # "balance"
  /\ cart' = [cart EXCEPT ![u] = Append(@, [item |-> i, promo |-> p])]
  /\ UNCHANGED <<balance, operations, goods, shelf, unused, promos, usages,
                 drafts, orders, bought>>

RemoveFromCart(u, k) ==
  /\ cart' = [cart EXCEPT ![u] = SubSeq(@, 1, k - 1) \o SubSeq(@, k + 1, Len(@))]
  /\ UNCHANGED <<balance, operations, goods, shelf, unused, promos, usages,
                 drafts, orders, bought>>

ClearCart(u) ==
  /\ cart[u] # << >>
  /\ cart' = [cart EXCEPT ![u] = << >>]
  /\ UNCHANGED <<balance, operations, goods, shelf, unused, promos, usages,
                 drafts, orders, bought>>

\* Fault: two lines of a cart may be given the same stock row.
Unclaimed(f, k, j) == TRUE

Claimed(f, k, j) == f[k] # f[j]

\* The stock row each line of the cart claims, lines being read in any order: a
\* line goes without when the other lines claim every row of its product.
Claims(u) ==
  {f \in UNION {[L -> shelf] : L \in SUBSET DOMAIN cart[u]} :
     /\ \A k \in DOMAIN f : Home[f[k]] = cart[u][k].item
     /\ \A k, j \in DOMAIN f : k # j => Claimed(f, k, j)
     /\ \A k \in DOMAIN cart[u] \ DOMAIN f :
          \A v \in Shelf(cart[u][k].item) : \E j \in DOMAIN f : f[j] = v}

LinePrice(u, k) == Discounted(cart[u][k].item, cart[u][k].promo)

CartTotal(u, L) ==
  Total([k \in DOMAIN cart[u] |-> IF k \in L THEN LinePrice(u, k) ELSE 0],
        Len(cart[u]))

Nth(L, n) == CHOOSE k \in L : Cardinality({j \in L : j < k}) = n - 1

\* Every line that has a row is sold, and the cart is emptied of the others too.
\* No operation is recorded and no order is made.  A code on two lines fails the
\* unique constraint of its usage row.
Checkout(u) ==
  \E f \in Claims(u) :
    LET L == DOMAIN f
        codes == {cart[u][k].promo : k \in L} \ {NULL}
    IN  /\ L # {}
        /\ Len(bought) < MaxRows
        /\ \A k \in L : cart[u][k].promo # NULL =>
             /\ Valid(cart[u][k].promo, u, cart[u][k].item)
             /\ \A j \in L : cart[u][j].promo = cart[u][k].promo => j = k
        /\ Affordable(u, CartTotal(u, L))
        /\ shelf' = shelf \ ({f[k] : k \in L} \ Infinite)
        /\ bought' = bought \o [n \in 1..Cardinality(L) |->
             [user |-> u, value |-> f[Nth(L, n)],
              price |-> LinePrice(u, Nth(L, n)), order |-> 0]]
        /\ UseAll(codes, u)
        /\ balance' = [balance EXCEPT ![u] = @ - CartTotal(u, L)]
        /\ cart' = [cart EXCEPT ![u] = << >>]
        /\ UNCHANGED <<operations, goods, unused, drafts, orders>>

\* A cart whose every product is gone or sold out is emptied.
CheckoutNothing(u) ==
  /\ cart[u] # << >>
  /\ \A k \in DOMAIN cart[u] : Shelf(cart[u][k].item) = {}
  /\ cart' = [cart EXCEPT ![u] = << >>]
  /\ UNCHANGED <<balance, operations, goods, shelf, unused, promos, usages,
                 drafts, orders, bought>>

\* The customer confirms the checkout and is told what came of it.
ConfirmCheckout(u) == Checkout(u) \/ CheckoutNothing(u)

-------------------------------------------------------------------------------
(* Balance: redeem_balance_promo, admin_balance_change *)

Redeem(u, p) ==
  /\ Discount[p].kind = "balance"
  /\ Open(p, u)
  /\ balance' = [balance EXCEPT ![u] = @ + Discount[p].value]
  /\ operations' = [operations EXCEPT ![u] = @ + Discount[p].value]
  /\ UseAll({p}, u)
  /\ UNCHANGED <<goods, shelf, unused, cart, drafts, orders, bought>>

ChangeBalance(u, amount) ==
  /\ amount < 0 => Affordable(u, -amount)
  /\ balance' = [balance EXCEPT ![u] = @ + amount]
  /\ operations' = [operations EXCEPT ![u] = @ + amount]
  /\ UNCHANGED <<goods, shelf, unused, promos, usages, cart, drafts, orders, bought>>

\* The two dialogs of an administrator take a positive amount, without its cents.
TopUp(u, amount) == balance[u] + amount <= MaxBalance /\ ChangeBalance(u, amount)

Deduct(u, amount) == ChangeBalance(u, -amount)

-------------------------------------------------------------------------------
(* Administration of products and codes *)

AddValue(v) ==
  /\ v \in unused
  /\ goods[Home[v]].listed
  /\ shelf' = shelf \cup {v}
  /\ unused' = unused \ {v}
  /\ UNCHANGED <<balance, operations, goods, promos, usages, cart, drafts, orders, bought>>

DeleteValue(v) ==
  /\ v \in shelf
  /\ shelf' = shelf \ {v}
  /\ UNCHANGED <<balance, operations, goods, unused, promos, usages, cart, drafts,
                 orders, bought>>

\* promo_codes.item_id is ON DELETE SET NULL: the code loses its binding.
Unbound(p, i) ==
  IF promos[p].item = i THEN [promos[p] EXCEPT !.item = NULL] ELSE promos[p]

\* delete_item, with what the foreign keys cascade to.  Cart lines name their
\* product and stay.
DeleteItem(i) ==
  /\ goods[i].listed
  /\ goods' = [goods EXCEPT ![i].listed = FALSE]
  /\ shelf' = shelf \ Shelf(i)
  /\ promos' = [p \in Promos |-> Unbound(p, i)]
  /\ drafts' = [d \in Drafts |-> IF drafts[d] # NULL /\ drafts[d].item = i
                                 THEN [drafts[d] EXCEPT !.status = "closed"]
                                 ELSE drafts[d]]
  /\ UNCHANGED <<balance, operations, unused, usages, cart, orders, bought>>

\* The product form of the web panel: delivery mode and customer fields.
EditItem(i, mode, s) ==
  /\ goods[i].listed
  /\ <<mode, s>> # <<goods[i].mode, goods[i].fields>>
  /\ goods' = [goods EXCEPT ![i].mode = mode, ![i].fields = s]
  /\ UNCHANGED <<balance, operations, shelf, unused, promos, usages, cart, drafts,
                 orders, bought>>

\* toggle_promo_code reads the row under its lock.
Toggled(p) == [promos EXCEPT ![p].active = ~@]

TogglePromo(p) ==
  /\ promos[p].present
  /\ promos' = Toggled(p)
  /\ UNCHANGED <<balance, operations, goods, shelf, unused, usages, cart, drafts,
                 orders, bought>>

\* delete_promo_code; its usage rows are ON DELETE CASCADE.
DeletePromo(p) ==
  /\ promos[p].present
  /\ promos' = [promos EXCEPT ![p].present = FALSE]
  /\ usages' = usages \ ({p} \X Users)
  /\ UNCHANGED <<balance, operations, goods, shelf, unused, cart, drafts, orders, bought>>

ExpirePromo(p) ==
  /\ ~promos[p].expired
  /\ promos' = [promos EXCEPT ![p].expired = TRUE]
  /\ UNCHANGED <<balance, operations, goods, shelf, unused, usages, cart, drafts,
                 orders, bought>>

-------------------------------------------------------------------------------
(* Intake drafts, as far as a purchase sees them *)

\* get_or_create_draft: a new draft of a user for a product closes the one that
\* is pending.
OpenDraft(d, u, i, q) ==
  /\ drafts[d] = NULL
  /\ goods[i].listed /\ goods[i].mode = "manual"
  /\ drafts' = [e \in Drafts |->
       CASE e = d -> [user |-> u, item |-> i, quantity |-> q,
                      fields |-> goods[i].fields, status |-> "pending", order |-> 0]
         [] e # d /\ drafts[e] # NULL /\ drafts[e].user = u /\ drafts[e].item = i
              /\ drafts[e].status = "pending" -> [drafts[e] EXCEPT !.status = "closed"]
         [] OTHER -> drafts[e]]
  /\ UNCHANGED <<balance, operations, goods, shelf, unused, promos, usages, cart,
                 orders, bought>>

CloseDraft(d) ==
  /\ drafts[d] # NULL
  /\ drafts[d].status = "pending"
  /\ drafts' = [drafts EXCEPT ![d].status = "closed"]
  /\ UNCHANGED <<balance, operations, goods, shelf, unused, promos, usages, cart,
                 orders, bought>>

-------------------------------------------------------------------------------
Next ==
  \/ \E u \in Users, i \in Items, q \in Quantities,
        p \in Promos \cup {NULL}, d \in Drafts \cup {NULL} : Buy(u, i, q, p, d)
  \/ \E u \in Users, i \in Items, p \in Promos \cup {NULL} : AddToCart(u, i, p)
  \/ \E u \in Users : \E k \in DOMAIN cart[u] : RemoveFromCart(u, k)
  \/ \E u \in Users : ClearCart(u) \/ ConfirmCheckout(u)
  \/ \E u \in Users, p \in Promos : Redeem(u, p)
  \/ \E u \in Users, amount \in Amounts : TopUp(u, amount) \/ Deduct(u, amount)
  \/ \E v \in Values : AddValue(v) \/ DeleteValue(v)
  \/ \E i \in Items : DeleteItem(i)
  \/ \E i \in Items, mode \in {"instant", "manual"}, s \in Schemas : EditItem(i, mode, s)
  \/ \E p \in Promos : TogglePromo(p) \/ DeletePromo(p) \/ ExpirePromo(p)
  \/ \E d \in Drafts, u \in Users, i \in Items, q \in Quantities : OpenDraft(d, u, i, q)
  \/ \E d \in Drafts : CloseDraft(d)

Spec == Init /\ [][Next]_vars

-------------------------------------------------------------------------------
(* Properties *)

\* A stock row that is not unlimited is delivered once: not to two purchases, not
\* twice by one cart, and never while it is still for sale.
SoldOnce ==
  \A r \in DOMAIN bought : bought[r].value \notin Infinite =>
    /\ bought[r].value \notin shelf \cup unused
    /\ \A n \in DOMAIN bought : bought[n].value = bought[r].value => n = r

\* current_uses counts the users of a code, each of them once and max_uses of
\* them at most, whichever of the three operations used it.
UsesCounted ==
  \A p \in Promos : promos[p].present =>
    /\ promos[p].uses = Cardinality({u \in Users : <<p, u>> \in usages})
    /\ Discount[p].max > 0 => promos[p].uses <= Discount[p].max

\* The balance is the opening balance plus the recorded operations, less what
\* cart checkouts took: they leave bought rows without an order, and no operation.
CartSpending(u) ==
  Total([r \in DOMAIN bought |-> IF bought[r].user = u /\ bought[r].order = 0
                                 THEN bought[r].price ELSE 0], Len(bought))

MoneyAudited ==
  \A u \in Users :
    balance[u] = (InitialBalance[u] + operations[u]) - CartSpending(u)

\* An order of a manual product is paid from one draft of its user, and a draft
\* pays for one order, however often its form is confirmed.
DraftsPayOnce ==
  \A n \in DOMAIN orders : orders[n].manual =>
    /\ drafts[orders[n].draft].order = n
    /\ drafts[orders[n].draft].status # "pending"
    /\ drafts[orders[n].draft].user = orders[n].user
    /\ \A m \in DOMAIN orders : orders[m].draft = orders[n].draft => m = n

\* An instant order delivers exactly the units it was paid for, at prices that
\* add up to its total, and an order of a manual product delivers none.
RowsOf(n) == {r \in DOMAIN bought : bought[r].order = n}

OrdersDelivered ==
  \A n \in DOMAIN orders :
    IF orders[n].manual THEN RowsOf(n) = {}
    ELSE /\ Cardinality(RowsOf(n)) = orders[n].quantity
         /\ \A r \in RowsOf(n) : bought[r].price * orders[n].quantity = orders[n].total

\* "Query user's full operations history (topups, purchases, referral bonuses)":
\* the purchases it lists, which are the user's bought rows, add up to the money
\* the user's orders and carts took.
ListedSpending(u) ==
  Total([r \in DOMAIN bought |-> IF bought[r].user = u THEN bought[r].price ELSE 0],
        Len(bought))
OrderSpending(u) ==
  Total([n \in DOMAIN orders |-> IF orders[n].user = u THEN orders[n].total ELSE 0],
        Len(orders))

HistoryComplete ==
  \A u \in Users : ListedSpending(u) = OrderSpending(u) + CartSpending(u)

\* "category/item binding": a code made for a product discounts no other.
BindingRespected ==
  \A n \in DOMAIN orders : orders[n].promo # NULL =>
    Discount[orders[n].promo].item \in {NULL, orders[n].item}

===============================================================================
