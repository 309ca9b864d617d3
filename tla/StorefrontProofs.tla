--------------------------- MODULE StorefrontProofs ---------------------------
(***************************************************************************)
(* For any customers, products, stock, codes and limits: a stock row is    *)
(* sold once, a code is used as often as its counter says, a draft pays    *)
(* once, an order delivers what it charged, and the money adds up.         *)
(***************************************************************************)
EXTENDS Storefront, RunningTotalsProofs, SequenceTheorems, FiniteSetTheorems, TLAPS

(* Prices *)

\* A price with its discount is a number of cents.
LEMMA DiscountedNat ==
  ASSUME MoneyAssumption, NEW i \in Items, NEW p \in Promos \cup {NULL}
  PROVE  Discounted(i, p) \in Nat
<1>1. Price[i] \in Nat
  BY DEF MoneyAssumption
<1>2. CASE p = NULL
  BY <1>1, <1>2 DEF Discounted
<1>3. CASE p # NULL /\ Discount[p].kind = "percent"
  <2>1. Discount[p].value \in Nat /\ Discount[p].value <= 100
    BY <1>3 DEF MoneyAssumption
  <2> DEFINE n == Price[i] * (100 - Discount[p].value)
  <2>2. n \in Nat
    <3> DEFINE m == 100 - Discount[p].value
    <3>1. m \in Nat
      BY <2>1
    <3> HIDE DEF m
    <3> QED BY <1>1, <3>1 DEF m
  <2> HIDE DEF n
  <2>3. n \div 100 \in Nat
    BY <2>2
  <2>4. HalfEven(n, 100) \in Nat
    BY <2>3 DEF HalfEven
  <2>5. Discounted(i, p) = HalfEven(n, 100)
    BY <1>3 DEF Discounted, n
  <2> QED BY <2>4, <2>5
<1>4. CASE p # NULL /\ Discount[p].kind # "percent"
  <2>1. Discount[p].value \in Nat
    BY <1>4 DEF MoneyAssumption
  <2> QED BY <1>1, <1>4, <2>1 DEF Discounted, Lesser
<1> QED BY <1>2, <1>3, <1>4

\* So is the price of several units.
LEMMA TimesNat == ASSUME NEW m \in Nat, NEW n \in Nat PROVE m * n \in Nat
  OBVIOUS

\* A line of a cart has a product and perhaps a code.
LEMMA CartLine ==
  ASSUME TypeOK, NEW u \in Users, NEW k \in DOMAIN cart[u]
  PROVE  /\ cart[u][k].item \in Items /\ cart[u][k].promo \in Promos \cup {NULL}
         /\ k \in 1..Len(cart[u]) /\ Len(cart[u]) \in Nat
<1>1. cart[u] \in Seq(Line)
  BY DEF TypeOK
<1>2. cart[u][k] \in Line
  BY <1>1
<1> QED BY <1>1, <1>2 DEF Line

LEMMA CartTotalNat ==
  ASSUME TypeOK, MoneyAssumption, NEW u \in Users, NEW L
  PROVE  CartTotal(u, L) \in Nat
<1> DEFINE f == [k \in DOMAIN cart[u] |-> IF k \in L THEN LinePrice(u, k) ELSE 0]
<1>1. Len(cart[u]) \in Nat /\ DOMAIN cart[u] = 1..Len(cart[u])
  BY DEF TypeOK
<1>2. \A k \in 1..Len(cart[u]) : f[k] \in Nat
  <2>1. \A k \in DOMAIN cart[u] : LinePrice(u, k) \in Nat
    BY CartLine, DiscountedNat DEF LinePrice
  <2> QED BY <1>1, <2>1
<1> HIDE DEF f
<1>3. Total(f, Len(cart[u])) \in Nat
  BY <1>1, <1>2, TotalNat
<1> QED BY <1>3 DEF CartTotal, f

-------------------------------------------------------------------------------
(* What is handed over *)

\* rows take their values from the shelf; a value that is not unlimited leaves it
\* and is handed over once.
Handed(rows) ==
  /\ shelf' \subseteq shelf
  /\ \A k \in 1..Len(rows) :
       /\ rows[k].value \in shelf
       /\ rows[k].value \notin Infinite =>
            /\ rows[k].value \notin shelf'
            /\ \A j \in 1..Len(rows) : rows[j].value = rows[k].value => j = k

\* Listing lists a finite set without repetition.
LEMMA ListingLists ==
  ASSUME NEW R, IsFiniteSet(R)
  PROVE  /\ Cardinality(R) \in Nat
         /\ Listing(R) \in [1..Cardinality(R) -> R]
         /\ \A j, k \in 1..Cardinality(R) : Listing(R)[j] = Listing(R)[k] => j = k
<1>1. /\ Cardinality(R) \in Nat
      /\ ExistsBijection(1..Cardinality(R), R)
  BY FS_CardinalityType
<1>2. \E f \in [1..Cardinality(R) -> R] : \A j, k \in DOMAIN f : f[j] = f[k] => j = k
  BY <1>1 DEF ExistsBijection, Bijection, Injection, IsInjective
<1>3. /\ Listing(R) \in [1..Cardinality(R) -> R]
      /\ \A j, k \in DOMAIN Listing(R) : Listing(R)[j] = Listing(R)[k] => j = k
  BY <1>2, Zenon DEF Listing
<1> QED BY <1>1, <1>3

\* Rows numbered from 1 are a sequence.
LEMMA RowsSeq ==
  ASSUME NEW S, NEW n \in Nat, NEW rows \in [1..n -> S]
  PROVE  rows \in Seq(S) /\ Len(rows) = n
  OBVIOUS

\* Nth lists a finite set of numbers in their order: it is the member with n - 1
\* smaller ones.
Smaller(L, k) == {j \in L : j < k}

LEMMA SmallerGrows ==
  ASSUME NEW L, IsFiniteSet(L), L \subseteq Nat, NEW j \in L, NEW k \in L, j < k
  PROVE  /\ Cardinality(Smaller(L, j)) \in Nat /\ Cardinality(Smaller(L, k)) \in Nat
         /\ Cardinality(Smaller(L, j)) < Cardinality(Smaller(L, k))
<1>1. IsFiniteSet(Smaller(L, j)) /\ IsFiniteSet(Smaller(L, k))
  BY FS_Subset DEF Smaller
<1>2. Cardinality(Smaller(L, j)) \in Nat /\ Cardinality(Smaller(L, k)) \in Nat
  BY <1>1, FS_CardinalityType
<1>3. Smaller(L, j) \cup {j} \subseteq Smaller(L, k) /\ j \notin Smaller(L, j)
  <2>1. j \in Nat /\ k \in Nat /\ \A x \in L : x \in Nat
    OBVIOUS
  <2>2. j \notin Smaller(L, j) /\ j \in Smaller(L, k)
    BY <2>1 DEF Smaller
  <2>3. \A x \in Smaller(L, j) : x \in Smaller(L, k)
    BY <2>1 DEF Smaller
  <2> QED BY <2>2, <2>3
<1>4. /\ IsFiniteSet(Smaller(L, j) \cup {j})
      /\ Cardinality(Smaller(L, j) \cup {j}) = Cardinality(Smaller(L, j)) + 1
  BY <1>1, <1>3, FS_AddElement
<1>5. Cardinality(Smaller(L, j) \cup {j}) <= Cardinality(Smaller(L, k))
  BY <1>1, <1>3, FS_Subset
<1> QED BY <1>2, <1>4, <1>5

LEMMA SmallerNext ==
  ASSUME NEW L, L \subseteq Nat, NEW k \in Nat
  PROVE  /\ k \notin Smaller(L, k)
         /\ k \in L => Smaller(L, k + 1) = Smaller(L, k) \cup {k}
         /\ k \notin L => Smaller(L, k + 1) = Smaller(L, k)
<1>1. \A x \in L : x < k + 1 <=> x < k \/ x = k
  OBVIOUS
<1>2. \A x \in L : x \in Smaller(L, k + 1) <=> x \in Smaller(L, k) \/ x = k
  BY <1>1 DEF Smaller
<1>3. Smaller(L, k) \subseteq L /\ Smaller(L, k + 1) \subseteq L /\ k \notin Smaller(L, k)
  BY DEF Smaller
<1> QED BY <1>2, <1>3

LEMMA NthLists ==
  ASSUME NEW L, IsFiniteSet(L), L \subseteq Nat, NEW n \in 1..Cardinality(L)
  PROVE  /\ Nth(L, n) \in L
         /\ Cardinality(Smaller(L, Nth(L, n))) = n - 1
<1> DEFINE N == Cardinality(L)
           rank == [k \in L |-> Cardinality(Smaller(L, k)) + 1]
<1>1. N \in Nat
  BY FS_CardinalityType
<1>2. ASSUME NEW k \in L PROVE rank[k] \in 1..N
  <2>1. IsFiniteSet(Smaller(L, k)) /\ Cardinality(Smaller(L, k)) <= N
    BY FS_Subset DEF Smaller
  <2>2. Cardinality(Smaller(L, k)) \in Nat
    BY <2>1, FS_CardinalityType
  <2>3. Cardinality(Smaller(L, k)) # N
    <3>1. Smaller(L, k) \in SUBSET L /\ Smaller(L, k) # L
      BY DEF Smaller
    <3> QED BY <3>1, FS_Subset
  <2> QED BY <1>1, <2>1, <2>2, <2>3
<1>3. ASSUME NEW j \in L, NEW k \in L, rank[j] = rank[k] PROVE j = k
  <2>1. ASSUME NEW x \in L, NEW y \in L, x < y PROVE rank[x] # rank[y]
    <3>1. /\ Cardinality(Smaller(L, x)) \in Nat /\ Cardinality(Smaller(L, y)) \in Nat
          /\ Cardinality(Smaller(L, x)) < Cardinality(Smaller(L, y))
      BY <2>1, SmallerGrows
    <3> QED BY <3>1
  <2>2. j \in Nat /\ k \in Nat
    OBVIOUS
  <2>3. j < k \/ k < j \/ j = k
    BY <2>2
  <2> HIDE DEF rank
  <2> QED BY <1>3, <2>1, <2>3
<1>4. rank \in Injection(L, 1..N)
  <2> DEFINE T == 1..N
  <2>1. rank \in [L -> T]
    BY <1>2
  <2>2. IsInjective(rank)
    BY <1>3 DEF IsInjective
  <2> HIDE DEF rank, T
  <2>3. rank \in Injection(L, T)
    BY <2>1, <2>2 DEF Injection
  <2> QED BY <2>3 DEF T
<1>5. IsFiniteSet(1..N) /\ Cardinality(1..N) = N
  BY <1>1, FS_Interval
<1>6. rank \in Surjection(L, 1..N)
  BY <1>4, <1>5, FS_Injection
<1>7. \E k \in L : rank[k] = n
  BY <1>6 DEF Surjection
<1>8. \E k \in L : Cardinality({j \in L : j < k}) = n - 1
  <2>1. PICK k \in L : rank[k] = n
    BY <1>7
  <2>2. Cardinality(Smaller(L, k)) + 1 = n /\ Cardinality(Smaller(L, k)) \in Nat
    <3>1. IsFiniteSet(Smaller(L, k))
      BY FS_Subset DEF Smaller
    <3> QED BY <2>1, <3>1, FS_CardinalityType
  <2>3. Cardinality(Smaller(L, k)) = n - 1
    BY <1>1, <2>2
  <2> QED BY <2>3, Zenon DEF Smaller
<1> QED BY <1>8, Zenon DEF Nth, Smaller

-------------------------------------------------------------------------------
(* What a direct purchase does *)

\* The rows a purchase adds to bought_goods.
BuyRows(rows, u, i, q, p) ==
  /\ rows \in Seq(Bought) /\ bought' = bought \o rows
  /\ Handed(rows)
  /\ Len(rows) = IF goods[i].mode = "manual" THEN 0 ELSE q
  /\ \A k \in 1..Len(rows) : /\ rows[k].user = u /\ rows[k].order = Len(orders) + 1
                              /\ rows[k].price = Discounted(i, p)

LEMMA BuyHands ==
  ASSUME TypeOK, SetsAssumption, MoneyAssumption,
         NEW u \in Users, NEW i \in Items, NEW q \in Quantities,
         NEW p \in Promos \cup {NULL}, NEW d \in Drafts \cup {NULL}, Buy(u, i, q, p, d)
  PROVE  \E rows : BuyRows(rows, u, i, q, p)
<1>1. q \in Nat /\ q # 0
  BY DEF MoneyAssumption
<1>2. PICK s \in Dispensed(i, q) : /\ shelf' = shelf \ s.taken
                                   /\ bought' = bought \o DeliveryRows(u, i, q, p, s.given)
  BY DEF Buy
<1>3. /\ s.given \in [1..q -> shelf]
      /\ \A k \in 1..q : s.given[k] \notin Infinite =>
           /\ s.given[k] \in s.taken
           /\ \A j \in 1..q : s.given[j] = s.given[k] => j = k
  <2>1. CASE \E v \in Shelf(i) \cap Infinite : s = [given |-> [k \in 1..q |-> v], taken |-> {}]
    BY <2>1 DEF Shelf
  <2>2. CASE \E R \in SUBSET Shelf(i) :
               Cardinality(R) = q /\ s = [given |-> Listing(R), taken |-> R]
    <3>1. PICK R \in SUBSET Shelf(i) :
               Cardinality(R) = q /\ s = [given |-> Listing(R), taken |-> R]
      BY <2>2
    <3>2. R \subseteq shelf /\ s.given = Listing(R) /\ s.taken = R
      BY <3>1 DEF Shelf
    <3>3. IsFiniteSet(R)
      <4>1. R \subseteq Values
        BY <3>2 DEF TypeOK
      <4> QED BY <4>1, FS_Subset DEF SetsAssumption
    <3>4. /\ Listing(R) \in [1..q -> R]
          /\ \A j, k \in 1..q : Listing(R)[j] = Listing(R)[k] => j = k
      BY <3>1, <3>3, ListingLists
    <3> QED BY <3>2, <3>4
  <2> QED BY <2>1, <2>2, Zenon DEF Dispensed
<1> DEFINE rows == DeliveryRows(u, i, q, p, s.given)
<1>4. CASE goods[i].mode = "manual"
  <2>1. rows = << >>
    BY <1>4 DEF DeliveryRows
  <2>2. rows \in Seq(Bought) /\ Len(rows) = 0
    BY <2>1
  <2>3. Handed(rows)
    BY <1>2, <2>2 DEF Handed
  <2> QED BY <1>2, <1>4, <2>2, <2>3 DEF BuyRows
<1>5. CASE goods[i].mode # "manual"
  <2>1. rows = [k \in 1..q |-> [user |-> u, value |-> s.given[k], price |-> Discounted(i, p),
                                order |-> Len(orders) + 1]]
    BY <1>5 DEF DeliveryRows
  <2>2. Discounted(i, p) \in Nat /\ Len(orders) + 1 \in Nat
    BY DiscountedNat DEF TypeOK
  <2>3. \A k \in 1..q : s.given[k] \in Values
    BY <1>3 DEF TypeOK
  <2>4. rows \in [1..q -> Bought]
    BY <2>1, <2>2, <2>3 DEF Bought
  <2>5. rows \in Seq(Bought) /\ Len(rows) = q
    BY <1>1, <2>4
  <2>6. \A k \in 1..q : /\ rows[k].value = s.given[k] /\ rows[k].user = u
                        /\ rows[k].order = Len(orders) + 1 /\ rows[k].price = Discounted(i, p)
    BY <2>1
  <2> HIDE DEF rows
  <2>7. Handed(rows)
    <3>1. shelf' = shelf \ s.taken
      BY <1>2
    <3>2. ASSUME NEW k \in 1..q
          PROVE  /\ rows[k].value \in shelf
                 /\ rows[k].value \notin Infinite =>
                      /\ rows[k].value \notin shelf'
                      /\ \A j \in 1..q : rows[j].value = rows[k].value => j = k
      BY <1>3, <2>6, <3>1
    <3> QED BY <2>5, <3>1, <3>2 DEF Handed
  <2> QED BY <1>2, <1>5, <2>5, <2>6, <2>7 DEF BuyRows, rows
<1> QED BY <1>4, <1>5

-------------------------------------------------------------------------------
(* What a checkout does *)

\* The lines L of a cart are sold, each for its price and not for an order.
SoldLines(rows, u, L) ==
  /\ L \subseteq DOMAIN cart[u] /\ IsFiniteSet(L) /\ L \subseteq Nat
  /\ rows \in Seq(Bought) /\ bought' = bought \o rows
  /\ Handed(rows)
  /\ Len(rows) = Cardinality(L)
  /\ \A n \in 1..Len(rows) : /\ rows[n].user = u /\ rows[n].order = 0
                              /\ rows[n].price = LinePrice(u, Nth(L, n))
  /\ balance[u] >= CartTotal(u, L)
  /\ balance' = [balance EXCEPT ![u] = @ - CartTotal(u, L)]
  /\ cart' = [cart EXCEPT ![u] = << >>]

LEMMA CheckoutHands ==
  ASSUME TypeOK, SetsAssumption, MoneyAssumption, NEW u \in Users, Checkout(u)
  PROVE  \E rows, L : SoldLines(rows, u, L)
<1>1. PICK f \in Claims(u) :
        /\ Affordable(u, CartTotal(u, DOMAIN f))
        /\ shelf' = shelf \ ({f[k] : k \in DOMAIN f} \ Infinite)
        /\ bought' = bought \o [n \in 1..Cardinality(DOMAIN f) |->
             [user |-> u, value |-> f[Nth(DOMAIN f, n)],
              price |-> LinePrice(u, Nth(DOMAIN f, n)), order |-> 0]]
        /\ balance' = [balance EXCEPT ![u] = @ - CartTotal(u, DOMAIN f)]
        /\ cart' = [cart EXCEPT ![u] = << >>]
  BY Zenon DEF Checkout
<1> DEFINE L == DOMAIN f
           rows == [n \in 1..Cardinality(L) |->
                      [user |-> u, value |-> f[Nth(L, n)],
                       price |-> LinePrice(u, Nth(L, n)), order |-> 0]]
<1>2. /\ L \subseteq DOMAIN cart[u] /\ f \in [L -> shelf]
      /\ \A k, j \in L : k # j => f[k] # f[j]
  BY DEF Claims, Claimed
<1>3. L \subseteq Nat /\ IsFiniteSet(L) /\ Cardinality(L) \in Nat
  <2> HIDE DEF L
  <2>1. cart[u] \in Seq(Line)
    BY DEF TypeOK
  <2>2. Len(cart[u]) \in Nat /\ DOMAIN cart[u] = 1..Len(cart[u])
    BY <2>1
  <2>3. IsFiniteSet(1..Len(cart[u]))
    BY <2>2, FS_Interval
  <2>4. L \subseteq 1..Len(cart[u])
    BY <1>2, <2>2
  <2>5. IsFiniteSet(L)
    BY <2>3, <2>4, FS_Subset
  <2>6. L \subseteq Nat
    BY <2>2, <2>4
  <2> QED BY <2>5, <2>6, FS_CardinalityType
<1>4. \A n \in 1..Cardinality(L) : Nth(L, n) \in L
  <2> HIDE DEF L
  <2> QED BY <1>3, NthLists
<1>5. ASSUME NEW n \in 1..Cardinality(L), NEW m \in 1..Cardinality(L), Nth(L, n) = Nth(L, m)
      PROVE  n = m
  <2> HIDE DEF L
  <2>1. /\ Cardinality(Smaller(L, Nth(L, n))) = n - 1
        /\ Cardinality(Smaller(L, Nth(L, m))) = m - 1
    BY <1>3, NthLists
  <2> QED BY <1>3, <1>5, <2>1
<1>6. ASSUME NEW n \in 1..Cardinality(L)
      PROVE  LinePrice(u, Nth(L, n)) \in Nat /\ f[Nth(L, n)] \in shelf
  <2>1. Nth(L, n) \in DOMAIN cart[u]
    BY <1>2, <1>4
  <2> QED BY <1>2, <1>4, <2>1, CartLine, DiscountedNat DEF LinePrice
<1> HIDE DEF L
<1>7. rows \in [1..Cardinality(L) -> Bought]
  <2>1. \A n \in 1..Cardinality(L) : f[Nth(L, n)] \in Values
    BY <1>6 DEF TypeOK
  <2> QED BY <1>6, <2>1 DEF Bought
<1>8. \A n \in 1..Cardinality(L) :
        /\ rows[n].value = f[Nth(L, n)] /\ rows[n].user = u
        /\ rows[n].order = 0 /\ rows[n].price = LinePrice(u, Nth(L, n))
  OBVIOUS
<1>9. bought' = bought \o rows
  BY <1>1 DEF L
<1> HIDE DEF rows
<1>10. rows \in Seq(Bought) /\ Len(rows) = Cardinality(L)
  BY <1>3, <1>7, RowsSeq
<1>11. Handed(rows)
  <2>1. shelf' = shelf \ ({f[k] : k \in L} \ Infinite)
    BY <1>1 DEF L
  <2>2. ASSUME NEW n \in 1..Cardinality(L), NEW m \in 1..Cardinality(L),
               rows[n].value = rows[m].value
        PROVE  n = m
    <3>1. f[Nth(L, n)] = f[Nth(L, m)] /\ Nth(L, n) \in L /\ Nth(L, m) \in L
      BY <1>4, <1>8, <2>2
    <3>2. Nth(L, n) = Nth(L, m)
      BY <1>2, <3>1 DEF L
    <3> QED BY <1>5, <3>2
  <2>3. ASSUME NEW n \in 1..Cardinality(L)
        PROVE  /\ rows[n].value \in shelf
               /\ rows[n].value \in {f[k] : k \in L}
    BY <1>4, <1>6, <1>8
  <2> QED BY <1>10, <2>1, <2>2, <2>3 DEF Handed
<1>12. SoldLines(rows, u, L)
  <2>1. /\ balance[u] >= CartTotal(u, L) /\ cart' = [cart EXCEPT ![u] = << >>]
        /\ balance' = [balance EXCEPT ![u] = @ - CartTotal(u, L)]
    BY <1>1 DEF L, Affordable
  <2>2. L \subseteq DOMAIN cart[u]
    BY <1>2 DEF L
  <2> QED BY <1>3, <1>8, <1>9, <1>10, <1>11, <2>1, <2>2 DEF SoldLines
<1> QED BY <1>12

-------------------------------------------------------------------------------
(* Types *)

LEMMA UsedCodesTyped ==
  ASSUME promos \in [Promos -> Promo], usages \subseteq Promos \X Users,
         NEW used, NEW u \in Users, used \subseteq Promos, UseAll(used, u)
  PROVE  promos' \in [Promos -> Promo] /\ usages' \subseteq Promos \X Users
<1>1. ASSUME NEW p \in Promos PROVE [promos[p] EXCEPT !.uses = @ + 1] \in Promo
  BY DEF Promo
<1> QED BY <1>1 DEF UseAll

\* A row keeps its shape when one of its columns is written.
LEMMA GoodTyped ==
  ASSUME NEW g \in Good, NEW mode \in {"instant", "manual"}, NEW f \in Schemas
  PROVE  [g EXCEPT !.mode = mode, !.fields = f] \in Good
  BY DEF Good

LEMMA UnboundTyped ==
  ASSUME NEW row \in Promo
  PROVE  [row EXCEPT !.item = NULL] \in Promo
  BY DEF Promo

LEMMA DraftTyped ==
  ASSUME drafts \in [Drafts -> Draft \cup {NULL}], NEW d \in Drafts, drafts[d] # NULL,
         NEW st \in {"pending", "consumed", "closed"}, NEW n \in Nat
  PROVE  /\ [drafts[d] EXCEPT !.status = st] \in Draft
         /\ [drafts[d] EXCEPT !.status = st, !.order = n] \in Draft
  BY DEF Draft

\* One lemma for the steps of customers and one for those of administrators.
LEMMA BuyTyped ==
  ASSUME TypeOK, SetsAssumption, MoneyAssumption,
         NEW u \in Users, NEW i \in Items, NEW q \in Quantities,
         NEW p \in Promos \cup {NULL}, NEW d \in Drafts \cup {NULL}, Buy(u, i, q, p, d)
  PROVE  TypeOK'
<1> DEFINE cost == q * Discounted(i, p)
<1>1. q \in Nat /\ Discounted(i, p) \in Nat /\ cost \in Nat
  BY DiscountedNat, TimesNat DEF MoneyAssumption
<1>2. balance[u] \in Nat /\ operations[u] \in Int /\ Len(orders) + 1 \in Nat
  BY DEF TypeOK
<1>3. bought' \in Seq(Bought) /\ shelf' \subseteq shelf
  <2>1. PICK rows : BuyRows(rows, u, i, q, p)
    BY BuyHands
  <2> QED BY <2>1 DEF BuyRows, Handed, TypeOK
<1> HIDE DEF cost
<1>4. balance' \in [Users -> Nat] /\ operations' \in [Users -> Int]
  BY <1>1, <1>2 DEF Buy, Affordable, OrderTotal, TypeOK, cost
<1>5. promos' \in [Promos -> Promo] /\ usages' \subseteq Promos \X Users
  <2>1. Chosen(p) \subseteq Promos
    BY DEF Chosen
  <2> QED BY <2>1, UsedCodesTyped DEF Buy, TypeOK
<1>6. drafts' \in [Drafts -> Draft \cup {NULL}]
  <2>1. CASE d = NULL
    BY <2>1 DEF Buy, Consume, TypeOK
  <2>2. CASE d # NULL
    <3>1. d \in Drafts /\ drafts[d] # NULL
      BY <2>2 DEF Buy, Backed
    <3>2. drafts' = [drafts EXCEPT ![d] =
                       [drafts[d] EXCEPT !.status = "consumed", !.order = Len(orders) + 1]]
      BY <2>2, <3>1 DEF Buy, Consume, TypeOK, Draft
    <3> QED BY <1>2, <3>1, <3>2, DraftTyped DEF TypeOK
  <2> QED BY <2>1, <2>2
<1>7. orders' \in Seq(Order)
  <2>1. [user |-> u, item |-> i, quantity |-> q, total |-> cost,
         manual |-> goods[i].mode = "manual", draft |-> d, promo |-> p] \in Order
    BY <1>1 DEF Order
  <2> QED BY <2>1 DEF Buy, TypeOK, cost
<1> QED BY <1>3, <1>4, <1>5, <1>6, <1>7 DEF Buy, TypeOK

LEMMA CheckoutTyped ==
  ASSUME TypeOK, SetsAssumption, MoneyAssumption, NEW u \in Users, Checkout(u)
  PROVE  TypeOK'
<1>1. PICK rows, L : SoldLines(rows, u, L)
  BY CheckoutHands
<1>2. CartTotal(u, L) \in Nat /\ balance[u] \in Nat
  BY CartTotalNat DEF TypeOK
<1>3. balance' \in [Users -> Nat]
  BY <1>1, <1>2 DEF SoldLines, TypeOK
<1>4. bought' \in Seq(Bought) /\ shelf' \subseteq Values
  BY <1>1 DEF SoldLines, Handed, TypeOK
<1>5. cart' \in [Users -> Seq(Line)]
  <2>1. << >> \in Seq(Line)
    OBVIOUS
  <2> QED BY <1>1, <2>1 DEF SoldLines, TypeOK
<1>6. promos' \in [Promos -> Promo] /\ usages' \subseteq Promos \X Users
  <2>1. PICK used : used \subseteq Promos /\ UseAll(used, u)
    <3>1. PICK f \in Claims(u) :
            UseAll({cart[u][k].promo : k \in DOMAIN f} \ {NULL}, u)
      BY Zenon DEF Checkout
    <3>2. DOMAIN f \subseteq DOMAIN cart[u]
      BY DEF Claims
    <3>3. \A k \in DOMAIN f : cart[u][k].promo \in Promos \cup {NULL}
      BY <3>2, CartLine
    <3> QED BY <3>1, <3>3
  <2> QED BY <2>1, UsedCodesTyped DEF TypeOK
<1>7. UNCHANGED <<operations, goods, unused, drafts, orders>>
  BY Zenon DEF Checkout
<1> QED BY <1>3, <1>4, <1>5, <1>6, <1>7 DEF TypeOK

LEMMA CustomersTyped ==
  ASSUME TypeOK, SetsAssumption, MoneyAssumption, NEW u \in Users,
         \/ \E i \in Items, p \in Promos \cup {NULL} : AddToCart(u, i, p)
         \/ \E k \in DOMAIN cart[u] : RemoveFromCart(u, k)
         \/ ClearCart(u) \/ ConfirmCheckout(u)
         \/ \E p \in Promos : Redeem(u, p)
         \/ \E amount \in Amounts : TopUp(u, amount) \/ Deduct(u, amount)
  PROVE  TypeOK'
<1> USE DEF TypeOK
<1>1. ASSUME NEW i \in Items, NEW p \in Promos \cup {NULL}, AddToCart(u, i, p) PROVE TypeOK'
  <2>1. [item |-> i, promo |-> p] \in Line
    BY DEF Line
  <2> QED BY <1>1, <2>1 DEF AddToCart
<1>2. ASSUME NEW k \in DOMAIN cart[u], RemoveFromCart(u, k) PROVE TypeOK'
  <2> DEFINE c == cart[u]
  <2>1. c \in Seq(Line) /\ Len(c) \in Nat /\ k \in 1..Len(c)
    OBVIOUS
  <2>2. SubSeq(c, 1, k - 1) \in Seq(Line) /\ SubSeq(c, k + 1, Len(c)) \in Seq(Line)
    <3> HIDE DEF c
    <3>1. \A n \in 1..(k - 1) : c[n] \in Line
      BY <2>1
    <3>2. \A n \in (k + 1)..Len(c) : c[n] \in Line
      BY <2>1
    <3>3. k - 1 \in Int /\ k + 1 \in Int /\ Len(c) \in Int
      BY <2>1
    <3> QED BY <3>1, <3>2, <3>3, SubSeqProperties
  <2> HIDE DEF c
  <2>3. SubSeq(c, 1, k - 1) \o SubSeq(c, k + 1, Len(c)) \in Seq(Line)
    BY <2>2, ConcatProperties
  <2> QED BY <1>2, <2>3 DEF RemoveFromCart, c
<1>3. CASE ClearCart(u) \/ CheckoutNothing(u)
  <2>1. << >> \in Seq(Line)
    OBVIOUS
  <2>2. /\ cart' = [cart EXCEPT ![u] = << >>]
        /\ UNCHANGED <<balance, operations, goods, shelf, unused, promos, usages,
                       drafts, orders, bought>>
    BY <1>3 DEF ClearCart, CheckoutNothing
  <2> QED BY <2>1, <2>2
<1>4. CASE ConfirmCheckout(u)
  BY <1>3, <1>4, CheckoutTyped DEF ConfirmCheckout
<1>5. ASSUME NEW p \in Promos, Redeem(u, p) PROVE TypeOK'
  <2>1. Discount[p].value \in Nat
    BY DEF MoneyAssumption
  <2>2. balance' \in [Users -> Nat] /\ operations' \in [Users -> Int]
    BY <1>5, <2>1 DEF Redeem
  <2>3. promos' \in [Promos -> Promo] /\ usages' \subseteq Promos \X Users
    <3>1. {p} \subseteq Promos /\ UseAll({p}, u)
      BY <1>5 DEF Redeem
    <3> QED BY <3>1, UsedCodesTyped
  <2> QED BY <1>5, <2>2, <2>3 DEF Redeem
<1>6. ASSUME NEW amount \in Amounts, TopUp(u, amount) \/ Deduct(u, amount) PROVE TypeOK'
  <2>1. amount \in Nat
    BY DEF MoneyAssumption
  <2>2. PICK change \in {amount, -amount} : ChangeBalance(u, change)
    BY <1>6 DEF TopUp, Deduct
  <2>3. balance' \in [Users -> Nat] /\ operations' \in [Users -> Int]
    BY <2>1, <2>2 DEF ChangeBalance, Affordable
  <2> QED BY <2>2, <2>3 DEF ChangeBalance
<1> QED BY <1>1, <1>2, <1>3, <1>4, <1>5, <1>6

LEMMA AdministratorsTyped ==
  ASSUME TypeOK, SetsAssumption, MoneyAssumption,
         \/ \E v \in Values : AddValue(v) \/ DeleteValue(v)
         \/ \E i \in Items : DeleteItem(i)
         \/ \E i \in Items, mode \in {"instant", "manual"}, f \in Schemas : EditItem(i, mode, f)
         \/ \E p \in Promos : TogglePromo(p) \/ DeletePromo(p) \/ ExpirePromo(p)
  PROVE  TypeOK'
<1> USE DEF TypeOK
<1>1. ASSUME NEW v \in Values, AddValue(v) \/ DeleteValue(v) PROVE TypeOK'
  BY <1>1 DEF AddValue, DeleteValue
<1>2. ASSUME NEW i \in Items, DeleteItem(i) PROVE TypeOK'
  <2>1. goods' \in [Items -> Good]
    BY <1>2 DEF DeleteItem, Good
  <2>2. promos' \in [Promos -> Promo]
    <3>1. \A p \in Promos : Unbound(p, i) \in Promo
      <4>1. \A p \in Promos : [promos[p] EXCEPT !.item = NULL] \in Promo
        BY UnboundTyped
      <4> QED BY <4>1 DEF Unbound
    <3> QED BY <1>2, <3>1 DEF DeleteItem
  <2>3. drafts' \in [Drafts -> Draft \cup {NULL}]
    <3>1. \A d \in Drafts : drafts[d] # NULL => [drafts[d] EXCEPT !.status = "closed"] \in Draft
      BY DraftTyped
    <3> QED BY <1>2, <3>1 DEF DeleteItem
  <2> QED BY <1>2, <2>1, <2>2, <2>3 DEF DeleteItem
<1>3. ASSUME NEW i \in Items, NEW mode \in {"instant", "manual"}, NEW f \in Schemas,
             EditItem(i, mode, f)
      PROVE  TypeOK'
  <2>1. goods' \in [Items -> Good]
    <3>1. [goods[i] EXCEPT !.mode = mode, !.fields = f] \in Good
      BY GoodTyped
    <3>2. goods' = [goods EXCEPT ![i] = [goods[i] EXCEPT !.mode = mode, !.fields = f]]
      BY <1>3 DEF EditItem, Good
    <3> QED BY <3>1, <3>2
  <2> QED BY <1>3, <2>1 DEF EditItem
<1>4. ASSUME NEW p \in Promos, TogglePromo(p) \/ DeletePromo(p) \/ ExpirePromo(p)
      PROVE  TypeOK'
  <2>1. promos' \in [Promos -> Promo]
    <3>1. promos[p] \in Promo /\ promos[p].active \in BOOLEAN /\ (~promos[p].active) \in BOOLEAN
      BY DEF Promo
    <3>2. /\ [promos[p] EXCEPT !.active = ~promos[p].active] \in Promo
          /\ [promos[p] EXCEPT !.present = FALSE] \in Promo
          /\ [promos[p] EXCEPT !.expired = TRUE] \in Promo
      BY <3>1 DEF Promo
    <3>3. \/ promos' = [promos EXCEPT ![p] = [promos[p] EXCEPT !.active = ~promos[p].active]]
          \/ promos' = [promos EXCEPT ![p] = [promos[p] EXCEPT !.present = FALSE]]
          \/ promos' = [promos EXCEPT ![p] = [promos[p] EXCEPT !.expired = TRUE]]
      BY <1>4, Zenon DEF TogglePromo, Toggled, DeletePromo, ExpirePromo
    <3> QED BY <3>2, <3>3
  <2>2. usages' \subseteq Promos \X Users
    BY <1>4 DEF TogglePromo, DeletePromo, ExpirePromo
  <2> QED BY <1>4, <2>1, <2>2 DEF TogglePromo, DeletePromo, ExpirePromo
<1> HIDE DEF TypeOK
<1> QED BY <1>1, <1>2, <1>3, <1>4

LEMMA DraftsTyped ==
  ASSUME TypeOK, MoneyAssumption,
         \/ \E d \in Drafts, u \in Users, i \in Items, q \in Quantities : OpenDraft(d, u, i, q)
         \/ \E d \in Drafts : CloseDraft(d)
  PROVE  TypeOK'
<1> USE DEF TypeOK
<1>1. ASSUME NEW d \in Drafts, NEW u \in Users, NEW i \in Items, NEW q \in Quantities,
             OpenDraft(d, u, i, q)
      PROVE  TypeOK'
  <2>1. [user |-> u, item |-> i, quantity |-> q, fields |-> goods[i].fields,
         status |-> "pending", order |-> 0] \in Draft
    <3>1. goods[i].fields \in Schemas /\ q \in Nat
      BY DEF Good, MoneyAssumption
    <3> QED BY <3>1 DEF Draft
  <2>2. \A e \in Drafts : drafts[e] # NULL => [drafts[e] EXCEPT !.status = "closed"] \in Draft
    BY DraftTyped
  <2>3. drafts' \in [Drafts -> Draft \cup {NULL}]
    <3>1. \A e \in Drafts : drafts'[e] \in Draft \cup {NULL}
      BY <1>1, <2>1, <2>2, Zenon DEF OpenDraft
    <3>2. drafts' = [e \in Drafts |-> drafts'[e]]
      BY <1>1, Zenon DEF OpenDraft
    <3> QED BY <3>1, <3>2
  <2> QED BY <1>1, <2>3, Zenon DEF OpenDraft
<1>2. ASSUME NEW d \in Drafts, CloseDraft(d) PROVE TypeOK'
  <2>1. [drafts[d] EXCEPT !.status = "closed"] \in Draft
    BY <1>2, DraftTyped DEF CloseDraft
  <2> QED BY <1>2, <2>1 DEF CloseDraft
<1> QED BY <1>1, <1>2

LEMMA TypeStep ==
  ASSUME TypeOK, SetsAssumption, MoneyAssumption, [Next]_vars
  PROVE  TypeOK'
<1>1. CASE UNCHANGED vars
  BY <1>1 DEF vars, TypeOK
<1>2. CASE Next
  BY <1>2, BuyTyped, CustomersTyped, AdministratorsTyped, DraftsTyped DEF Next
<1> QED BY <1>1, <1>2

LEMMA TypeInit ==
  ASSUME Init, SetsAssumption, MoneyAssumption
  PROVE  TypeOK
<1>1. goods \in [Items -> Good]
  <2>1. PICK f \in Schemas :
          goods = [i \in Items |-> [listed |-> TRUE, mode |-> InitialMode[i], fields |-> f]]
    BY DEF Init
  <2>2. \A i \in Items : InitialMode[i] \in {"instant", "manual"}
    BY DEF SetsAssumption
  <2> QED BY <2>1, <2>2 DEF Good
<1>2. promos \in [Promos -> Promo]
  BY DEF Init, MoneyAssumption, Promo
<1> QED BY <1>1, <1>2 DEF Init, TypeOK, MoneyAssumption

\* Balances stay non-negative and the rows keep their shape.
THEOREM TypeCorrect == Spec => []TypeOK
<1>1. Init => TypeOK
  BY TypeInit, SetsAssumption, MoneyAssumption
<1>2. TypeOK /\ [Next]_vars => TypeOK'
  BY TypeStep, SetsAssumption, MoneyAssumption
<1> QED BY <1>1, <1>2, PTL DEF Spec

-------------------------------------------------------------------------------
(* Stock *)

\* A stock row is not for sale before it is added.
StockInv == shelf \cap unused = {} /\ SoldOnce

\* Rows taken from the shelf and handed over keep each value sold once.
LEMMA HandedSoldOnce ==
  ASSUME TypeOK, StockInv, UNCHANGED unused,
         NEW rows \in Seq(Bought), bought' = bought \o rows, Handed(rows)
  PROVE  StockInv'
<1> DEFINE n == Len(bought)
           m == Len(rows)
<1>1. /\ n \in Nat /\ m \in Nat /\ DOMAIN bought = 1..n /\ DOMAIN bought' = 1..(n + m)
      /\ \A r \in 1..n : bought'[r] = bought[r]
      /\ \A r \in 1..(n + m) : r > n => r - n \in 1..m /\ bought'[r] = rows[r - n]
  <2>1. bought \in Seq(Bought)
    BY DEF TypeOK
  <2>2. /\ bought' \in Seq(Bought) /\ Len(bought') = n + m
        /\ \A r \in 1..(n + m) : bought'[r] = IF r <= n THEN bought[r] ELSE rows[r - n]
    BY <2>1, ConcatProperties
  <2>3. n \in Nat /\ m \in Nat /\ DOMAIN bought = 1..n /\ DOMAIN bought' = 1..(n + m)
    BY <2>1, <2>2, LenProperties
  <2> HIDE DEF n, m
  <2> QED BY <2>2, <2>3
<1> HIDE DEF n
<1>2. \A r \in 1..n : bought[r].value \notin Infinite =>
        /\ bought[r].value \notin shelf /\ bought[r].value \notin unused
        /\ \A k \in 1..n : bought[k].value = bought[r].value => k = r
  BY <1>1 DEF StockInv, SoldOnce
<1>3. /\ shelf' \subseteq shelf
      /\ \A k \in 1..m :
           /\ rows[k].value \in shelf /\ rows[k].value \notin unused
           /\ rows[k].value \notin Infinite =>
                /\ rows[k].value \notin shelf'
                /\ \A j \in 1..m : rows[j].value = rows[k].value => j = k
  BY DEF Handed, StockInv
<1> HIDE DEF m
<1>4. ASSUME NEW r \in 1..(n + m), bought'[r].value \notin Infinite
      PROVE  /\ bought'[r].value \notin shelf' /\ bought'[r].value \notin unused
             /\ \A k \in 1..(n + m) : bought'[k].value = bought'[r].value => k = r
  <2>1. CASE r <= n
    <3>1. r \in 1..n /\ bought'[r] = bought[r]
      BY <1>1, <2>1
    <3>2. ASSUME NEW k \in 1..(n + m), bought'[k].value = bought'[r].value PROVE k = r
      <4>1. CASE k <= n
        <5>1. k \in 1..n /\ bought'[k] = bought[k]
          BY <1>1, <4>1
        <5> QED BY <1>2, <1>4, <3>1, <3>2, <5>1
      <4>2. CASE k > n
        <5>1. bought'[k].value \in shelf
          BY <1>1, <1>3, <4>2
        <5> QED BY <1>2, <1>4, <3>1, <3>2, <5>1
      <4> QED BY <1>1, <4>1, <4>2
    <3> QED BY <1>2, <1>3, <1>4, <3>1, <3>2
  <2>2. CASE r > n
    <3>1. r - n \in 1..m /\ bought'[r] = rows[r - n]
      BY <1>1, <2>2
    <3>2. ASSUME NEW k \in 1..(n + m), bought'[k].value = bought'[r].value PROVE k = r
      <4>1. CASE k <= n
        <5>1. k \in 1..n /\ bought'[k] = bought[k]
          BY <1>1, <4>1
        <5> QED BY <1>2, <1>3, <1>4, <3>1, <3>2, <5>1
      <4>2. CASE k > n
        <5>1. k - n \in 1..m /\ bought'[k] = rows[k - n]
          BY <1>1, <4>2
        <5>2. k - n = r - n
          BY <1>3, <1>4, <3>1, <3>2, <5>1
        <5> QED BY <1>1, <5>2
      <4> QED BY <1>1, <4>1, <4>2
    <3> QED BY <1>3, <1>4, <3>1, <3>2
  <2> QED BY <1>1, <2>1, <2>2
<1>5. SoldOnce'
  BY <1>1, <1>4 DEF SoldOnce
<1>6. shelf' \cap unused' = {}
  BY <1>3 DEF StockInv
<1> QED BY <1>5, <1>6 DEF StockInv

LEMMA StockStep ==
  ASSUME TypeOK, StockInv, SetsAssumption, MoneyAssumption, [Next]_vars
  PROVE  StockInv'
<1>1. CASE UNCHANGED <<shelf, unused, bought>>
  BY <1>1 DEF StockInv, SoldOnce
<1>2. ASSUME NEW u \in Users, NEW i \in Items, NEW q \in Quantities,
             NEW p \in Promos \cup {NULL}, NEW d \in Drafts \cup {NULL}, Buy(u, i, q, p, d)
      PROVE  StockInv'
  <2>1. PICK rows : BuyRows(rows, u, i, q, p)
    BY <1>2, BuyHands
  <2> QED BY <1>2, <2>1, HandedSoldOnce DEF Buy, BuyRows
<1>3. ASSUME NEW u \in Users, Checkout(u) PROVE StockInv'
  <2>1. PICK rows, L : SoldLines(rows, u, L)
    BY <1>3, CheckoutHands
  <2>2. UNCHANGED unused
    BY <1>3, Zenon DEF Checkout
  <2> QED BY <2>1, <2>2, HandedSoldOnce DEF SoldLines
<1>4. ASSUME NEW v \in Values, AddValue(v) PROVE StockInv'
  BY <1>4 DEF AddValue, StockInv, SoldOnce
<1>5. CASE UNCHANGED <<unused, bought>> /\ shelf' \subseteq shelf
  BY <1>5 DEF StockInv, SoldOnce
<1> QED BY <1>1, <1>2, <1>3, <1>4, <1>5 DEF Next, vars, AddToCart, RemoveFromCart, ClearCart,
        ConfirmCheckout, CheckoutNothing, Redeem, TopUp, Deduct, ChangeBalance, DeleteValue,
        DeleteItem, EditItem, TogglePromo, DeletePromo, ExpirePromo, OpenDraft, CloseDraft

LEMMA StockInit == ASSUME Init PROVE StockInv
  BY DEF Init, StockInv, SoldOnce

\* One stock row, one delivery (database/methods/transactions.py): no two purchases,
\* carts included, and no two lines of one cart, are given the same row, and none
\* that was given is for sale.
THEOREM StockSoldOnce == Spec => []SoldOnce
<1>1. Init => TypeOK /\ StockInv
  BY TypeInit, StockInit, SetsAssumption, MoneyAssumption
<1>2. TypeOK /\ StockInv /\ [Next]_vars => TypeOK' /\ StockInv'
  BY TypeStep, StockStep, SetsAssumption, MoneyAssumption
<1>3. StockInv => SoldOnce
  BY DEF StockInv
<1> QED BY <1>1, <1>2, <1>3, PTL DEF Spec

-------------------------------------------------------------------------------
(* Promo codes *)

UsersOf(p) == {u \in Users : <<p, u>> \in usages}

\* The users of a code can be counted.
UsesInv ==
  /\ \A p \in Promos : IsFiniteSet(UsersOf(p))
  /\ UsesCounted

\* A use of codes that are open to the user counts it once.
LEMMA UseAllCounts ==
  ASSUME TypeOK, UsesInv, MoneyAssumption, NEW u \in Users, NEW used \in SUBSET Promos,
         UseAll(used, u), \A p \in used : Open(p, u)
  PROVE  UsesInv'
<1> SUFFICES ASSUME NEW p \in Promos
             PROVE  /\ IsFiniteSet(UsersOf(p)')
                    /\ promos'[p].present =>
                         /\ promos'[p].uses = Cardinality(UsersOf(p)')
                         /\ Discount[p].max > 0 => promos'[p].uses <= Discount[p].max
  BY DEF UsesInv, UsesCounted, UsersOf
<1>1. /\ IsFiniteSet(UsersOf(p)) /\ promos[p] \in Promo
      /\ promos[p].present => promos[p].uses = Cardinality(UsersOf(p))
      /\ promos[p].present => (Discount[p].max > 0 => promos[p].uses <= Discount[p].max)
  BY DEF UsesInv, UsesCounted, UsersOf, TypeOK
<1>2. CASE p \notin used
  <2>1. UsersOf(p)' = UsersOf(p) /\ promos'[p] = promos[p]
    BY <1>2 DEF UseAll, UsersOf
  <2> QED BY <1>1, <2>1
<1>3. CASE p \in used
  <2>1. UsersOf(p)' = UsersOf(p) \cup {u} /\ u \notin UsersOf(p)
    BY <1>3 DEF UseAll, UsersOf, Open
  <2>2. promos'[p] = [promos[p] EXCEPT !.uses = @ + 1]
    BY <1>3 DEF UseAll
  <2>3. /\ promos'[p].uses = promos[p].uses + 1 /\ promos[p].uses \in Nat
        /\ promos[p].present /\ Discount[p].max \in Nat
        /\ Discount[p].max > 0 => promos[p].uses < Discount[p].max
    BY <1>1, <1>3, <2>2 DEF Promo, Open, MoneyAssumption
  <2>4. /\ IsFiniteSet(UsersOf(p) \cup {u})
        /\ Cardinality(UsersOf(p) \cup {u}) = Cardinality(UsersOf(p)) + 1
    BY <1>1, <2>1, FS_AddElement
  <2> QED BY <1>1, <2>1, <2>3, <2>4
<1> QED BY <1>2, <1>3

\* A code loses its binding, is switched off, expires or goes; its uses go with it.
LEMMA RestOfCodesCounts ==
  ASSUME TypeOK, UsesInv,
         \/ UNCHANGED <<promos, usages>>
         \/ \E i \in Items : DeleteItem(i)
         \/ \E p \in Promos : TogglePromo(p) \/ DeletePromo(p) \/ ExpirePromo(p)
  PROVE  UsesInv'
<1>1. ASSUME NEW p \in Promos
      PROVE  /\ promos'[p].present => /\ promos[p].present /\ promos'[p].uses = promos[p].uses
                                      /\ UsersOf(p)' = UsersOf(p)
             /\ UsersOf(p)' \subseteq UsersOf(p)
  <2>0. promos[p] \in Promo
    BY DEF TypeOK
  <2>1. CASE UNCHANGED <<promos, usages>>
    BY <2>1 DEF UsersOf
  <2>2. ASSUME NEW i \in Items, DeleteItem(i)
        PROVE  /\ promos'[p].present => promos[p].present /\ promos'[p].uses = promos[p].uses
               /\ UNCHANGED usages
    <3>1. promos'[p] = Unbound(p, i) /\ UNCHANGED usages
      BY <2>2 DEF DeleteItem
    <3> QED BY <2>0, <3>1 DEF Unbound, Promo
  <2>3. ASSUME NEW c \in Promos, TogglePromo(c) \/ ExpirePromo(c)
        PROVE  /\ promos'[p].present => promos[p].present /\ promos'[p].uses = promos[p].uses
               /\ UNCHANGED usages
    <3>1. /\ \/ promos' = [promos EXCEPT ![c] = [promos[c] EXCEPT !.active = ~promos[c].active]]
             \/ promos' = [promos EXCEPT ![c] = [promos[c] EXCEPT !.expired = TRUE]]
          /\ UNCHANGED usages
      BY <2>3, Zenon DEF TogglePromo, Toggled, ExpirePromo
    <3>2. CASE p = c
      <4>1. \E b : \/ promos'[p] = [promos[p] EXCEPT !.active = b]
                   \/ promos'[p] = [promos[p] EXCEPT !.expired = b]
        BY <3>1, <3>2, Zenon DEF TypeOK
      <4> QED BY <2>0, <3>1, <4>1 DEF Promo
    <3>3. CASE p # c
      BY <3>1, <3>3 DEF TypeOK
    <3> QED BY <3>2, <3>3
  <2>4. ASSUME NEW c \in Promos, DeletePromo(c)
        PROVE  /\ promos'[p].present =>
                    p # c /\ promos[p].present /\ promos'[p].uses = promos[p].uses
               /\ usages' = usages \ ({c} \X Users)
    <3>1. /\ promos' = [promos EXCEPT ![c].present = FALSE]
          /\ usages' = usages \ ({c} \X Users)
      BY <2>4 DEF DeletePromo
    <3>2. CASE p = c
      <4>1. promos'[p] = [promos[p] EXCEPT !.present = FALSE]
        BY <3>1, <3>2 DEF TypeOK
      <4>2. promos'[p].present = FALSE
        BY <2>0, <4>1 DEF Promo
      <4> QED BY <3>1, <4>2
    <3>3. CASE p # c
      BY <3>1, <3>3 DEF TypeOK
    <3> QED BY <3>2, <3>3
  <2> QED BY <2>1, <2>2, <2>3, <2>4 DEF UsersOf
<1>2. ASSUME NEW p \in Promos
      PROVE  /\ IsFiniteSet(UsersOf(p)')
             /\ promos'[p].present =>
                  /\ promos'[p].uses = Cardinality(UsersOf(p)')
                  /\ Discount[p].max > 0 => promos'[p].uses <= Discount[p].max
  <2>1. /\ IsFiniteSet(UsersOf(p))
        /\ promos[p].present => promos[p].uses = Cardinality(UsersOf(p))
        /\ promos[p].present => (Discount[p].max > 0 => promos[p].uses <= Discount[p].max)
    BY DEF UsesInv, UsesCounted, UsersOf
  <2>2. IsFiniteSet(UsersOf(p)')
    BY <1>1, <2>1, FS_Subset
  <2> QED BY <1>1, <2>1, <2>2
<1> QED BY <1>2 DEF UsesInv, UsesCounted, UsersOf

LEMMA UsesStep ==
  ASSUME TypeOK, UsesInv, MoneyAssumption, [Next]_vars
  PROVE  UsesInv'
<1>1. ASSUME NEW u \in Users, NEW i \in Items, NEW q \in Quantities,
             NEW p \in Promos \cup {NULL}, NEW d \in Drafts \cup {NULL}, Buy(u, i, q, p, d)
      PROVE  UsesInv'
  <2>1. Chosen(p) \in SUBSET Promos /\ \A c \in Chosen(p) : Open(c, u)
    BY <1>1 DEF Buy, Chosen, Valid
  <2>2. UseAll(Chosen(p), u)
    BY <1>1 DEF Buy
  <2> QED BY <2>1, <2>2, UseAllCounts
<1>2. ASSUME NEW u \in Users, Checkout(u) PROVE UsesInv'
  <2>1. PICK f \in Claims(u) :
          /\ \A k \in DOMAIN f : cart[u][k].promo # NULL =>
                Valid(cart[u][k].promo, u, cart[u][k].item)
          /\ UseAll({cart[u][k].promo : k \in DOMAIN f} \ {NULL}, u)
    BY <1>2, Zenon DEF Checkout
  <2>2. DOMAIN f \subseteq DOMAIN cart[u]
    BY DEF Claims
  <2>3. \A k \in DOMAIN f : cart[u][k].promo \in Promos \cup {NULL}
    BY <2>2, CartLine
  <2> DEFINE used == {cart[u][k].promo : k \in DOMAIN f} \ {NULL}
  <2>4. used \in SUBSET Promos /\ \A p \in used : Open(p, u)
    BY <2>1, <2>3 DEF Valid
  <2> QED BY <2>1, <2>4, UseAllCounts
<1>3. ASSUME NEW u \in Users, NEW p \in Promos, Redeem(u, p) PROVE UsesInv'
  <2>1. UseAll({p}, u) /\ Open(p, u) /\ {p} \in SUBSET Promos
    BY <1>3 DEF Redeem
  <2> QED BY <2>1, UseAllCounts
<1> QED BY <1>1, <1>2, <1>3, RestOfCodesCounts DEF Next, vars, AddToCart, RemoveFromCart,
        ClearCart, ConfirmCheckout, CheckoutNothing, TopUp, Deduct, ChangeBalance, AddValue,
        DeleteValue, EditItem, OpenDraft, CloseDraft

LEMMA UsesInit ==
  ASSUME Init, MoneyAssumption
  PROVE  UsesInv
<1>1. \A p \in Promos : UsersOf(p) = {} /\ promos[p].uses = 0 /\ Discount[p].max \in Nat
  BY DEF Init, UsersOf, MoneyAssumption
<1>2. ASSUME NEW p \in Promos
      PROVE  /\ IsFiniteSet(UsersOf(p)) /\ promos[p].uses = Cardinality(UsersOf(p))
             /\ Discount[p].max > 0 => promos[p].uses <= Discount[p].max
  <2>1. IsFiniteSet({}) /\ Cardinality({}) = 0
    BY FS_EmptySet, Zenon
  <2>2. UsersOf(p) = {} /\ promos[p].uses = 0 /\ Discount[p].max \in Nat
    BY <1>1
  <2> QED BY <2>1, <2>2
<1> QED BY <1>2 DEF UsesInv, UsesCounted, UsersOf

\* The counter of a promo code is true and bounded (transactions.py): a purchase, a
\* checkout and a redemption count each user once, never more than max_uses, and a
\* code that is deleted with its uses never comes back with them.
THEOREM CodesAreCounted == Spec => []UsesCounted
<1>1. Init => TypeOK /\ UsesInv
  BY TypeInit, UsesInit, SetsAssumption, MoneyAssumption
<1>2. TypeOK /\ UsesInv /\ [Next]_vars => TypeOK' /\ UsesInv'
  BY TypeStep, UsesStep, SetsAssumption, MoneyAssumption
<1>3. UsesInv => UsesCounted
  BY DEF UsesInv
<1> QED BY <1>1, <1>2, <1>3, PTL DEF Spec

-------------------------------------------------------------------------------
(* Drafts and the orders they paid for *)

\* The draft of order n, if it has one, knows its order.
OrderBacked(n) ==
  LET d == orders[n].draft
  IN  /\ orders[n].manual <=> d # NULL
      /\ orders[n].manual => /\ drafts[d] # NULL
                             /\ drafts[d].order = n
                             /\ drafts[d].status # "pending"
                             /\ drafts[d].user = orders[n].user

DraftInv == \A n \in DOMAIN orders : OrderBacked(n)

LEMMA OrderTyped ==
  ASSUME TypeOK, NEW n \in DOMAIN orders
  PROVE  /\ orders[n] \in Order /\ orders[n].draft \in Drafts \cup {NULL}
         /\ n \in 1..Len(orders) /\ Len(orders) \in Nat
<1>1. orders \in Seq(Order)
  BY DEF TypeOK
<1>2. orders[n] \in Order
  BY <1>1
<1> QED BY <1>1, <1>2 DEF Order

\* Drafts that are not pending may only be closed.
LEMMA SettledDraftsStay ==
  ASSUME TypeOK, DraftInv, UNCHANGED orders,
         \A d \in Drafts : drafts[d] # NULL /\ drafts[d].status # "pending" =>
           /\ drafts'[d] # NULL /\ drafts'[d].status # "pending"
           /\ drafts'[d].order = drafts[d].order /\ drafts'[d].user = drafts[d].user
  PROVE  DraftInv'
<1> SUFFICES ASSUME NEW n \in DOMAIN orders PROVE OrderBacked(n)'
  BY DEF DraftInv
<1>1. OrderBacked(n)
  BY DEF DraftInv
<1>2. orders[n].draft \in Drafts \cup {NULL}
  BY OrderTyped
<1> QED BY <1>1, <1>2 DEF OrderBacked

LEMMA BuyBacked ==
  ASSUME TypeOK, DraftInv, SetsAssumption, RowsAssumption,
         NEW u \in Users, NEW i \in Items, NEW q \in Quantities,
         NEW p \in Promos \cup {NULL}, NEW d \in Drafts \cup {NULL}, Buy(u, i, q, p, d)
  PROVE  DraftInv'
<1> DEFINE new == [user |-> u, item |-> i, quantity |-> q, total |-> q * Discounted(i, p),
                   manual |-> goods[i].mode = "manual", draft |-> d, promo |-> p]
           last == Len(orders) + 1
<1>1. orders' = Append(orders, new) /\ drafts' = Consume(d)
  BY DEF Buy
<1>2. /\ new.manual <=> d # NULL
      /\ d # NULL => /\ d \in Drafts /\ drafts[d] \in Draft /\ drafts[d] # NULL
                     /\ drafts[d].status = "pending" /\ drafts[d].user = u
  <2>1. goods[i].mode \in {"instant", "manual"}
    BY DEF TypeOK, Good
  <2> QED BY <2>1 DEF Buy, Backed, TypeOK
<1>3. new.draft = d /\ new.user = u
  OBVIOUS
<1> HIDE DEF new
<1>4. /\ Len(orders) \in Nat /\ DOMAIN orders = 1..Len(orders) /\ DOMAIN orders' = 1..last
      /\ orders'[last] = new /\ \A n \in 1..Len(orders) : orders'[n] = orders[n]
  <2>1. orders \in Seq(Order)
    BY DEF TypeOK
  <2> QED BY <1>1, <2>1
<1>5. d # NULL => /\ drafts'[d] \in Draft /\ drafts'[d].status = "consumed"
                  /\ drafts'[d].order = last /\ drafts'[d].user = u
  <2> SUFFICES ASSUME d # NULL
               PROVE  /\ drafts'[d] \in Draft /\ drafts'[d].status = "consumed"
                      /\ drafts'[d].order = last /\ drafts'[d].user = u
    OBVIOUS
  <2>1. drafts'[d] = [drafts[d] EXCEPT !.status = "consumed", !.order = last]
    BY <1>1, <1>2 DEF Consume, TypeOK, Draft
  <2>2. last \in Nat
    BY <1>4
  <2> QED BY <1>2, <2>1, <2>2 DEF Draft
<1> HIDE DEF last
<1>6. ASSUME NEW n \in 1..Len(orders) PROVE OrderBacked(n)'
  <2>1. OrderBacked(n) /\ orders[n].draft \in Drafts \cup {NULL}
    BY <1>4, OrderTyped DEF DraftInv
  <2>2. orders[n].manual => drafts'[orders[n].draft] = drafts[orders[n].draft]
    <3>1. orders[n].manual => orders[n].draft # d
      BY <1>2, <2>1 DEF OrderBacked
    <3> QED BY <1>1, <2>1, <3>1 DEF Consume, OrderBacked, TypeOK
  <2> QED BY <1>4, <2>1, <2>2 DEF OrderBacked
<1>7. ASSUME NEW n \in DOMAIN orders', n = last PROVE OrderBacked(n)'
  <2>1. d # NULL => drafts'[d] # NULL
    BY <1>5 DEF RowsAssumption
  <2>2. orders'[n] = new
    BY <1>4, <1>7
  <2> QED BY <1>2, <1>3, <1>5, <1>7, <2>1, <2>2 DEF OrderBacked
<1>8. \A n \in DOMAIN orders' : n \in 1..Len(orders) \/ n = last
  BY <1>4 DEF last
<1>9. DraftInv' <=> \A n \in DOMAIN orders' : OrderBacked(n)'
  BY DEF DraftInv
<1> QED BY <1>6, <1>7, <1>8, <1>9

LEMMA DraftStep ==
  ASSUME TypeOK, DraftInv, SetsAssumption, RowsAssumption, [Next]_vars
  PROVE  DraftInv'
<1>1. CASE UNCHANGED <<drafts, orders>>
  BY <1>1 DEF DraftInv, OrderBacked
<1>2. ASSUME NEW i \in Items, DeleteItem(i) PROVE DraftInv'
  <2>1. ASSUME NEW d \in Drafts, drafts[d] # NULL
        PROVE  /\ drafts'[d] # NULL
               /\ drafts[d].status # "pending" => drafts'[d].status # "pending"
               /\ drafts'[d].order = drafts[d].order /\ drafts'[d].user = drafts[d].user
    <3>1. drafts[d] \in Draft
      BY <2>1 DEF TypeOK
    <3>2. drafts'[d] = drafts[d] \/ drafts'[d] = [drafts[d] EXCEPT !.status = "closed"]
      BY <1>2, Zenon DEF DeleteItem
    <3>3. drafts'[d] \in Draft
      BY <3>1, <3>2 DEF Draft
    <3> QED BY <3>1, <3>2, <3>3 DEF Draft, RowsAssumption
  <2> QED BY <1>2, <2>1, SettledDraftsStay DEF DeleteItem
<1>3. ASSUME NEW d \in Drafts, NEW u \in Users, NEW i \in Items, NEW q \in Quantities,
             OpenDraft(d, u, i, q)
      PROVE  DraftInv'
  <2>1. ASSUME NEW e \in Drafts, drafts[e] # NULL, drafts[e].status # "pending"
        PROVE  drafts'[e] = drafts[e]
    <3>1. e # d
      BY <1>3, <2>1, Zenon DEF OpenDraft
    <3>2. drafts' = [x \in Drafts |->
            CASE x = d -> [user |-> u, item |-> i, quantity |-> q,
                           fields |-> goods[i].fields, status |-> "pending", order |-> 0]
              [] x # d /\ drafts[x] # NULL /\ drafts[x].user = u /\ drafts[x].item = i
                   /\ drafts[x].status = "pending" -> [drafts[x] EXCEPT !.status = "closed"]
              [] OTHER -> drafts[x]]
      BY <1>3, Zenon DEF OpenDraft
    <3> QED BY <2>1, <3>1, <3>2, Zenon
  <2>2. UNCHANGED orders
    BY <1>3, Zenon DEF OpenDraft
  <2> QED BY <2>1, <2>2, SettledDraftsStay
<1>4. ASSUME NEW d \in Drafts, CloseDraft(d) PROVE DraftInv'
  <2>1. /\ UNCHANGED orders /\ drafts[d].status = "pending"
        /\ \A e \in Drafts : e # d => drafts'[e] = drafts[e]
    BY <1>4 DEF CloseDraft, TypeOK
  <2> QED BY <2>1, SettledDraftsStay
<1> QED BY <1>1, <1>2, <1>3, <1>4, BuyBacked DEF Next, vars, AddToCart, RemoveFromCart,
        ClearCart, ConfirmCheckout, Checkout, CheckoutNothing, Redeem, TopUp, Deduct,
        ChangeBalance, AddValue, DeleteValue, EditItem, TogglePromo, DeletePromo, ExpirePromo

\* A draft and its order belong together (transactions.py, manual_intake.py): however
\* often a form is confirmed, closed, restarted or swept away with its product, it pays
\* for one order of its user, and every manual order was paid with one.
THEOREM DraftsPayForOne == Spec => []DraftsPayOnce
<1>1. Init => TypeOK /\ DraftInv
  BY TypeInit, SetsAssumption, MoneyAssumption DEF Init, DraftInv
<1>2. TypeOK /\ DraftInv /\ [Next]_vars => TypeOK' /\ DraftInv'
  BY TypeStep, DraftStep, SetsAssumption, MoneyAssumption, RowsAssumption
<1>3. TypeOK /\ DraftInv => DraftsPayOnce
  BY DEF DraftInv, OrderBacked, DraftsPayOnce
<1> QED BY <1>1, <1>2, <1>3, PTL DEF Spec

-------------------------------------------------------------------------------
(* Orders and what they delivered *)

\* A row is of an order that exists, or of none.
DeliveryInv ==
  /\ \A r \in DOMAIN bought : bought[r].order <= Len(orders)
  /\ OrdersDelivered

\* bought_goods after some rows were added.
LEMMA RowsAdded ==
  ASSUME TypeOK, NEW rows \in Seq(Bought), bought' = bought \o rows
  PROVE  /\ Len(bought) \in Nat /\ Len(rows) \in Nat /\ Len(bought') = Len(bought) + Len(rows)
         /\ DOMAIN bought = 1..Len(bought) /\ DOMAIN bought' = 1..(Len(bought) + Len(rows))
         /\ \A r \in 1..Len(bought) : bought'[r] = bought[r] /\ bought[r] \in Bought
         /\ \A r \in 1..Len(rows) : bought'[Len(bought) + r] = rows[r] /\ rows[r] \in Bought
<1>1. bought \in Seq(Bought)
  BY DEF TypeOK
<1>2. /\ bought' \in Seq(Bought) /\ Len(bought') = Len(bought) + Len(rows)
      /\ \A r \in 1..(Len(bought) + Len(rows)) :
           bought'[r] = IF r <= Len(bought) THEN bought[r] ELSE rows[r - Len(bought)]
  BY <1>1, ConcatProperties
<1>3. /\ Len(bought) \in Nat /\ Len(rows) \in Nat /\ DOMAIN bought = 1..Len(bought)
      /\ DOMAIN bought' = 1..(Len(bought) + Len(rows))
      /\ \A r \in 1..Len(bought) : bought[r] \in Bought
      /\ \A r \in 1..Len(rows) : rows[r] \in Bought
  BY <1>1, <1>2
<1>4. ASSUME NEW r \in 1..Len(rows) PROVE bought'[Len(bought) + r] = rows[r]
  BY <1>2, <1>3
<1> QED BY <1>2, <1>3, <1>4

\* The rows of an order that was there before are what they were.
LEMMA OldOrdersDelivered ==
  ASSUME TypeOK, DeliveryInv, NEW rows \in Seq(Bought), bought' = bought \o rows,
         NEW n \in Nat, \A r \in 1..Len(rows) : rows[r].order # n
  PROVE  RowsOf(n)' = RowsOf(n)
<1>1. ASSUME NEW r \in DOMAIN bought' PROVE bought'[r].order = n <=> r \in RowsOf(n)
  <2>1. CASE r <= Len(bought)
    BY <2>1, RowsAdded DEF RowsOf
  <2>2. CASE r > Len(bought)
    <3>1. r - Len(bought) \in 1..Len(rows) /\ r = Len(bought) + (r - Len(bought))
      BY <2>2, RowsAdded
    <3>2. bought'[r] = rows[r - Len(bought)]
      BY <3>1, RowsAdded
    <3>3. r \notin DOMAIN bought
      BY <2>2, RowsAdded
    <3> QED BY <3>1, <3>2, <3>3 DEF RowsOf
  <2> QED BY <2>1, <2>2, RowsAdded
<1>2. RowsOf(n) \subseteq DOMAIN bought'
  BY RowsAdded DEF RowsOf
<1> QED BY <1>1, <1>2 DEF RowsOf

LEMMA BuyDelivered ==
  ASSUME TypeOK, DeliveryInv, SetsAssumption, MoneyAssumption,
         NEW u \in Users, NEW i \in Items, NEW q \in Quantities,
         NEW p \in Promos \cup {NULL}, NEW d \in Drafts \cup {NULL}, Buy(u, i, q, p, d)
  PROVE  DeliveryInv'
<1> DEFINE new == [user |-> u, item |-> i, quantity |-> q, total |-> q * Discounted(i, p),
                   manual |-> goods[i].mode = "manual", draft |-> d, promo |-> p]
<1>1. PICK rows : BuyRows(rows, u, i, q, p)
  BY BuyHands
<1>2. rows \in Seq(Bought) /\ bought' = bought \o rows
  BY <1>1 DEF BuyRows
<1>3. /\ new.manual <=> goods[i].mode = "manual"
      /\ new.quantity = q /\ new.total = q * Discounted(i, p)
  OBVIOUS
<1>4. orders' = Append(orders, new)
  BY DEF Buy
<1> HIDE DEF new
<1>5. /\ Len(orders) \in Nat /\ DOMAIN orders = 1..Len(orders)
      /\ Len(orders') = Len(orders) + 1 /\ DOMAIN orders' = 1..(Len(orders) + 1)
      /\ orders'[Len(orders) + 1] = new /\ \A n \in 1..Len(orders) : orders'[n] = orders[n]
  <2>1. orders \in Seq(Order)
    BY DEF TypeOK
  <2> QED BY <1>4, <2>1
<1>6. ASSUME NEW r \in DOMAIN bought'
      PROVE  /\ bought'[r].order <= Len(orders')
             /\ bought'[r].order = Len(orders) + 1 <=> r > Len(bought)
             /\ r > Len(bought) => bought'[r].price = Discounted(i, p)
  <2>1. CASE r <= Len(bought)
    <3>0. r \in 1..Len(bought) /\ DOMAIN bought = 1..Len(bought)
      BY <1>2, <2>1, RowsAdded
    <3>1. r \in DOMAIN bought /\ bought'[r] = bought[r] /\ bought[r] \in Bought
      BY <1>2, <3>0, RowsAdded
    <3>2. bought[r].order <= Len(orders) /\ bought[r].order \in Nat
      BY <3>1 DEF DeliveryInv, Bought
    <3> QED BY <1>2, <1>5, <2>1, <3>1, <3>2, RowsAdded
  <2>2. CASE r > Len(bought)
    <3>1. r - Len(bought) \in 1..Len(rows) /\ r = Len(bought) + (r - Len(bought))
      BY <1>2, <2>2, RowsAdded
    <3>2. bought'[r] = rows[r - Len(bought)]
      BY <1>2, <3>1, RowsAdded
    <3> QED BY <1>1, <1>5, <2>2, <3>1, <3>2 DEF BuyRows
  <2> QED BY <1>2, <2>1, <2>2, RowsAdded
<1>7. ASSUME NEW n \in 1..Len(orders)
      PROVE  IF orders'[n].manual THEN RowsOf(n)' = {}
             ELSE /\ Cardinality(RowsOf(n)') = orders'[n].quantity
                  /\ \A r \in RowsOf(n)' :
                       bought'[r].price * orders'[n].quantity = orders'[n].total
  <2>1. RowsOf(n)' = RowsOf(n)
    <3>1. \A r \in 1..Len(rows) : rows[r].order # n
      BY <1>1, <1>5 DEF BuyRows
    <3>2. n \in Nat
      BY <1>5
    <3> QED BY <1>2, <3>1, <3>2, OldOrdersDelivered
  <2>2. \A r \in RowsOf(n) : bought'[r] = bought[r]
    BY <1>2, RowsAdded DEF RowsOf
  <2>3. orders'[n] = orders[n] /\ n \in DOMAIN orders
    BY <1>5
  <2> QED BY <2>1, <2>2, <2>3 DEF DeliveryInv, OrdersDelivered
<1>8. ASSUME NEW n \in DOMAIN orders', n = Len(orders) + 1
      PROVE  IF orders'[n].manual THEN RowsOf(n)' = {}
             ELSE /\ Cardinality(RowsOf(n)') = orders'[n].quantity
                  /\ \A r \in RowsOf(n)' :
                       bought'[r].price * orders'[n].quantity = orders'[n].total
  <2>1. orders'[n] = new
    BY <1>5, <1>8
  <2>2. RowsOf(n)' = (Len(bought) + 1)..(Len(bought) + Len(rows))
    <3>1. RowsOf(n)' = {r \in 1..(Len(bought) + Len(rows)) : r > Len(bought)}
      BY <1>2, <1>6, <1>8, RowsAdded DEF RowsOf
    <3>2. Len(bought) \in Nat /\ Len(rows) \in Nat
      BY <1>2, RowsAdded
    <3> QED BY <3>1, <3>2
  <2>3. Len(rows) = IF goods[i].mode = "manual" THEN 0 ELSE q
    BY <1>1 DEF BuyRows
  <2>4. Len(bought) \in Nat /\ Len(rows) \in Nat
    BY <1>2, RowsAdded
  <2>5. CASE goods[i].mode = "manual"
    BY <1>3, <2>1, <2>2, <2>3, <2>4, <2>5
  <2>6. CASE goods[i].mode # "manual"
    <3>1. q \in Nat /\ q # 0 /\ Len(rows) = q /\ Discounted(i, p) \in Nat
      BY <2>3, <2>6, DiscountedNat DEF MoneyAssumption
    <3>2. Cardinality(RowsOf(n)') = q
      <4> DEFINE a == Len(bought) + 1
                 b == Len(bought) + Len(rows)
      <4>1. a \in Int /\ b \in Int /\ a <= b /\ b - a + 1 = q
        BY <2>4, <3>1
      <4>2. RowsOf(n)' = a..b
        BY <2>2
      <4> HIDE DEF a, b
      <4>3. Cardinality(a..b) = b - a + 1
        BY <4>1, FS_Interval
      <4>4. Cardinality(a..b) = q
        BY <4>1, <4>3
      <4> QED BY <4>2, <4>4, Zenon
    <3>3. \A r \in RowsOf(n)' : bought'[r].price = Discounted(i, p)
      <4>1. \A r \in RowsOf(n)' : r \in DOMAIN bought' /\ bought'[r].order = n
        BY DEF RowsOf
      <4> QED BY <1>6, <1>8, <4>1
    <3>4. Discounted(i, p) * q = q * Discounted(i, p)
      BY <3>1
    <3> QED BY <1>3, <2>1, <2>6, <3>2, <3>3, <3>4
  <2> QED BY <2>5, <2>6
<1>9. OrdersDelivered'
  <2>1. \A n \in DOMAIN orders' : n \in 1..Len(orders) \/ n = Len(orders) + 1
    BY <1>5
  <2>2. \A n \in DOMAIN orders' :
          IF orders'[n].manual THEN RowsOf(n)' = {}
          ELSE /\ Cardinality(RowsOf(n)') = orders'[n].quantity
               /\ \A r \in RowsOf(n)' : bought'[r].price * orders'[n].quantity = orders'[n].total
    BY <1>7, <1>8, <2>1
  <2> QED BY <2>2 DEF OrdersDelivered
<1> QED BY <1>6, <1>9 DEF DeliveryInv

LEMMA DeliveryStep ==
  ASSUME TypeOK, DeliveryInv, SetsAssumption, MoneyAssumption, [Next]_vars
  PROVE  DeliveryInv'
<1>1. CASE UNCHANGED <<orders, bought>>
  BY <1>1 DEF DeliveryInv, OrdersDelivered, RowsOf
<1>2. ASSUME NEW u \in Users, Checkout(u) PROVE DeliveryInv'
  <2>1. PICK rows, L : SoldLines(rows, u, L)
    BY <1>2, CheckoutHands
  <2>2. UNCHANGED orders
    BY <1>2, Zenon DEF Checkout
  <2>3. /\ rows \in Seq(Bought) /\ bought' = bought \o rows
        /\ \A r \in 1..Len(rows) : rows[r].order = 0
    BY <2>1 DEF SoldLines
  <2>4. ASSUME NEW r \in DOMAIN bought' PROVE bought'[r].order <= Len(orders)
    <3>1. CASE r <= Len(bought)
      BY <2>3, <3>1, RowsAdded DEF DeliveryInv
    <3>2. CASE r > Len(bought)
      <4>1. r - Len(bought) \in 1..Len(rows) /\ r = Len(bought) + (r - Len(bought))
        BY <2>3, <3>2, RowsAdded
      <4>2. bought'[r] = rows[r - Len(bought)]
        BY <2>3, <4>1, RowsAdded
      <4>3. bought'[r].order = 0 /\ Len(orders) \in Nat
        BY <2>3, <4>1, <4>2 DEF TypeOK
      <4> QED BY <4>3
    <3> QED BY <2>3, <3>1, <3>2, RowsAdded
  <2>5. ASSUME NEW n \in DOMAIN orders
        PROVE  RowsOf(n)' = RowsOf(n) /\ \A r \in RowsOf(n) : bought'[r] = bought[r]
    <3>1. n \in Nat /\ n # 0
      BY OrderTyped
    <3>2. \A r \in 1..Len(rows) : rows[r].order # n
      BY <2>3, <3>1
    <3>3. RowsOf(n)' = RowsOf(n)
      BY <2>3, <3>1, <3>2, OldOrdersDelivered
    <3>4. \A r \in RowsOf(n) : bought'[r] = bought[r]
      BY <2>3, RowsAdded DEF RowsOf
    <3> QED BY <3>3, <3>4
  <2>6. OrdersDelivered'
    BY <2>2, <2>5 DEF DeliveryInv, OrdersDelivered
  <2> QED BY <2>2, <2>4, <2>6 DEF DeliveryInv
<1> QED BY <1>1, <1>2, BuyDelivered DEF Next, vars, AddToCart, RemoveFromCart,
        ClearCart, ConfirmCheckout, CheckoutNothing, Redeem, TopUp, Deduct,
        ChangeBalance, AddValue, DeleteValue, DeleteItem, EditItem, TogglePromo, DeletePromo,
        ExpirePromo, OpenDraft, CloseDraft

\* An instant order delivers what it charged for (buy_item_transaction): as many rows as
\* its quantity, at prices that make up its total, whatever was bought, deleted or edited
\* since; a manual order delivers no row.
THEOREM OrdersAreDelivered == Spec => []OrdersDelivered
<1>1. Init => TypeOK /\ DeliveryInv
  BY TypeInit, SetsAssumption, MoneyAssumption DEF Init, DeliveryInv, OrdersDelivered
<1>2. TypeOK /\ DeliveryInv /\ [Next]_vars => TypeOK' /\ DeliveryInv'
  BY TypeStep, DeliveryStep, SetsAssumption, MoneyAssumption
<1>3. DeliveryInv => OrdersDelivered
  BY DEF DeliveryInv
<1> QED BY <1>1, <1>2, <1>3, PTL DEF Spec

-------------------------------------------------------------------------------
(* Money *)

\* What each row took from user u through a cart.
CartAmounts(rows, u) ==
  [r \in DOMAIN rows |-> IF rows[r].user = u /\ rows[r].order = 0 THEN rows[r].price ELSE 0]

\* Such a sum is a whole number, and new rows add to it.
LEMMA AmountsInt ==
  ASSUME NEW n \in Nat, NEW rows, NEW u, DOMAIN rows = 1..n, \A r \in 1..n : rows[r] \in Bought
  PROVE  Total(CartAmounts(rows, u), n) \in Int
<1> DEFINE f == CartAmounts(rows, u)
<1>1. \A r \in 1..n : f[r] \in Int
  BY DEF CartAmounts, Bought
<1> HIDE DEF f
<1>2. Total(f, n) \in Int
  BY <1>1, TotalInt
<1> QED BY <1>2 DEF f

LEMMA AmountsSplit ==
  ASSUME NEW n \in Nat, NEW m \in Nat, NEW old, NEW rows, NEW new, NEW u,
         DOMAIN old = 1..n, DOMAIN rows = 1..m, DOMAIN new = 1..(n + m),
         \A r \in 1..n : new[r] = old[r] /\ old[r] \in Bought,
         \A r \in 1..m : new[n + r] = rows[r] /\ rows[r] \in Bought
  PROVE  Total(CartAmounts(new, u), n + m)
           = Total(CartAmounts(old, u), n) + Total(CartAmounts(rows, u), m)
<1> DEFINE f == CartAmounts(old, u)
           g == CartAmounts(rows, u)
           h == CartAmounts(new, u)
<1>1. \A r \in 1..n : f[r] \in Int /\ h[r] = f[r]
  BY DEF CartAmounts, Bought
<1>2. \A r \in 1..m : g[r] \in Int /\ h[n + r] = g[r]
  <2>1. \A r \in 1..m : n + r \in 1..(n + m)
    OBVIOUS
  <2> QED BY <2>1 DEF CartAmounts, Bought
<1> HIDE DEF f, g, h
<1>3. Total(h, n + m) = Total(f, n) + Total(g, m)
  BY <1>1, <1>2, TotalSplit
<1> QED BY <1>3 DEF f, g, h

\* So do the rows added to bought_goods.
LEMMA RowsSplit ==
  ASSUME NEW rows, NEW u, Len(bought) \in Nat, Len(rows) \in Nat,
         DOMAIN bought = 1..Len(bought), DOMAIN rows = 1..Len(rows),
         DOMAIN bought' = 1..(Len(bought) + Len(rows)),
         \A r \in 1..Len(bought) : bought'[r] = bought[r] /\ bought[r] \in Bought,
         \A r \in 1..Len(rows) : bought'[Len(bought) + r] = rows[r] /\ rows[r] \in Bought
  PROVE  Total(CartAmounts(bought', u), Len(bought) + Len(rows))
           = Total(CartAmounts(bought, u), Len(bought)) + Total(CartAmounts(rows, u), Len(rows))
  BY AmountsSplit

LEMMA SpendingGrows ==
  ASSUME TypeOK, NEW rows \in Seq(Bought), bought' = bought \o rows, NEW u \in Users
  PROVE  /\ CartSpending(u) \in Int /\ Total(CartAmounts(rows, u), Len(rows)) \in Int
         /\ CartSpending(u)' = CartSpending(u) + Total(CartAmounts(rows, u), Len(rows))
<1>1. /\ Len(bought) \in Nat /\ Len(rows) \in Nat
      /\ DOMAIN bought = 1..Len(bought) /\ DOMAIN rows = 1..Len(rows)
      /\ DOMAIN bought' = 1..(Len(bought) + Len(rows))
      /\ Len(bought') = Len(bought) + Len(rows)
      /\ \A r \in 1..Len(bought) : bought'[r] = bought[r] /\ bought[r] \in Bought
      /\ \A r \in 1..Len(rows) : bought'[Len(bought) + r] = rows[r] /\ rows[r] \in Bought
  BY RowsAdded
<1>2. /\ Total(CartAmounts(bought, u), Len(bought)) \in Int
      /\ Total(CartAmounts(rows, u), Len(rows)) \in Int
  BY <1>1, AmountsInt
<1>3. Total(CartAmounts(bought', u), Len(bought) + Len(rows))
        = Total(CartAmounts(bought, u), Len(bought)) + Total(CartAmounts(rows, u), Len(rows))
  BY <1>1, RowsSplit
<1>4. /\ CartSpending(u) = Total(CartAmounts(bought, u), Len(bought))
      /\ CartSpending(u)' = Total(CartAmounts(bought', u), Len(bought'))
  BY DEF CartSpending, CartAmounts
<1> QED BY <1>1, <1>2, <1>3, <1>4

\* A sum over the lines of a cart is the sum over the lines that are sold, listed in
\* their order.
LEMMA SoldLinesSum ==
  ASSUME NEW c \in Nat, NEW L \in SUBSET (1..c), NEW f, NEW g,
         \A k \in 1..c : f[k] \in Int, \A k \in (1..c) \ L : f[k] = 0,
         \A n \in 1..Cardinality(L) : g[n] = f[Nth(L, n)]
  PROVE  Total(g, Cardinality(L)) = Total(f, c)
<1> DEFINE N(k) == Cardinality(Smaller(L, k + 1))
           T == {k \in Nat : k <= c => Total(g, N(k)) = Total(f, k)}
<1>1. IsFiniteSet(L) /\ L \subseteq Nat /\ Cardinality(L) \in Nat
  <2>1. IsFiniteSet(1..c)
    BY FS_Interval
  <2>2. IsFiniteSet(L)
    BY <2>1, FS_Subset
  <2> QED BY <2>2, FS_CardinalityType
<1>2. ASSUME NEW k \in Nat
      PROVE  IsFiniteSet(Smaller(L, k)) /\ N(k) \in Nat /\ N(k) <= Cardinality(L)
  <2>1. Smaller(L, k) \in SUBSET L /\ Smaller(L, k + 1) \in SUBSET L
    BY DEF Smaller
  <2> QED BY <1>1, <2>1, FS_Subset, FS_CardinalityType
<1>3. 0 \in T
  <2>1. Smaller(L, 0 + 1) = {}
    <3>1. \A x \in L : ~(x < 0 + 1)
      OBVIOUS
    <3> QED BY <3>1 DEF Smaller
  <2>2. N(0) = 0
    BY <2>1, FS_EmptySet, Zenon
  <2> QED BY <2>2, TotalZero
<1>4. ASSUME NEW k \in Nat, k \in T PROVE k + 1 \in T
  <2> SUFFICES ASSUME k + 1 <= c PROVE Total(g, N(k + 1)) = Total(f, k + 1)
    OBVIOUS
  <2>1. Total(g, N(k)) = Total(f, k) /\ Total(f, k + 1) = Total(f, k) + f[k + 1]
    BY <1>4, TotalStep
  <2>2. Total(f, k) \in Int /\ k + 1 \in 1..c /\ k + 1 \in Nat
    <3>1. \A x \in 1..k : f[x] \in Int
      OBVIOUS
    <3> QED BY <3>1, TotalInt
  <2>3. CASE k + 1 \notin L
    <3>1. Smaller(L, (k + 1) + 1) = Smaller(L, k + 1)
      BY <1>1, <2>2, <2>3, SmallerNext
    <3>2. f[k + 1] = 0
      BY <2>2, <2>3
    <3> QED BY <2>1, <2>2, <3>1, <3>2
  <2>4. CASE k + 1 \in L
    <3>1. /\ Smaller(L, (k + 1) + 1) = Smaller(L, k + 1) \cup {k + 1}
          /\ k + 1 \notin Smaller(L, k + 1)
      BY <1>1, <2>2, <2>4, SmallerNext
    <3>2. N(k + 1) = N(k) + 1
      BY <1>2, <3>1, FS_AddElement
    <3>3. N(k + 1) \in 1..Cardinality(L)
      <4>1. N(k) \in Nat /\ N(k + 1) <= Cardinality(L) /\ N(k + 1) \in Nat
        BY <1>2, <2>2
      <4> HIDE DEF N
      <4> QED BY <1>1, <3>2, <4>1
    <3> DEFINE j == Nth(L, N(k + 1))
    <3>4. j \in L /\ Cardinality(Smaller(L, j)) = N(k + 1) - 1
      BY <1>1, <3>3, NthLists
    <3>5. Cardinality(Smaller(L, j)) = Cardinality(Smaller(L, k + 1))
      <4>1. N(k) \in Nat /\ N(k) = Cardinality(Smaller(L, k + 1))
        BY <1>2
      <4> HIDE DEF N, j
      <4> QED BY <3>2, <3>4, <4>1
    <3> HIDE DEF j, N
    <3>6. j = k + 1
      <4>1. j \in Nat /\ k + 1 \in Nat
        BY <1>1, <3>4
      <4>2. ASSUME NEW x \in L, NEW y \in L, x < y
            PROVE  Cardinality(Smaller(L, x)) # Cardinality(Smaller(L, y))
        <5>1. /\ Cardinality(Smaller(L, x)) \in Nat /\ Cardinality(Smaller(L, y)) \in Nat
              /\ Cardinality(Smaller(L, x)) < Cardinality(Smaller(L, y))
          BY <1>1, <4>2, SmallerGrows
        <5> QED BY <5>1
      <4>3. ~(j < k + 1) /\ ~(k + 1 < j)
        BY <2>4, <3>4, <3>5, <4>2
      <4> QED BY <4>1, <4>3
    <3>7. g[N(k + 1)] = f[k + 1]
      BY <3>3, <3>6 DEF j
    <3>8. Total(g, N(k) + 1) = Total(g, N(k)) + g[N(k) + 1]
      BY <1>2, TotalStep
    <3> QED BY <2>1, <3>2, <3>7, <3>8
  <2> QED BY <2>3, <2>4
<1>5. c \in T
  <2> HIDE DEF T
  <2> QED BY <1>3, <1>4, Induction
<1>6. Smaller(L, c + 1) = L
  <2>1. \A x \in L : x < c + 1
    OBVIOUS
  <2> QED BY <2>1 DEF Smaller
<1> QED BY <1>5, <1>6

\* A checkout takes from the balance what its rows record.
LEMMA CheckoutAudited ==
  ASSUME TypeOK, MoneyAudited, SetsAssumption, MoneyAssumption, NEW u \in Users, Checkout(u)
  PROVE  MoneyAudited'
<1>1. PICK rows, L : SoldLines(rows, u, L)
  BY CheckoutHands
<1>2. /\ rows \in Seq(Bought) /\ bought' = bought \o rows /\ Len(rows) = Cardinality(L)
      /\ balance' = [balance EXCEPT ![u] = @ - CartTotal(u, L)]
      /\ \A n \in 1..Len(rows) : /\ rows[n].user = u /\ rows[n].order = 0
                                  /\ rows[n].price = LinePrice(u, Nth(L, n))
  BY <1>1 DEF SoldLines
<1>3. UNCHANGED operations
  BY Zenon DEF Checkout
<1>4. Len(rows) \in Nat /\ DOMAIN rows = 1..Len(rows)
  BY <1>2
<1>5. Total(CartAmounts(rows, u), Len(rows)) = CartTotal(u, L)
  <2> DEFINE c == Len(cart[u])
             f == [k \in DOMAIN cart[u] |-> IF k \in L THEN LinePrice(u, k) ELSE 0]
             g == CartAmounts(rows, u)
  <2>1. c \in Nat /\ DOMAIN cart[u] = 1..c /\ L \in SUBSET (1..c)
    <3>1. cart[u] \in Seq(Line)
      BY DEF TypeOK
    <3> QED BY <1>1, <3>1 DEF SoldLines
  <2>2. \A k \in 1..c : f[k] \in Int
    <3>1. \A k \in 1..c : LinePrice(u, k) \in Nat
      BY <2>1, CartLine, DiscountedNat DEF LinePrice
    <3> HIDE DEF c
    <3> QED BY <2>1, <3>1
  <2>3. \A k \in (1..c) \ L : f[k] = 0
    BY <2>1
  <2>4. \A n \in 1..Cardinality(L) : g[n] = f[Nth(L, n)]
    <3>1. \A n \in 1..Cardinality(L) : Nth(L, n) \in L
      BY <1>1, NthLists DEF SoldLines
    <3>2. \A n \in 1..Cardinality(L) : f[Nth(L, n)] = LinePrice(u, Nth(L, n))
      BY <2>1, <3>1
    <3>3. \A n \in 1..Cardinality(L) : g[n] = rows[n].price
      BY <1>2, <1>4 DEF CartAmounts
    <3> QED BY <1>2, <3>2, <3>3
  <2> HIDE DEF c, f, g
  <2>5. Total(g, Cardinality(L)) = Total(f, c)
    BY <2>1, <2>2, <2>3, <2>4, SoldLinesSum
  <2> QED BY <1>2, <2>5 DEF CartTotal, c, f, g
<1>6. ASSUME NEW v \in Users, v # u PROVE Total(CartAmounts(rows, v), Len(rows)) = 0
  <2>1. \A r \in 1..Len(rows) : CartAmounts(rows, v)[r] = 0
    BY <1>2, <1>4, <1>6 DEF CartAmounts
  <2> QED BY <1>4, <2>1, TotalNothing
<1>7. ASSUME NEW v \in Users
      PROVE  balance'[v] = (InitialBalance[v] + operations'[v]) - CartSpending(v)'
  <2>1. /\ CartSpending(v) \in Int
        /\ CartSpending(v)' = CartSpending(v) + Total(CartAmounts(rows, v), Len(rows))
    BY <1>2, SpendingGrows
  <2>2. balance[v] = (InitialBalance[v] + operations[v]) - CartSpending(v)
    BY DEF MoneyAudited
  <2>3. operations[v] \in Int /\ InitialBalance[v] \in Int /\ CartTotal(u, L) \in Int
    <3>1. CartTotal(u, L) \in Nat
      BY CartTotalNat
    <3> QED BY <3>1 DEF TypeOK, MoneyAssumption
  <2>4. balance'[v] = IF v = u THEN balance[u] - CartTotal(u, L) ELSE balance[v]
    BY <1>2 DEF TypeOK
  <2> QED BY <1>3, <1>5, <1>6, <2>1, <2>2, <2>3, <2>4
<1> QED BY <1>7 DEF MoneyAudited

\* A direct purchase records an operation for what it takes, and no cart row.
LEMMA BuyAudited ==
  ASSUME TypeOK, MoneyAudited, SetsAssumption, MoneyAssumption,
         NEW u \in Users, NEW i \in Items, NEW q \in Quantities,
         NEW p \in Promos \cup {NULL}, NEW d \in Drafts \cup {NULL}, Buy(u, i, q, p, d)
  PROVE  MoneyAudited'
<1>1. PICK rows : BuyRows(rows, u, i, q, p)
  BY BuyHands
<1>2. /\ rows \in Seq(Bought) /\ bought' = bought \o rows
      /\ \A r \in 1..Len(rows) : rows[r].order = Len(orders) + 1
  BY <1>1 DEF BuyRows
<1> DEFINE cost == q * Discounted(i, p)
<1>3. cost \in Nat
  BY DiscountedNat, TimesNat DEF MoneyAssumption
<1>4. /\ balance' = [balance EXCEPT ![u] = @ - cost]
      /\ operations' = [operations EXCEPT ![u] = @ - cost]
  BY DEF Buy, OrderTotal
<1> HIDE DEF cost
<1>5. ASSUME NEW v \in Users PROVE CartSpending(v)' = CartSpending(v) /\ CartSpending(v) \in Int
  <2>1. Len(rows) \in Nat /\ DOMAIN rows = 1..Len(rows) /\ Len(orders) + 1 # 0
    BY <1>2 DEF TypeOK
  <2>2. \A r \in 1..Len(rows) : CartAmounts(rows, v)[r] = 0
    BY <1>2, <2>1 DEF CartAmounts
  <2>3. Total(CartAmounts(rows, v), Len(rows)) = 0
    BY <2>1, <2>2, TotalNothing
  <2>4. /\ CartSpending(v) \in Int
        /\ CartSpending(v)' = CartSpending(v) + Total(CartAmounts(rows, v), Len(rows))
    BY <1>2, SpendingGrows
  <2> QED BY <2>3, <2>4
<1>6. ASSUME NEW v \in Users
      PROVE  balance'[v] = (InitialBalance[v] + operations'[v]) - CartSpending(v)'
  <2>1. balance[v] = (InitialBalance[v] + operations[v]) - CartSpending(v)
    BY DEF MoneyAudited
  <2>2. operations[v] \in Int /\ InitialBalance[v] \in Int
    BY DEF TypeOK, MoneyAssumption
  <2>3. /\ balance'[v] = IF v = u THEN balance[v] - cost ELSE balance[v]
        /\ operations'[v] = IF v = u THEN operations[v] - cost ELSE operations[v]
    BY <1>4 DEF TypeOK
  <2> QED BY <1>3, <1>5, <2>1, <2>2, <2>3
<1> QED BY <1>6 DEF MoneyAudited

\* A redemption and an administrator's change are recorded as they are booked.
LEMMA BookedAudited ==
  ASSUME TypeOK, MoneyAudited, MoneyAssumption, NEW u \in Users, NEW amount \in Int,
         balance' = [balance EXCEPT ![u] = @ + amount],
         operations' = [operations EXCEPT ![u] = @ + amount], UNCHANGED bought
  PROVE  MoneyAudited'
<1> SUFFICES ASSUME NEW v \in Users
             PROVE  balance'[v] = (InitialBalance[v] + operations'[v]) - CartSpending(v)'
  BY DEF MoneyAudited
<1>1. balance[v] = (InitialBalance[v] + operations[v]) - CartSpending(v)
  BY DEF MoneyAudited
<1>2. operations[v] \in Int /\ InitialBalance[v] \in Int
  BY DEF TypeOK, MoneyAssumption
<1>3. CartSpending(v)' = CartSpending(v) /\ CartSpending(v) \in Int
  <2>1. << >> \in Seq(Bought) /\ bought \o << >> = bought
    BY EmptySeq, ConcatEmptySeq DEF TypeOK
  <2>2. CartSpending(v) \in Int
    BY <2>1, SpendingGrows
  <2> QED BY <2>2 DEF CartSpending
<1>4. /\ balance'[v] = IF v = u THEN balance[v] + amount ELSE balance[v]
      /\ operations'[v] = IF v = u THEN operations[v] + amount ELSE operations[v]
  BY DEF TypeOK
<1> QED BY <1>1, <1>2, <1>3, <1>4

LEMMA MoneyStep ==
  ASSUME TypeOK, MoneyAudited, SetsAssumption, MoneyAssumption, [Next]_vars
  PROVE  MoneyAudited'
<1>1. CASE UNCHANGED <<balance, operations, bought>>
  BY <1>1 DEF MoneyAudited, CartSpending
<1>2. ASSUME NEW u \in Users, NEW p \in Promos, Redeem(u, p) PROVE MoneyAudited'
  <2>1. Discount[p].value \in Int
    BY DEF MoneyAssumption
  <2> QED BY <1>2, <2>1, BookedAudited DEF Redeem
<1>3. ASSUME NEW u \in Users, NEW amount \in Amounts, TopUp(u, amount) \/ Deduct(u, amount)
      PROVE  MoneyAudited'
  <2>1. amount \in Int /\ -amount \in Int
    BY DEF MoneyAssumption
  <2>2. PICK change \in {amount, -amount} : ChangeBalance(u, change)
    BY <1>3 DEF TopUp, Deduct
  <2> QED BY <2>1, <2>2, BookedAudited DEF ChangeBalance
<1> QED BY <1>1, <1>2, <1>3, BuyAudited, CheckoutAudited DEF Next, vars, AddToCart,
        RemoveFromCart, ClearCart, ConfirmCheckout, CheckoutNothing, AddValue, DeleteValue,
        DeleteItem, EditItem, TogglePromo, DeletePromo, ExpirePromo, OpenDraft, CloseDraft

LEMMA MoneyInit ==
  ASSUME Init, MoneyAssumption
  PROVE  MoneyAudited
<1> SUFFICES ASSUME NEW u \in Users
             PROVE  balance[u] = (InitialBalance[u] + operations[u]) - CartSpending(u)
  BY DEF MoneyAudited
<1>1. balance[u] = InitialBalance[u] /\ operations[u] = 0 /\ InitialBalance[u] \in Nat
  BY DEF Init, MoneyAssumption
<1>2. CartSpending(u) = 0
  BY TotalZero DEF Init, CartSpending
<1> QED BY <1>1, <1>2

\* No money is lost or made (transactions.py): a balance is the opening balance plus the
\* recorded operations, less what cart checkouts took, which only their rows record.
THEOREM MoneyIsAudited == Spec => []MoneyAudited
<1>1. Init => TypeOK /\ MoneyAudited
  BY TypeInit, MoneyInit, SetsAssumption, MoneyAssumption
<1>2. TypeOK /\ MoneyAudited /\ [Next]_vars => TypeOK' /\ MoneyAudited'
  BY TypeStep, MoneyStep, SetsAssumption, MoneyAssumption
<1> QED BY <1>1, <1>2, PTL DEF Spec

===============================================================================
