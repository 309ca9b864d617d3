------------------------- MODULE RunningTotalsProofs -------------------------
(***************************************************************************)
(* Facts about RunningTotals.  Neither prover can instantiate a theorem    *)
(* with an operator parameter, so induction is stated about a set of       *)
(* naturals and derived from the well-foundedness of < on Nat.             *)
(***************************************************************************)
EXTENDS RunningTotals, WellFoundedInduction, TLAPS

\* Every nonempty set of naturals has a least element.
LEMMA LeastElement ==
  ASSUME NEW T, T \subseteq Nat, T # {}
  PROVE  \E m \in T : \A k \in T : m <= k
<1> DEFINE Below == {ss \in Nat \X Nat : ss[1] < ss[2]}
<1>1. OpToRel(<, Nat) = Below
  BY Zenon DEF OpToRel
<1>2. IsWellFoundedOn(Below, Nat)
  BY <1>1, NatLessThanWellFounded, Zenon
<1> HIDE DEF Below
<1>3. PICK m \in T : \A k \in T : ~ (<<k, m>> \in Below)
  BY <1>2, WFMin
<1>4. \A k \in T : m <= k
  <2> SUFFICES ASSUME NEW k \in T PROVE m <= k
    OBVIOUS
  <2> k \in Nat /\ m \in Nat /\ <<k, m>> \notin Below
    BY <1>3
  <2> QED BY DEF Below
<1> QED BY <1>4

\* A set of naturals that holds 0 and the successor of each of its members is
\* all of Nat.  This is how every total below is shown to have its property.
LEMMA Induction ==
  ASSUME NEW T, 0 \in T, \A n \in Nat : n \in T => n + 1 \in T
  PROVE  Nat \subseteq T
<1>1. SUFFICES ASSUME Nat \ T # {} PROVE FALSE
  OBVIOUS
<1>2. PICK m \in Nat \ T : \A k \in Nat \ T : m <= k
  BY <1>1, LeastElement
<1>3. m # 0
  BY <1>2
<1>4. m - 1 \in Nat /\ m - 1 \in T
  BY <1>2, <1>3
<1> QED BY <1>2, <1>4

\* g is the running total of f on the indices S.
Extends(f, g, S) == g = [i \in S |-> IF i = 0 THEN 0 ELSE g[i - 1] + f[i]]

\* Two prefixes of the running total of f agree where both are defined.
LEMMA PrefixesAgree ==
  ASSUME NEW f, NEW g, NEW h, NEW m \in Nat, NEW n \in Nat, m <= n,
         Extends(f, g, 0..m), Extends(f, h, 0..n)
  PROVE  \A i \in 0..m : g[i] = h[i]
<1> DEFINE T == {i \in Nat : i <= m => g[i] = h[i]}
<1>1. 0 \in T
  BY DEF Extends
<1>2. ASSUME NEW i \in Nat, i \in T PROVE i + 1 \in T
  <2>1. CASE i + 1 <= m
    <3>1. g[i + 1] = g[i] + f[i + 1] /\ h[i + 1] = h[i] + f[i + 1]
      BY <2>1 DEF Extends
    <3> QED BY <3>1, <1>2, <2>1
  <2> QED BY <2>1
<1>3. Nat \subseteq T
  <2> HIDE DEF T
  <2> QED BY <1>1, <1>2, Induction
<1> QED BY <1>3

\* The running total of f exists on every finite prefix.
LEMMA PrefixExists ==
  ASSUME NEW f, NEW n \in Nat
  PROVE  \E g : Extends(f, g, 0..n)
<1> DEFINE T == {m \in Nat : \E g : Extends(f, g, 0..m)}
<1>1. 0 \in T
  <2> DEFINE g == [i \in 0..0 |-> 0]
  <2>1. Extends(f, g, 0..0)
    BY DEF Extends
  <2> QED BY <2>1
<1>2. ASSUME NEW m \in Nat, m \in T PROVE m + 1 \in T
  <2>1. PICK g : Extends(f, g, 0..m)
    BY <1>2
  <2> DEFINE h == [i \in 0..(m + 1) |-> IF i = m + 1 THEN g[m] + f[m + 1] ELSE g[i]]
  <2>2. Extends(f, h, 0..(m + 1))
    BY <2>1 DEF Extends
  <2> QED BY <2>2
<1>3. Nat \subseteq T
  <2> HIDE DEF T
  <2> QED BY <1>1, <1>2, Induction
<1> QED BY <1>3

\* Running(f), which TLA+ defines with CHOOSE, satisfies its recursion.
LEMMA RunningDef ==
  ASSUME NEW f
  PROVE  Extends(f, Running(f), Nat)
<1> DEFINE G(n) == CHOOSE g : Extends(f, g, 0..n)
           h == [i \in Nat |-> G(i)[i]]
<1>1. \A n \in Nat : Extends(f, G(n), 0..n)
  BY PrefixExists
<1> HIDE DEF G
<1>2. Extends(f, h, Nat)
  <2>1. ASSUME NEW i \in Nat PROVE h[i] = IF i = 0 THEN 0 ELSE h[i - 1] + f[i]
    <3>1. CASE i = 0
      BY <3>1, <1>1 DEF Extends
    <3>2. CASE i # 0
      <4>1. i - 1 \in Nat
        BY <3>2
      <4>2. G(i)[i] = G(i)[i - 1] + f[i]
        BY <3>2, <1>1 DEF Extends
      <4>3. G(i - 1)[i - 1] = G(i)[i - 1]
        <5>1. Extends(f, G(i - 1), 0..(i - 1)) /\ Extends(f, G(i), 0..i)
          BY <4>1, <1>1
        <5> QED BY <5>1, <4>1, PrefixesAgree
      <4> QED BY <3>2, <4>1, <4>2, <4>3
    <3> QED BY <3>1, <3>2
  <2> QED BY <2>1 DEF Extends
<1>3. Running(f) = CHOOSE g : Extends(f, g, Nat)
  BY DEF Running, Extends
<1> QED BY <1>2, <1>3

\* The sum of no rows is 0.
LEMMA TotalZero == ASSUME NEW f PROVE Total(f, 0) = 0
  BY RunningDef DEF Extends, Total

\* Adding a row adds its amount.
LEMMA TotalStep ==
  ASSUME NEW f, NEW n \in Nat
  PROVE  Total(f, n + 1) = Total(f, n) + f[n + 1]
  BY RunningDef DEF Extends, Total

\* A sum of integers is an integer.
LEMMA TotalInt ==
  ASSUME NEW n \in Nat, NEW f, \A i \in 1..n : f[i] \in Int
  PROVE  Total(f, n) \in Int
<1> DEFINE T == {m \in Nat : m <= n => Total(f, m) \in Int}
<1>1. 0 \in T
  BY TotalZero
<1>2. ASSUME NEW m \in Nat, m \in T PROVE m + 1 \in T
  <2>1. CASE m + 1 <= n
    <3>1. Total(f, m) \in Int /\ f[m + 1] \in Int
      BY <1>2, <2>1
    <3> QED BY <3>1, TotalStep
  <2> QED BY <2>1
<1>3. Nat \subseteq T
  <2> HIDE DEF T
  <2> QED BY <1>1, <1>2, Induction
<1> QED BY <1>3

\* A sum of non-negative amounts is non-negative.
LEMMA TotalNat ==
  ASSUME NEW n \in Nat, NEW f, \A i \in 1..n : f[i] \in Nat
  PROVE  Total(f, n) \in Nat
<1> DEFINE T == {m \in Nat : m <= n => Total(f, m) \in Nat}
<1>1. 0 \in T
  BY TotalZero
<1>2. ASSUME NEW m \in Nat, m \in T PROVE m + 1 \in T
  <2>1. CASE m + 1 <= n
    <3>1. Total(f, m) \in Nat /\ f[m + 1] \in Nat
      BY <1>2, <2>1
    <3> QED BY <3>1, TotalStep
  <2> QED BY <2>1
<1>3. Nat \subseteq T
  <2> HIDE DEF T
  <2> QED BY <1>1, <1>2, Induction
<1> QED BY <1>3

\* Rows with the same amounts have the same sum.
LEMMA TotalSame ==
  ASSUME NEW n \in Nat, NEW f, NEW g, \A i \in 1..n : f[i] = g[i]
  PROVE  Total(f, n) = Total(g, n)
<1> DEFINE T == {m \in Nat : m <= n => Total(f, m) = Total(g, m)}
<1>1. 0 \in T
  BY TotalZero
<1>2. ASSUME NEW m \in Nat, m \in T PROVE m + 1 \in T
  <2>1. CASE m + 1 <= n
    <3>1. Total(f, m) = Total(g, m) /\ f[m + 1] = g[m + 1]
      BY <1>2, <2>1
    <3> QED BY <3>1, TotalStep
  <2> QED BY <2>1
<1>3. Nat \subseteq T
  <2> HIDE DEF T
  <2> QED BY <1>1, <1>2, Induction
<1> QED BY <1>3

\* The sum of row-wise sums is the sum of the sums.
LEMMA TotalPlus ==
  ASSUME NEW n \in Nat, NEW f, NEW g, NEW h,
         \A i \in 1..n : f[i] \in Int /\ g[i] \in Int /\ h[i] = f[i] + g[i]
  PROVE  Total(h, n) = Total(f, n) + Total(g, n)
<1> DEFINE T == {m \in Nat : m <= n =>
                   /\ Total(f, m) \in Int /\ Total(g, m) \in Int
                   /\ Total(h, m) = Total(f, m) + Total(g, m)}
<1>1. 0 \in T
  BY TotalZero
<1>2. ASSUME NEW m \in Nat, m \in T PROVE m + 1 \in T
  <2>1. CASE m + 1 <= n
    <3>1. /\ Total(f, m) \in Int /\ Total(g, m) \in Int
          /\ Total(h, m) = Total(f, m) + Total(g, m)
      BY <1>2, <2>1
    <3>2. f[m + 1] \in Int /\ g[m + 1] \in Int /\ h[m + 1] = f[m + 1] + g[m + 1]
      BY <2>1
    <3> QED BY <3>1, <3>2, TotalStep
  <2> QED BY <2>1
<1>3. Nat \subseteq T
  <2> HIDE DEF T
  <2> QED BY <1>1, <1>2, Induction
<1> QED BY <1>3

\* Rows that add nothing sum to nothing.
LEMMA TotalNothing ==
  ASSUME NEW n \in Nat, NEW f, \A i \in 1..n : f[i] = 0
  PROVE  Total(f, n) = 0
<1> DEFINE T == {m \in Nat : m <= n => Total(f, m) = 0}
<1>1. 0 \in T
  BY TotalZero
<1>2. ASSUME NEW m \in Nat, m \in T PROVE m + 1 \in T
  <2>1. CASE m + 1 <= n
    <3>1. Total(f, m) = 0 /\ f[m + 1] = 0
      BY <1>2, <2>1
    <3> QED BY <3>1, TotalStep
  <2> QED BY <2>1
<1>3. Nat \subseteq T
  <2> HIDE DEF T
  <2> QED BY <1>1, <1>2, Induction
<1> QED BY <1>3

\* The sum of n rows followed by m rows is the sum of the two sums.
LEMMA TotalSplit ==
  ASSUME NEW n \in Nat, NEW m \in Nat, NEW f, NEW g, NEW h,
         \A i \in 1..n : f[i] \in Int /\ h[i] = f[i],
         \A i \in 1..m : g[i] \in Int /\ h[n + i] = g[i]
  PROVE  Total(h, n + m) = Total(f, n) + Total(g, m)
<1> DEFINE T == {k \in Nat : k <= m => /\ Total(g, k) \in Int
                                      /\ Total(h, n + k) = Total(f, n) + Total(g, k)}
<1>0. Total(f, n) \in Int
  BY TotalInt
<1>1. 0 \in T
  <2>1. Total(h, n) = Total(f, n)
    BY TotalSame
  <2>2. Total(g, 0) = 0 /\ n + 0 = n
    BY TotalZero
  <2> QED BY <1>0, <2>1, <2>2
<1>2. ASSUME NEW k \in Nat, k \in T PROVE k + 1 \in T
  <2>1. CASE k + 1 <= m
    <3>1. Total(g, k) \in Int /\ Total(h, n + k) = Total(f, n) + Total(g, k)
      BY <1>2, <2>1
    <3>2. Total(g, k + 1) = Total(g, k) + g[k + 1]
      BY TotalStep
    <3>3. /\ n + k \in Nat /\ n + (k + 1) = (n + k) + 1
          /\ Total(h, (n + k) + 1) = Total(h, n + k) + h[(n + k) + 1]
      BY TotalStep
    <3>4. k + 1 \in 1..m
      BY <2>1
    <3>5. g[k + 1] \in Int /\ h[n + (k + 1)] = g[k + 1]
      BY <3>4
    <3> QED BY <1>0, <3>1, <3>2, <3>3, <3>5
  <2> QED BY <2>1
<1>3. Nat \subseteq T
  <2> HIDE DEF T
  <2> QED BY <1>1, <1>2, Induction
<1> QED BY <1>3

===============================================================================
