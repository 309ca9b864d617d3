------------------------- MODULE ReferralLedgerProofs -------------------------
(***************************************************************************)
(* What ReferralLedger guarantees for any users, amounts, rates, batch     *)
(* size and hold.                                                          *)
(***************************************************************************)
EXTENDS ReferralLedger, RunningTotalsProofs, TLAPS

USE DEF Ids

\* What a row is, by its kind and status: the facts that make the type and the
\* sums inductive.
RowOK(i) ==
  LET e == earnings[i]
  IN  /\ e.status = "applied" <=> e.amount < 0
      /\ e.amount # 0
      /\ e.status # "applied" => e.recovered = 0 /\ e.owed = 0
      /\ e.status = "applied" => e.recovered + e.owed = -e.amount
      /\ e.conversion \in 0..Len(conversions)
      /\ e.conversion # 0 <=> e.status = "converted"

RowsOK == \A i \in Ids : RowOK(i)

-------------------------------------------------------------------------------
(* Sequences of rows *)

\* A function on 1..n is a sequence of length n.
LEMMA FunctionIsSeq ==
  ASSUME NEW S, NEW n \in Nat, NEW f \in [1..n -> S]
  PROVE  f \in Seq(S) /\ Len(f) = n /\ DOMAIN f = 1..n
  OBVIOUS

\* What appending a row does.
LEMMA AppendRow ==
  ASSUME NEW S, NEW s \in Seq(S), NEW e \in S
  PROVE  /\ Append(s, e) \in Seq(S)
         /\ Len(Append(s, e)) = Len(s) + 1
         /\ DOMAIN Append(s, e) = 1..(Len(s) + 1)
         /\ Append(s, e)[Len(s) + 1] = e
         /\ \A i \in 1..Len(s) : Append(s, e)[i] = s[i]
  OBVIOUS

\* Rows are indexed from 1 to the length of their table.
LEMMA RowIds ==
  ASSUME TypeOK
  PROVE  /\ Len(earnings) \in Nat /\ Ids = 1..Len(earnings)
         /\ Len(conversions) \in Nat /\ DOMAIN conversions = 1..Len(conversions)
         /\ \A i \in Ids : earnings[i] \in Earning
         /\ \A c \in DOMAIN conversions : conversions[c] \in Conversion
  BY DEF TypeOK

-------------------------------------------------------------------------------
(* Amounts *)

\* A commission is an integer, whatever rate is stored.
LEMMA CommissionInt ==
  ASSUME NEW total \in Totals, NEW stored \in Rates
  PROVE  Commission(total, stored) \in Int
  BY AmountsAssumption DEF Commission, ReferralRate, Lesser

\* A conversion collects a non-negative sum.
LEMMA GrossNat ==
  ASSUME TypeOK, NEW u
  PROVE  Gross(u) \in Nat
<1> DEFINE f == [i \in Ids |-> IF i \in Convertible(u) THEN earnings[i].amount ELSE 0]
<1>1. \A i \in 1..Len(earnings) : f[i] \in Nat
  BY RowIds DEF Convertible, Earning
<1>2. Len(earnings) \in Nat
  BY RowIds
<1> QED BY <1>1, <1>2, TotalNat DEF Gross

\* _apply_debit takes a natural amount that the balance holds and leaves the rest.
LEMMA RecoveredNat ==
  ASSUME TypeOK, NEW u \in Users, NEW amount \in Nat
  PROVE  /\ Recovered(u, amount) \in Nat
         /\ Recovered(u, amount) <= balance[u]
         /\ Recovered(u, amount) <= amount
  BY DEF TypeOK, Recovered, Lesser

-------------------------------------------------------------------------------
(* New rows *)

\* The row a purchase adds is a well-formed pending earning.
LEMMA PurchaseRow ==
  ASSUME TypeOK, NEW b \in Users, NEW total \in Totals, NEW stored \in Rates,
         NEW manual \in BOOLEAN, Earns(b, total, stored)
  PROVE  LET e == PurchaseEarning(b, total, stored, manual)
         IN  /\ e \in Earning
             /\ e.type = "order_purchase" /\ e.referrer = Referrer[b]
             /\ e.status = "pending" /\ e.amount > 0
             /\ e.fulfilled = IF manual THEN NULL ELSE clock
             /\ e.ready = IF manual THEN NULL ELSE clock + HoldTime
             /\ e.recovered = 0 /\ e.owed = 0 /\ e.conversion = 0
             /\ e.reversal = 0 /\ e.key = NULL
<1>1. Referrer[b] \in Users
  BY UsersAssumption DEF Earns
<1>2. Commission(total, stored) \in Int
  BY CommissionInt
<1>3. clock \in Nat /\ clock + HoldTime \in Nat
  BY LimitsAssumption DEF TypeOK
<1>4. ReadyAt(manual) \in Nat \cup {NULL}
  BY <1>3 DEF ReadyAt
<1> DEFINE row == NewEarning("order_purchase", Referrer[b], "pending",
                              Commission(total, stored), ReadyAt(manual))
           at == IF manual THEN NULL ELSE clock
<1>5. row \in Earning
  BY <1>1, <1>2, <1>4 DEF NewEarning, Earning, Statuses
<1>6. at \in Nat \cup {NULL}
  BY <1>3
<1>7. PurchaseEarning(b, total, stored, manual) = [row EXCEPT !.fulfilled = at]
  BY DEF PurchaseEarning
<1>8. row = [ type |-> "order_purchase", referrer |-> Referrer[b],
              status |-> "pending", amount |-> Commission(total, stored),
              fulfilled |-> NULL, ready |-> ReadyAt(manual), recovered |-> 0,
              owed |-> 0, conversion |-> 0, reversal |-> 0, key |-> NULL ]
  BY DEF NewEarning
<1>9. Commission(total, stored) > 0
  BY DEF Earns
<1> HIDE DEF row, at
<1>10. [row EXCEPT !.fulfilled = at] \in Earning
  BY <1>5, <1>6 DEF Earning
<1> QED BY <1>7, <1>8, <1>9, <1>10 DEF at, ReadyAt

\* The row a debit adds is well-formed: what it took and what it left add up to it.
LEMMA DebitRowOK ==
  ASSUME TypeOK, NEW u \in Users, NEW amount \in Nat,
         NEW type \in {"manual_adjustment", "compensating_reversal"}
  PROVE  LET e == DebitRow(type, u, amount)
         IN  /\ e \in Earning
             /\ e.type = type /\ e.referrer = u /\ e.status = "applied"
             /\ e.amount = -amount
             /\ e.fulfilled = NULL /\ e.ready = NULL
             /\ e.recovered = Recovered(u, amount)
             /\ e.owed = amount - Recovered(u, amount)
             /\ e.conversion = 0 /\ e.reversal = 0 /\ e.key = NULL
<1> DEFINE row == NewEarning(type, u, "applied", -amount, NULL)
           paid == Recovered(u, amount)
<1>1. row \in Earning
  BY DEF NewEarning, Earning, Statuses
<1>2. paid \in Nat /\ amount - paid \in Nat
  BY RecoveredNat
<1>3. DebitRow(type, u, amount) =
        [row EXCEPT !.recovered = paid, !.owed = amount - paid]
  BY DEF DebitRow
<1>4. row = [ type |-> type, referrer |-> u, status |-> "applied",
              amount |-> -amount, fulfilled |-> NULL, ready |-> NULL,
              recovered |-> 0, owed |-> 0, conversion |-> 0, reversal |-> 0,
              key |-> NULL ]
  BY DEF NewEarning
<1> HIDE DEF row
<1>5. [row EXCEPT !.recovered = paid, !.owed = amount - paid] \in Earning
  <2> HIDE DEF paid
  <2> QED BY <1>1, <1>2 DEF Earning
<1> QED BY <1>3, <1>4, <1>5

-------------------------------------------------------------------------------
(* The two ways a step changes the table *)

\* A ledger with one more row: the earlier ids keep their rows.
LEMMA Appended ==
  ASSUME TypeOK, NEW e \in Earning, earnings' = Append(earnings, e)
  PROVE  /\ earnings' \in Seq(Earning)
         /\ Ids = 1..Len(earnings) /\ Len(earnings) \in Nat
         /\ Len(earnings') = Len(earnings) + 1
         /\ Ids' = 1..(Len(earnings) + 1)
         /\ earnings'[Len(earnings) + 1] = e
         /\ \A i \in Ids : earnings'[i] = earnings[i]
<1>1. earnings \in Seq(Earning) /\ Ids = 1..Len(earnings) /\ Len(earnings) \in Nat
  BY DEF TypeOK
<1> QED BY <1>1, AppendRow

\* A ledger rewritten in place keeps its ids.
LEMMA Rewritten ==
  ASSUME TypeOK, earnings' \in [Ids -> Earning]
  PROVE  /\ earnings' \in Seq(Earning)
         /\ Ids = 1..Len(earnings) /\ Len(earnings) \in Nat
         /\ Len(earnings') = Len(earnings)
         /\ Ids' = Ids
<1>1. Ids = 1..Len(earnings) /\ Len(earnings) \in Nat
  BY DEF TypeOK
<1> QED BY <1>1, FunctionIsSeq

\* A row that keeps everything but its status, its times and its conversion.
Kept(e, d) ==
  /\ e \in Earning
  /\ e.type = d.type /\ e.referrer = d.referrer /\ e.amount = d.amount
  /\ e.recovered = d.recovered /\ e.owed = d.owed
  /\ e.reversal = d.reversal /\ e.key = d.key

\* start_manual_referral_hold only sets the hold of one row.
LEMMA FulfilRows ==
  ASSUME TypeOK, NEW i \in Ids, FulfilManual(i)
  PROVE  /\ earnings' \in [Ids -> Earning]
         /\ \A j \in Ids : /\ Kept(earnings'[j], earnings[j])
                           /\ earnings'[j].status = earnings[j].status
                           /\ earnings'[j].conversion = earnings[j].conversion
                           /\ j # i => earnings'[j] = earnings[j]
         /\ earnings'[i].fulfilled = clock
         /\ earnings'[i].ready =
              IF earnings[i].status = "pending" /\ earnings[i].ready = NULL
              THEN clock + HoldTime ELSE earnings[i].ready
<1> DEFINE at == IF earnings[i].status = "pending" /\ earnings[i].ready = NULL
                 THEN clock + HoldTime ELSE earnings[i].ready
<1>1. earnings[i] \in Earning /\ clock \in Nat /\ clock + HoldTime \in Nat
  BY LimitsAssumption DEF TypeOK
<1>2. at \in Nat \cup {NULL}
  BY <1>1 DEF Earning
<1>3. earnings' = [earnings EXCEPT ![i] =
                     [@ EXCEPT !.fulfilled = clock, !.ready = at]]
  BY DEF FulfilManual
<1> HIDE DEF at
<1>4. earnings' = [j \in Ids |->
                     IF j = i THEN [earnings[i] EXCEPT !.fulfilled = clock, !.ready = at]
                     ELSE earnings[j]]
  BY <1>3 DEF TypeOK
<1>5. [earnings[i] EXCEPT !.fulfilled = clock, !.ready = at] \in Earning
  BY <1>1, <1>2 DEF Earning
<1>6. \A j \in Ids : earnings[j] \in Earning
  BY DEF TypeOK
<1>7. earnings' \in [Ids -> Earning]
  BY <1>4, <1>5, <1>6
<1>8. ASSUME NEW j \in Ids PROVE
        /\ Kept(earnings'[j], earnings[j])
        /\ earnings'[j].status = earnings[j].status
        /\ earnings'[j].conversion = earnings[j].conversion
        /\ j # i => earnings'[j] = earnings[j]
  BY <1>4, <1>5, <1>6 DEF Kept, Earning
<1>9. earnings'[i].fulfilled = clock /\ earnings'[i].ready = at
  BY <1>1, <1>4 DEF Earning
<1> QED BY <1>7, <1>8, <1>9 DEF at

\* release_mature_referral_earnings only changes the status of its batch.
LEMMA ReleaseRows ==
  ASSUME TypeOK, ReleaseBatch
  PROVE  /\ earnings' \in [Ids -> Earning]
         /\ \A j \in Ids : /\ Kept(earnings'[j], earnings[j])
                           /\ earnings'[j].conversion = earnings[j].conversion
                           /\ earnings'[j].ready = earnings[j].ready
                           /\ earnings'[j].fulfilled = earnings[j].fulfilled
         /\ \A j \in Ids \ Batch : earnings'[j] = earnings[j]
         /\ Batch \subseteq Ids
         /\ \A j \in Batch : Mature(j) /\ earnings'[j].status = "available"
<1>1. earnings' = [i \in Ids |-> IF i \in Batch
                                 THEN [earnings[i] EXCEPT !.status = "available"]
                                 ELSE earnings[i]]
  BY DEF ReleaseBatch
<1>2. \A j \in Ids : earnings[j] \in Earning
  BY DEF TypeOK
<1>3. Batch \subseteq Ids /\ \A j \in Batch : Mature(j)
  BY DEF Batch
<1>4. ASSUME NEW j \in Ids PROVE [earnings[j] EXCEPT !.status = "available"] \in Earning
  BY <1>2 DEF Earning, Statuses
<1> HIDE DEF Ids
<1>5. earnings' \in [Ids -> Earning]
  BY <1>1, <1>2, <1>4
<1>6. ASSUME NEW j \in Ids
      PROVE  /\ Kept(earnings'[j], earnings[j])
             /\ earnings'[j].conversion = earnings[j].conversion
             /\ earnings'[j].ready = earnings[j].ready
             /\ earnings'[j].fulfilled = earnings[j].fulfilled
             /\ j \in Batch => earnings'[j].status = "available"
             /\ j \notin Batch => earnings'[j] = earnings[j]
  BY <1>1, <1>2, <1>4 DEF Kept, Earning
<1> QED BY <1>3, <1>5, <1>6

\* convert_referral_earnings only changes the status and the conversion of its rows.
LEMMA ConvertRows ==
  ASSUME TypeOK, NEW u \in Users, Convert(u)
  PROVE  /\ earnings' \in [Ids -> Earning]
         /\ Convertible(u) \subseteq Ids
         /\ \A j \in Ids : /\ Kept(earnings'[j], earnings[j])
                           /\ earnings'[j].ready = earnings[j].ready
                           /\ earnings'[j].fulfilled = earnings[j].fulfilled
         /\ \A j \in Convertible(u) :
              /\ earnings[j].referrer = u /\ earnings[j].status = "available"
              /\ earnings[j].amount > 0
              /\ earnings'[j].status = "converted"
              /\ earnings'[j].conversion = Len(conversions) + 1
         /\ \A j \in Ids \ Convertible(u) : earnings'[j] = earnings[j]
<1> DEFINE c == Len(conversions) + 1
<1>1. earnings' = [i \in Ids |-> IF i \in Convertible(u)
                     THEN [earnings[i] EXCEPT !.status = "converted", !.conversion = c]
                     ELSE earnings[i]]
  BY DEF Convert
<1>2. (\A j \in Ids : earnings[j] \in Earning) /\ c \in Nat
  BY DEF TypeOK
<1>3. Convertible(u) \subseteq Ids
  BY DEF Convertible
<1>4. \A j \in Convertible(u) :
        /\ earnings[j].referrer = u /\ earnings[j].status = "available"
        /\ earnings[j].amount > 0
  BY DEF Convertible
<1> HIDE DEF c, Ids
<1>5. ASSUME NEW j \in Ids
      PROVE  [earnings[j] EXCEPT !.status = "converted", !.conversion = c] \in Earning
  BY <1>2 DEF Earning, Statuses
<1>6. earnings' \in [Ids -> Earning]
  BY <1>1, <1>2, <1>5
<1>7. ASSUME NEW j \in Ids
      PROVE  /\ Kept(earnings'[j], earnings[j])
             /\ earnings'[j].ready = earnings[j].ready
             /\ earnings'[j].fulfilled = earnings[j].fulfilled
             /\ j \in Convertible(u) => /\ earnings'[j].status = "converted"
                                        /\ earnings'[j].conversion = c
             /\ j \notin Convertible(u) => earnings'[j] = earnings[j]
  BY <1>1, <1>2, <1>5 DEF Kept, Earning
<1> QED BY <1>3, <1>4, <1>6, <1>7 DEF c

\* reverse_referral_earning of a held row only changes its status.
LEMMA ReverseHeldRows ==
  ASSUME TypeOK, NEW i \in Ids, ReverseHeld(i)
  PROVE  /\ earnings' \in [Ids -> Earning]
         /\ \A j \in Ids : /\ Kept(earnings'[j], earnings[j])
                           /\ earnings'[j].conversion = earnings[j].conversion
                           /\ earnings'[j].ready = earnings[j].ready
                           /\ earnings'[j].fulfilled = earnings[j].fulfilled
                           /\ j # i => earnings'[j] = earnings[j]
         /\ earnings[i].status \in {"pending", "available"}
         /\ earnings'[i].status = "reversed"
<1>1. \A j \in Ids : earnings[j] \in Earning
  BY DEF TypeOK
<1>2. earnings' = [j \in Ids |-> IF j = i THEN [earnings[i] EXCEPT !.status = "reversed"]
                                 ELSE earnings[j]]
  BY DEF ReverseHeld, TypeOK
<1>3. [earnings[i] EXCEPT !.status = "reversed"] \in Earning
  BY <1>1 DEF Earning, Statuses
<1>4. earnings' \in [Ids -> Earning]
  BY <1>1, <1>2, <1>3
<1>5. ASSUME NEW j \in Ids
      PROVE  /\ Kept(earnings'[j], earnings[j])
             /\ earnings'[j].conversion = earnings[j].conversion
             /\ earnings'[j].ready = earnings[j].ready
             /\ earnings'[j].fulfilled = earnings[j].fulfilled
             /\ j # i => earnings'[j] = earnings[j]
             /\ j = i => earnings'[j].status = "reversed"
  BY <1>1, <1>2, <1>3 DEF Kept, Earning
<1> QED BY <1>4, <1>5 DEF ReverseHeld, Held

\* The row each of the other steps appends.
LEMMA PurchaseAppends ==
  ASSUME TypeOK, NEW b \in Users, NEW total \in Totals, NEW stored \in Rates,
         NEW manual \in BOOLEAN, Purchase(b, total, stored, manual),
         Earns(b, total, stored)
  PROVE  \E e \in Earning :
           /\ earnings' = Append(earnings, e)
           /\ e.type = "order_purchase" /\ e.status = "pending" /\ e.amount > 0
           /\ e.fulfilled = (IF manual THEN NULL ELSE clock)
           /\ e.ready = (IF manual THEN NULL ELSE clock + HoldTime)
           /\ e.recovered = 0 /\ e.owed = 0 /\ e.conversion = 0
           /\ e.reversal = 0 /\ e.key = NULL
<1> DEFINE e == PurchaseEarning(b, total, stored, manual)
<1>1. earnings' = Append(earnings, e)
  BY DEF Purchase
<1>2. /\ e \in Earning
      /\ e.type = "order_purchase" /\ e.status = "pending" /\ e.amount > 0
      /\ e.fulfilled = IF manual THEN NULL ELSE clock
      /\ e.ready = IF manual THEN NULL ELSE clock + HoldTime
      /\ e.recovered = 0 /\ e.owed = 0 /\ e.conversion = 0
      /\ e.reversal = 0 /\ e.key = NULL
  BY PurchaseRow
<1> HIDE DEF e
<1> QED BY <1>1, <1>2

\* A credit adds one well-formed row.
LEMMA AdjustUpAppends ==
  ASSUME TypeOK, NEW u \in Users, NEW amount \in Adjustments, NEW k \in Keys,
         AdjustUp(u, amount, k)
  PROVE  \E e \in Earning :
           /\ earnings' = Append(earnings, e)
           /\ e.type = "manual_adjustment" /\ e.status = "available" /\ e.amount > 0
           /\ e.recovered = 0 /\ e.owed = 0 /\ e.conversion = 0
           /\ e.reversal = 0 /\ e.key = k
<1> DEFINE row == NewEarning("manual_adjustment", u, "available", amount, clock)
           e == [row EXCEPT !.key = k]
<1>1. earnings' = Append(earnings, e)
  BY DEF AdjustUp
<1>2. row = [ type |-> "manual_adjustment", referrer |-> u, status |-> "available",
              amount |-> amount, fulfilled |-> NULL, ready |-> clock,
              recovered |-> 0, owed |-> 0, conversion |-> 0, reversal |-> 0,
              key |-> NULL ]
  BY DEF NewEarning
<1>3. row \in Earning
  BY <1>2, AmountsAssumption DEF TypeOK, Earning, Statuses
<1>4. amount > 0
  BY DEF AdjustUp
<1> HIDE DEF row
<1>5. e \in Earning
  BY <1>3 DEF Earning
<1> QED BY <1>1, <1>2, <1>4, <1>5

\* A debit adds one well-formed row.
LEMMA AdjustDownAppends ==
  ASSUME TypeOK, NEW u \in Users, NEW amount \in Adjustments, NEW k \in Keys,
         AdjustDown(u, amount, k)
  PROVE  /\ -amount \in Nat
         /\ \E e \in Earning :
              /\ earnings' = Append(earnings, e)
              /\ e.type = "manual_adjustment" /\ e.status = "applied"
              /\ e.referrer = u /\ e.amount = amount /\ amount < 0
              /\ e.recovered = Recovered(u, -amount)
              /\ e.owed = -amount - Recovered(u, -amount)
              /\ e.conversion = 0 /\ e.reversal = 0 /\ e.key = k
<1> DEFINE row == DebitRow("manual_adjustment", u, -amount)
           e == [row EXCEPT !.key = k]
<1>1. earnings' = Append(earnings, e)
  BY DEF AdjustDown
<1>2. -amount \in Nat /\ amount < 0 /\ amount \in Int
  BY AmountsAssumption DEF AdjustDown
<1>3. /\ row \in Earning
      /\ row.type = "manual_adjustment" /\ row.referrer = u /\ row.status = "applied"
      /\ row.amount = -(-amount)
      /\ row.recovered = Recovered(u, -amount)
      /\ row.owed = -amount - Recovered(u, -amount)
      /\ row.conversion = 0 /\ row.reversal = 0
  BY <1>2, DebitRowOK
<1> HIDE DEF row
<1>4. /\ e \in Earning
      /\ e.type = row.type /\ e.referrer = row.referrer /\ e.status = row.status
      /\ e.amount = row.amount /\ e.recovered = row.recovered /\ e.owed = row.owed
      /\ e.conversion = row.conversion /\ e.reversal = row.reversal /\ e.key = k
  BY <1>3 DEF Earning
<1> HIDE DEF e
<1> QED BY <1>1, <1>2, <1>3, <1>4

\* A compensating reversal adds one well-formed row.
LEMMA ReversalAppends ==
  ASSUME TypeOK, NEW i \in Ids, earnings[i].amount > 0, ReverseConverted(i)
  PROVE  LET u == earnings[i].referrer
             amount == earnings[i].amount
         IN  /\ u \in Users /\ amount \in Nat
             /\ \E e \in Earning :
                  /\ earnings' = Append(earnings, e)
                  /\ e.type = "compensating_reversal" /\ e.status = "applied"
                  /\ e.referrer = u /\ e.amount = -amount
                  /\ e.recovered = Recovered(u, amount)
                  /\ e.owed = amount - Recovered(u, amount)
                  /\ e.conversion = 0 /\ e.reversal = i /\ e.key = NULL
<1> DEFINE u == earnings[i].referrer
           amount == earnings[i].amount
           row == DebitRow("compensating_reversal", u, amount)
           e == [row EXCEPT !.reversal = i]
<1>1. earnings' = Append(earnings, e)
  BY DEF ReverseConverted
<1>2. u \in Users /\ amount \in Nat /\ i \in Nat
  <2>1. earnings[i] \in Earning /\ i \in Nat
    BY DEF TypeOK
  <2> QED BY <2>1 DEF Earning
<1> HIDE DEF u, amount
<1>3. /\ row \in Earning
      /\ row.type = "compensating_reversal" /\ row.referrer = u
      /\ row.status = "applied" /\ row.amount = -amount
      /\ row.recovered = Recovered(u, amount)
      /\ row.owed = amount - Recovered(u, amount)
      /\ row.conversion = 0 /\ row.key = NULL
  BY <1>2, DebitRowOK
<1> HIDE DEF row
<1>4. /\ e \in Earning
      /\ e.type = row.type /\ e.referrer = row.referrer /\ e.status = row.status
      /\ e.amount = row.amount /\ e.recovered = row.recovered /\ e.owed = row.owed
      /\ e.conversion = row.conversion /\ e.reversal = i /\ e.key = row.key
  BY <1>2, <1>3 DEF Earning
<1> HIDE DEF e
<1>5. \E d \in Earning :
                  /\ earnings' = Append(earnings, d)
                  /\ d.type = "compensating_reversal" /\ d.status = "applied"
                  /\ d.referrer = u /\ d.amount = -amount
                  /\ d.recovered = Recovered(u, amount)
                  /\ d.owed = amount - Recovered(u, amount)
                  /\ d.conversion = 0 /\ d.reversal = i /\ d.key = NULL
  BY <1>1, <1>3, <1>4
<1> QED BY <1>2, <1>5 DEF u, amount

-------------------------------------------------------------------------------
(* Types, and what each row is *)

TypeInv == TypeOK /\ RowsOK

\* _apply_debit keeps balances and debts natural.
LEMMA ApplyDebitTypes ==
  ASSUME TypeOK, NEW u \in Users, NEW amount \in Nat, ApplyDebit(u, amount)
  PROVE  /\ balance' \in [Users -> Nat]
         /\ debt' \in [Users -> Nat]
         /\ operations' \in [Users -> Int]
<1> DEFINE r == Recovered(u, amount)
<1>1. r \in Nat /\ r <= balance[u] /\ r <= amount
  BY RecoveredNat
<1>2. /\ balance' = [balance EXCEPT ![u] = @ - r]
      /\ debt' = [debt EXCEPT ![u] = @ + (amount - r)]
      /\ operations' = [operations EXCEPT ![u] = @ + (-r)]
  BY DEF ApplyDebit, DebitOperation
<1> HIDE DEF r
<1> QED BY <1>1, <1>2 DEF TypeOK

\* The empty ledger is well-formed.
LEMMA TypeInvInit == Init => TypeInv
  BY UsersAssumption DEF Init, TypeInv, TypeOK, RowsOK

\* A row that is appended is a good row, and so are the others still.
LEMMA AppendKeepsRows ==
  ASSUME TypeInv, NEW e \in Earning, earnings' = Append(earnings, e),
         conversions' = conversions,
         e.status = "applied" <=> e.amount < 0, e.amount # 0,
         e.status # "applied" => e.recovered = 0 /\ e.owed = 0,
         e.status = "applied" => e.recovered + e.owed = -e.amount,
         e.conversion = 0, e.status # "converted"
  PROVE  RowsOK'
<1> DEFINE n == Len(earnings) + 1
<1>1. /\ n \in Nat /\ Ids = 1..Len(earnings) /\ Ids' = 1..n /\ earnings'[n] = e
      /\ \A i \in Ids : earnings'[i] = earnings[i]
  BY Appended DEF TypeInv
<1>2. Len(conversions) \in Nat
  BY DEF TypeInv, TypeOK
<1>3. ASSUME NEW i \in Ids' PROVE RowOK(i)'
  <2>1. CASE i = n
    BY <2>1, <1>1, <1>2 DEF RowOK
  <2>2. CASE i # n
    <3>1. i \in Ids /\ earnings'[i] = earnings[i] /\ RowOK(i)
      BY <2>2, <1>1, <1>3 DEF TypeInv, RowsOK
    <3> QED BY <3>1 DEF RowOK
  <2> QED BY <2>1, <2>2
<1> QED BY <1>3 DEF RowsOK

\* So do the steps that rewrite rows.
LEMMA RewriteKeepsRows ==
  ASSUME TypeInv, earnings' \in [Ids -> Earning],
         conversions' = conversions,
         \A j \in Ids :
           /\ Kept(earnings'[j], earnings[j])
           /\ earnings'[j].conversion = earnings[j].conversion
           /\ earnings'[j].status = "converted" <=> earnings[j].status = "converted"
           /\ earnings'[j].status = "applied" <=> earnings[j].status = "applied"
  PROVE  RowsOK'
<1>1. Ids' = Ids
  BY Rewritten DEF TypeInv
<1>2. ASSUME NEW j \in Ids PROVE RowOK(j)'
  <2>1. RowOK(j)
    BY DEF TypeInv, RowsOK
  <2> QED BY <2>1 DEF RowOK, Kept
<1> QED BY <1>1, <1>2 DEF RowsOK

\* Every operation of the ledger keeps it well-formed.
THEOREM TypeInvStep ==
  ASSUME TypeInv, [Next]_vars
  PROVE  TypeInv'
<1> USE DEF TypeInv
<1>1. ASSUME NEW b \in Users, NEW total \in Totals, NEW stored \in Rates,
             NEW manual \in BOOLEAN, Purchase(b, total, stored, manual)
      PROVE  TypeInv'
  <2>1. /\ clock' \in Nat /\ balance' \in [Users -> Nat] /\ debt' \in [Users -> Nat]
        /\ operations' \in [Users -> Int] /\ orders' \in Nat
        /\ conversions' \in Seq(Conversion)
    BY <1>1, AmountsAssumption DEF Purchase, TypeOK
  <2>2. CASE Earns(b, total, stored)
    <3>1. PICK e \in Earning :
            /\ earnings' = Append(earnings, e) /\ e.status = "pending" /\ e.amount > 0
            /\ e.recovered = 0 /\ e.owed = 0 /\ e.conversion = 0
      BY <1>1, <2>2, PurchaseAppends
    <3>2. earnings' \in Seq(Earning)
      BY <3>1, Appended
    <3>3. e.amount \in Int /\ conversions' = conversions
      BY <1>1 DEF Purchase, Earning
    <3>4. RowsOK'
      BY <3>1, <3>3, AppendKeepsRows
    <3> QED BY <2>1, <3>2, <3>4 DEF TypeOK
  <2>3. CASE ~Earns(b, total, stored)
    <3>1. earnings' = earnings /\ conversions' = conversions
      BY <1>1, <2>3 DEF Purchase
    <3> QED BY <2>1, <3>1 DEF TypeOK, RowsOK, RowOK
  <2> QED BY <2>2, <2>3
<1>2. ASSUME NEW i \in Ids, FulfilManual(i) PROVE TypeInv'
  <2>1. RowsOK'
    BY <1>2, FulfilRows, RewriteKeepsRows DEF FulfilManual
  <2>2. earnings' \in Seq(Earning)
    BY <1>2, FulfilRows, Rewritten
  <2> QED BY <1>2, <2>1, <2>2 DEF FulfilManual, TypeOK
<1>3. CASE ReleaseBatch
  <2>1. \A j \in Ids : earnings'[j].status = "converted" <=> earnings[j].status = "converted"
    BY <1>3, ReleaseRows DEF Mature
  <2>2. \A j \in Ids : earnings'[j].status = "applied" <=> earnings[j].status = "applied"
    BY <1>3, ReleaseRows DEF Mature
  <2>3. RowsOK'
    BY <1>3, <2>1, <2>2, ReleaseRows, RewriteKeepsRows DEF ReleaseBatch
  <2>4. earnings' \in Seq(Earning)
    BY <1>3, ReleaseRows, Rewritten
  <2> QED BY <1>3, <2>3, <2>4 DEF ReleaseBatch, TypeOK
<1>4. ASSUME NEW u \in Users, Convert(u) PROVE TypeInv'
  <2> DEFINE gross == Gross(u)
             offset == Lesser(gross, debt[u])
             credit == gross - offset
             row == [user |-> u, gross |-> gross, offset |-> offset, credit |-> credit]
  <2>1. gross \in Nat /\ debt[u] \in Nat
    BY GrossNat DEF TypeOK
  <2>2. offset \in Nat /\ credit \in Nat /\ debt[u] - offset \in Nat
    BY <2>1 DEF Lesser
  <2>3. /\ conversions' = Append(conversions, row)
        /\ balance' = [balance EXCEPT ![u] = @ + credit]
        /\ operations' = [operations EXCEPT ![u] = @ + credit]
        /\ debt' = [debt EXCEPT ![u] = debt[u] - offset]
    BY <1>4 DEF Convert, DebtLeft
  <2>4. row \in Conversion
    BY <2>1, <2>2 DEF Conversion
  <2> HIDE DEF gross, offset, credit, row
  <2>5. /\ balance' \in [Users -> Nat] /\ operations' \in [Users -> Int]
        /\ debt' \in [Users -> Nat] /\ conversions' \in Seq(Conversion)
        /\ Len(conversions') = Len(conversions) + 1 /\ Len(conversions) \in Nat
    BY <2>2, <2>3, <2>4 DEF TypeOK
  <2>6. earnings' \in Seq(Earning) /\ Ids' = Ids
    BY <1>4, ConvertRows, Rewritten
  <2>7. ASSUME NEW j \in Ids PROVE RowOK(j)'
    <3>1. RowOK(j) /\ Kept(earnings'[j], earnings[j])
      BY <1>4, ConvertRows DEF RowsOK
    <3>2. CASE j \in Convertible(u)
      <4>1. /\ earnings[j].status = "available" /\ earnings'[j].status = "converted"
            /\ earnings'[j].conversion = Len(conversions')
        BY <1>4, <3>2, <2>5, ConvertRows
      <4> QED BY <3>1, <4>1, <2>5 DEF RowOK, Kept
    <3>3. CASE j \notin Convertible(u)
      <4>1. earnings'[j] = earnings[j]
        BY <1>4, <3>3, ConvertRows
      <4> QED BY <3>1, <4>1, <2>5 DEF RowOK
    <3> QED BY <3>2, <3>3
  <2> QED BY <1>4, <2>5, <2>6, <2>7 DEF Convert, TypeOK, RowsOK
<1>5. ASSUME NEW u \in Users, NEW amount \in Adjustments, NEW k \in Keys,
             AdjustUp(u, amount, k)
      PROVE  TypeInv'
  <2>1. PICK e \in Earning :
          /\ earnings' = Append(earnings, e) /\ e.status = "available" /\ e.amount > 0
          /\ e.recovered = 0 /\ e.owed = 0 /\ e.conversion = 0
    BY <1>5, AdjustUpAppends
  <2>2. e.amount \in Int /\ conversions' = conversions
    BY <1>5 DEF AdjustUp, Earning
  <2>3. RowsOK'
    BY <2>1, <2>2, AppendKeepsRows
  <2>4. earnings' \in Seq(Earning)
    BY <2>1, Appended
  <2> QED BY <1>5, <2>3, <2>4 DEF AdjustUp, TypeOK
<1>6. ASSUME NEW u \in Users, NEW amount \in Adjustments, NEW k \in Keys,
             AdjustDown(u, amount, k)
      PROVE  TypeInv'
  <2>1. -amount \in Nat /\ amount \in Int
    BY <1>6, AdjustDownAppends, AmountsAssumption
  <2>2. PICK e \in Earning :
          /\ earnings' = Append(earnings, e) /\ e.status = "applied"
          /\ e.amount = amount /\ amount < 0
          /\ e.recovered = Recovered(u, -amount)
          /\ e.owed = -amount - Recovered(u, -amount) /\ e.conversion = 0
    BY <1>6, AdjustDownAppends
  <2>3. Recovered(u, -amount) \in Nat
    BY <2>1, RecoveredNat
  <2>4. e.recovered + e.owed = -e.amount /\ conversions' = conversions
    BY <1>6, <2>1, <2>2, <2>3 DEF AdjustDown
  <2>5. RowsOK'
    BY <2>1, <2>2, <2>4, AppendKeepsRows
  <2>6. earnings' \in Seq(Earning)
    BY <2>2, Appended
  <2>7. /\ balance' \in [Users -> Nat] /\ debt' \in [Users -> Nat]
        /\ operations' \in [Users -> Int]
    BY <1>6, <2>1, ApplyDebitTypes DEF AdjustDown
  <2> QED BY <1>6, <2>5, <2>6, <2>7 DEF AdjustDown, TypeOK
<1>7. ASSUME NEW i \in Ids, ReverseHeld(i) PROVE TypeInv'
  <2>1. \A j \in Ids : earnings'[j].status = "converted" <=> earnings[j].status = "converted"
    BY <1>7, ReverseHeldRows
  <2>2. \A j \in Ids : earnings'[j].status = "applied" <=> earnings[j].status = "applied"
    BY <1>7, ReverseHeldRows
  <2>3. RowsOK'
    BY <1>7, <2>1, <2>2, ReverseHeldRows, RewriteKeepsRows DEF ReverseHeld
  <2>4. earnings' \in Seq(Earning)
    BY <1>7, ReverseHeldRows, Rewritten
  <2> QED BY <1>7, <2>3, <2>4 DEF ReverseHeld, TypeOK
<1>8. ASSUME NEW i \in Ids, ReverseConverted(i) PROVE TypeInv'
  <2> DEFINE u == earnings[i].referrer
             amount == earnings[i].amount
  <2>1. amount > 0
    <3>1. earnings[i].status = "converted" /\ RowOK(i) /\ earnings[i] \in Earning
      BY <1>8 DEF ReverseConverted, RowsOK, TypeOK
    <3> QED BY <3>1 DEF RowOK, Earning
  <2>2. u \in Users /\ amount \in Nat
    BY <1>8, <2>1, ReversalAppends
  <2>3. PICK e \in Earning :
          /\ earnings' = Append(earnings, e) /\ e.status = "applied"
          /\ e.amount = -amount
          /\ e.recovered = Recovered(u, amount)
          /\ e.owed = amount - Recovered(u, amount) /\ e.conversion = 0
    BY <1>8, <2>1, ReversalAppends
  <2>4. ApplyDebit(u, amount) /\ conversions' = conversions
    BY <1>8 DEF ReverseConverted
  <2> HIDE DEF u, amount
  <2>5. Recovered(u, amount) \in Nat
    BY <2>2, RecoveredNat
  <2>6. RowsOK'
    BY <2>1, <2>2, <2>3, <2>4, <2>5, AppendKeepsRows
  <2>7. earnings' \in Seq(Earning)
    BY <2>3, Appended
  <2>8. /\ balance' \in [Users -> Nat] /\ debt' \in [Users -> Nat]
        /\ operations' \in [Users -> Int]
    BY <2>2, <2>4, ApplyDebitTypes
  <2> QED BY <1>8, <2>6, <2>7, <2>8 DEF ReverseConverted, TypeOK
<1>9. CASE Tick
  BY <1>9 DEF Tick, TypeOK, RowsOK, RowOK
<1>10. CASE UNCHANGED vars
  BY <1>10 DEF vars, TypeOK, RowsOK, RowOK
<1> QED
  BY <1>1, <1>2, <1>3, <1>4, <1>5, <1>6, <1>7, <1>8, <1>9, <1>10 DEF Next, Adjust

\* The model's types hold in every reachable state: balances and debts are never
\* negative, whatever is debited or reversed.
THEOREM TypeCorrect == Spec => []TypeOK
<1>1. Spec => []TypeInv
  BY TypeInvInit, TypeInvStep, PTL DEF Spec
<1>2. TypeInv => TypeOK
  BY DEF TypeInv
<1> QED BY <1>1, <1>2, PTL

\* The ledger is well-formed in every reachable state.
LEMMA TypeInvariant == Spec => []TypeInv
  BY TypeInvInit, TypeInvStep, PTL DEF Spec

-------------------------------------------------------------------------------
(* The kinds of step, as the sums see them *)

SettledStatus == {"converted", "applied"}

\* Rows change their times, or a status that settles nothing.
Quiet ==
  /\ earnings' \in [Ids -> Earning]
  /\ \A j \in Ids :
       /\ Kept(earnings'[j], earnings[j])
       /\ earnings'[j].conversion = earnings[j].conversion
       /\ earnings'[j].status \in SettledStatus <=> earnings[j].status \in SettledStatus
       /\ earnings'[j].status = "converted" <=> earnings[j].status = "converted"
  /\ UNCHANGED <<debt, conversions>>

\* An earning, or a credit by an administrator.
Earned(e) ==
  /\ earnings' = Append(earnings, e)
  /\ e.status \notin SettledStatus
  /\ e.type # "compensating_reversal"
  /\ e.amount > 0 /\ e.recovered = 0 /\ e.owed = 0 /\ e.conversion = 0
  /\ UNCHANGED <<debt, conversions>>

\* A debit of amount from u.
Debited(u, amount, e) ==
  /\ earnings' = Append(earnings, e)
  /\ e.status = "applied" /\ e.referrer = u /\ e.amount = -amount
  /\ e.recovered = Recovered(u, amount)
  /\ e.owed = amount - Recovered(u, amount)
  /\ e.conversion = 0
  /\ ApplyDebit(u, amount)
  /\ UNCHANGED conversions

\* The steps that debit are an administrator's and a reversal's.
LEMMA DebitSteps ==
  ASSUME TypeInv, [Next]_vars
  PROVE  \/ Quiet
         \/ \E e \in Earning : Earned(e)
         \/ \E u \in Users : Convert(u)
         \/ \E u \in Users, amount \in Adjustments, k \in Keys : AdjustDown(u, amount, k)
         \/ \E i \in Ids : ReverseConverted(i)
<1> USE DEF TypeInv
<1>0. ASSUME earnings' = earnings, UNCHANGED <<debt, conversions>> PROVE Quiet
  <2>1. earnings \in [Ids -> Earning]
    BY DEF TypeOK
  <2> QED BY <1>0, <2>1 DEF Quiet, Kept
<1>1. ASSUME NEW b \in Users, NEW total \in Totals, NEW stored \in Rates,
             NEW manual \in BOOLEAN, Purchase(b, total, stored, manual)
      PROVE  Quiet \/ \E e \in Earning : Earned(e)
  <2>1. UNCHANGED <<debt, conversions>>
    BY <1>1 DEF Purchase
  <2>2. CASE Earns(b, total, stored)
    BY <1>1, <2>1, <2>2, PurchaseAppends DEF Earned, SettledStatus
  <2>3. CASE ~Earns(b, total, stored)
    <3>1. earnings' = earnings
      BY <1>1, <2>3 DEF Purchase
    <3> QED BY <1>0, <2>1, <3>1
  <2> QED BY <2>2, <2>3
<1>2. ASSUME NEW i \in Ids, FulfilManual(i) PROVE Quiet
  BY <1>2, FulfilRows DEF FulfilManual, Quiet
<1>3. CASE ReleaseBatch
  <2>1. UNCHANGED <<debt, conversions>>
    BY <1>3 DEF ReleaseBatch
  <2>2. ASSUME NEW j \in Ids
        PROVE  /\ earnings'[j].status \in SettledStatus <=> earnings[j].status \in SettledStatus
               /\ earnings'[j].status = "converted" <=> earnings[j].status = "converted"
    <3>1. CASE j \in Batch
      BY <1>3, <3>1, ReleaseRows DEF Mature, SettledStatus
    <3>2. CASE j \notin Batch
      BY <1>3, <3>2, ReleaseRows
    <3> QED BY <3>1, <3>2
  <2> QED BY <1>3, <2>1, <2>2, ReleaseRows DEF Quiet
<1>4. ASSUME NEW u \in Users, NEW amount \in Adjustments, NEW k \in Keys,
             AdjustUp(u, amount, k)
      PROVE  \E e \in Earning : Earned(e)
  <2>1. UNCHANGED <<debt, conversions>>
    BY <1>4 DEF AdjustUp
  <2> QED BY <1>4, <2>1, AdjustUpAppends DEF Earned, SettledStatus
<1>5. ASSUME NEW i \in Ids, ReverseHeld(i) PROVE Quiet
  <2>1. UNCHANGED <<debt, conversions>>
    BY <1>5 DEF ReverseHeld
  <2>2. ASSUME NEW j \in Ids
        PROVE  /\ earnings'[j].status \in SettledStatus <=> earnings[j].status \in SettledStatus
               /\ earnings'[j].status = "converted" <=> earnings[j].status = "converted"
    BY <1>5, ReverseHeldRows DEF SettledStatus
  <2> QED BY <1>5, <2>1, <2>2, ReverseHeldRows DEF Quiet
<1>6. CASE Tick
  BY <1>6, <1>0 DEF Tick
<1>7. CASE UNCHANGED vars
  BY <1>7, <1>0 DEF vars
<1> QED
  BY <1>1, <1>2, <1>3, <1>4, <1>5, <1>6, <1>7 DEF Next, Adjust

\* What a step does to the audited columns: nothing, one new row, or a conversion.
LEMMA StepKinds ==
  ASSUME TypeInv, [Next]_vars
  PROVE  \/ Quiet
         \/ \E e \in Earning : Earned(e)
         \/ \E u \in Users, amount \in Nat, e \in Earning : Debited(u, amount, e)
         \/ \E u \in Users : Convert(u)
<1> USE DEF TypeInv
<1>1. ASSUME NEW u \in Users, NEW amount \in Adjustments, NEW k \in Keys,
             AdjustDown(u, amount, k)
      PROVE  \E e \in Earning : Debited(u, -amount, e) /\ -amount \in Nat
  <2>1. UNCHANGED conversions /\ ApplyDebit(u, -amount)
    BY <1>1 DEF AdjustDown
  <2>2. amount = -(-amount)
    BY AmountsAssumption
  <2>3. /\ -amount \in Nat
        /\ \E e \in Earning :
              /\ earnings' = Append(earnings, e)
              /\ e.status = "applied"
              /\ e.referrer = u /\ e.amount = amount
              /\ e.recovered = Recovered(u, -amount)
              /\ e.owed = -amount - Recovered(u, -amount)
              /\ e.conversion = 0
    BY <1>1, AdjustDownAppends
  <2> QED BY <2>1, <2>2, <2>3 DEF Debited
<1>2. ASSUME NEW i \in Ids, ReverseConverted(i)
      PROVE  \E u \in Users, amount \in Nat, e \in Earning : Debited(u, amount, e)
  <2>1. earnings[i].amount > 0
    <3>1. earnings[i].status = "converted" /\ RowOK(i) /\ earnings[i] \in Earning
      BY <1>2 DEF ReverseConverted, RowsOK, TypeOK
    <3> QED BY <3>1 DEF RowOK, Earning
  <2>2. UNCHANGED conversions /\ ApplyDebit(earnings[i].referrer, earnings[i].amount)
    BY <1>2 DEF ReverseConverted
  <2> QED BY <1>2, <2>1, <2>2, ReversalAppends DEF Debited
<1> QED BY <1>1, <1>2, DebitSteps

-------------------------------------------------------------------------------
(* Sums over the rows *)

\* Adding a row to a table adds its amount to the total.
LEMMA TotalAppend ==
  ASSUME NEW n \in Nat, NEW f, NEW g, \A i \in 1..n : g[i] = f[i]
  PROVE  Total(g, n + 1) = Total(f, n) + g[n + 1]
  BY TotalStep, TotalSame

\* A rewrite that keeps every debt_added keeps their sum.
LEMMA OwedQuiet ==
  ASSUME TypeOK, Quiet, NEW u
  PROVE  Total(OwedBy(u), Len(earnings))' = Total(OwedBy(u), Len(earnings))
<1>1. Len(earnings) \in Nat /\ Len(earnings') = Len(earnings) /\ Ids = 1..Len(earnings)
      /\ Ids' = Ids
  BY Rewritten DEF Quiet
<1>2. \A i \in 1..Len(earnings) : OwedBy(u)'[i] = OwedBy(u)[i]
  BY <1>1 DEF OwedBy, Quiet, Kept
<1>3. Total(OwedBy(u)', Len(earnings)) = Total(OwedBy(u), Len(earnings))
  BY <1>1, <1>2, TotalSame
<1> QED BY <1>1, <1>3

\* A new row adds its debt_added to its referrer's sum.
LEMMA OwedAppend ==
  ASSUME TypeOK, NEW u, NEW e \in Earning, earnings' = Append(earnings, e)
  PROVE  Total(OwedBy(u), Len(earnings))' =
           Total(OwedBy(u), Len(earnings)) + (IF e.referrer = u THEN e.owed ELSE 0)
<1>1. /\ Len(earnings) \in Nat /\ Ids = 1..Len(earnings)
      /\ Len(earnings') = Len(earnings) + 1 /\ Ids' = 1..(Len(earnings) + 1)
      /\ earnings'[Len(earnings) + 1] = e
      /\ \A i \in Ids : earnings'[i] = earnings[i]
  BY Appended
<1>2. \A i \in 1..Len(earnings) : OwedBy(u)'[i] = OwedBy(u)[i]
  BY <1>1 DEF OwedBy
<1>3. OwedBy(u)'[Len(earnings) + 1] = IF e.referrer = u THEN e.owed ELSE 0
  BY <1>1 DEF OwedBy
<1>4. Total(OwedBy(u)', Len(earnings) + 1) =
        Total(OwedBy(u), Len(earnings)) + OwedBy(u)'[Len(earnings) + 1]
  BY <1>1, <1>2, TotalAppend
<1> QED BY <1>1, <1>3, <1>4

\* A rewrite that keeps every balance_recovered keeps their sum.
LEMMA RecoveryQuiet ==
  ASSUME TypeOK, Quiet, NEW u
  PROVE  Total(RecoveredFrom(u), Len(earnings))' = Total(RecoveredFrom(u), Len(earnings))
<1>1. Len(earnings) \in Nat /\ Len(earnings') = Len(earnings) /\ Ids = 1..Len(earnings)
      /\ Ids' = Ids
  BY Rewritten DEF Quiet
<1>2. \A i \in 1..Len(earnings) : RecoveredFrom(u)'[i] = RecoveredFrom(u)[i]
  BY <1>1 DEF RecoveredFrom, Quiet, Kept
<1>3. Total(RecoveredFrom(u)', Len(earnings)) = Total(RecoveredFrom(u), Len(earnings))
  BY <1>1, <1>2, TotalSame
<1> QED BY <1>1, <1>3

\* A new row adds its balance_recovered to its referrer's sum.
LEMMA RecoveryAppend ==
  ASSUME TypeOK, NEW u, NEW e \in Earning, earnings' = Append(earnings, e)
  PROVE  Total(RecoveredFrom(u), Len(earnings))' =
           Total(RecoveredFrom(u), Len(earnings)) + (IF e.referrer = u THEN e.recovered ELSE 0)
<1>1. /\ Len(earnings) \in Nat /\ Ids = 1..Len(earnings)
      /\ Len(earnings') = Len(earnings) + 1 /\ Ids' = 1..(Len(earnings) + 1)
      /\ earnings'[Len(earnings) + 1] = e
      /\ \A i \in Ids : earnings'[i] = earnings[i]
  BY Appended
<1>2. \A i \in 1..Len(earnings) : RecoveredFrom(u)'[i] = RecoveredFrom(u)[i]
  BY <1>1 DEF RecoveredFrom
<1>3. RecoveredFrom(u)'[Len(earnings) + 1] = IF e.referrer = u THEN e.recovered ELSE 0
  BY <1>1 DEF RecoveredFrom
<1>4. Total(RecoveredFrom(u)', Len(earnings) + 1) =
        Total(RecoveredFrom(u), Len(earnings)) + RecoveredFrom(u)'[Len(earnings) + 1]
  BY <1>1, <1>2, TotalAppend
<1> QED BY <1>1, <1>3, <1>4

\* A rewrite that settles no row keeps the settled sum.
LEMMA SettledQuiet ==
  ASSUME TypeOK, Quiet, NEW u
  PROVE  Total(Settled(u), Len(earnings))' = Total(Settled(u), Len(earnings))
<1>1. Len(earnings) \in Nat /\ Len(earnings') = Len(earnings) /\ Ids = 1..Len(earnings)
      /\ Ids' = Ids
  BY Rewritten DEF Quiet
<1>2. \A i \in 1..Len(earnings) : Settled(u)'[i] = Settled(u)[i]
  BY <1>1 DEF Settled, Quiet, Kept, SettledStatus
<1>3. Total(Settled(u)', Len(earnings)) = Total(Settled(u), Len(earnings))
  BY <1>1, <1>2, TotalSame
<1> QED BY <1>1, <1>3

\* A new row adds its amount to its referrer's settled sum when it is applied.
LEMMA SettledAppend ==
  ASSUME TypeOK, NEW u, NEW e \in Earning, earnings' = Append(earnings, e)
  PROVE  Total(Settled(u), Len(earnings))' =
           Total(Settled(u), Len(earnings)) + (IF e.referrer = u /\ e.status \in SettledStatus THEN e.amount ELSE 0)
<1>1. /\ Len(earnings) \in Nat /\ Ids = 1..Len(earnings)
      /\ Len(earnings') = Len(earnings) + 1 /\ Ids' = 1..(Len(earnings) + 1)
      /\ earnings'[Len(earnings) + 1] = e
      /\ \A i \in Ids : earnings'[i] = earnings[i]
  BY Appended
<1>2. \A i \in 1..Len(earnings) : Settled(u)'[i] = Settled(u)[i]
  BY <1>1 DEF Settled
<1>3. Settled(u)'[Len(earnings) + 1] = IF e.referrer = u /\ e.status \in SettledStatus THEN e.amount ELSE 0
  BY <1>1 DEF Settled, SettledStatus
<1>4. Total(Settled(u)', Len(earnings) + 1) =
        Total(Settled(u), Len(earnings)) + Settled(u)'[Len(earnings) + 1]
  BY <1>1, <1>2, TotalAppend
<1> QED BY <1>1, <1>3, <1>4

\* A new conversion adds its debt_offset to its user's sum.
LEMMA OffsetAppend ==
  ASSUME TypeOK, NEW u, NEW row \in Conversion, conversions' = Append(conversions, row)
  PROVE  Total(OffsetBy(u), Len(conversions))' =
           Total(OffsetBy(u), Len(conversions)) + (IF row.user = u THEN row.offset ELSE 0)
<1>1. conversions \in Seq(Conversion) /\ Len(conversions) \in Nat
      /\ DOMAIN conversions = 1..Len(conversions)
  BY DEF TypeOK
<1>2. /\ Len(conversions') = Len(conversions) + 1
      /\ DOMAIN conversions' = 1..(Len(conversions) + 1)
      /\ conversions'[Len(conversions) + 1] = row
      /\ \A c \in 1..Len(conversions) : conversions'[c] = conversions[c]
  BY <1>1, AppendRow
<1>3. \A c \in 1..Len(conversions) : OffsetBy(u)'[c] = OffsetBy(u)[c]
  BY <1>1, <1>2 DEF OffsetBy
<1>4. OffsetBy(u)'[Len(conversions) + 1] = IF row.user = u THEN row.offset ELSE 0
  BY <1>1, <1>2 DEF OffsetBy
<1>5. Total(OffsetBy(u)', Len(conversions) + 1) =
        Total(OffsetBy(u), Len(conversions)) + OffsetBy(u)'[Len(conversions) + 1]
  BY <1>1, <1>3, TotalAppend
<1> QED BY <1>2, <1>4, <1>5

\* A new conversion adds its credit to its user's sum.
LEMMA CreditAppend ==
  ASSUME TypeOK, NEW u, NEW row \in Conversion, conversions' = Append(conversions, row)
  PROVE  Total(CreditTo(u), Len(conversions))' =
           Total(CreditTo(u), Len(conversions)) + (IF row.user = u THEN row.credit ELSE 0)
<1>1. conversions \in Seq(Conversion) /\ Len(conversions) \in Nat
      /\ DOMAIN conversions = 1..Len(conversions)
  BY DEF TypeOK
<1>2. /\ Len(conversions') = Len(conversions) + 1
      /\ DOMAIN conversions' = 1..(Len(conversions) + 1)
      /\ conversions'[Len(conversions) + 1] = row
      /\ \A c \in 1..Len(conversions) : conversions'[c] = conversions[c]
  BY <1>1, AppendRow
<1>3. \A c \in 1..Len(conversions) : CreditTo(u)'[c] = CreditTo(u)[c]
  BY <1>1, <1>2 DEF CreditTo
<1>4. CreditTo(u)'[Len(conversions) + 1] = IF row.user = u THEN row.credit ELSE 0
  BY <1>1, <1>2 DEF CreditTo
<1>5. Total(CreditTo(u)', Len(conversions) + 1) =
        Total(CreditTo(u), Len(conversions)) + CreditTo(u)'[Len(conversions) + 1]
  BY <1>1, <1>3, TotalAppend
<1> QED BY <1>2, <1>4, <1>5

\* The sum of debt_added is an integer.
LEMMA OwedInt ==
  ASSUME TypeOK, NEW u
  PROVE  Total(OwedBy(u), Len(earnings)) \in Int
<1>1. Len(earnings) \in Nat /\ DOMAIN earnings = 1..Len(earnings)
      /\ \A i \in DOMAIN earnings : earnings[i] \in Earning
  BY DEF TypeOK
<1>2. \A i \in 1..Len(earnings) : OwedBy(u)[i] \in Int
  BY <1>1 DEF OwedBy, Earning
<1> QED BY <1>1, <1>2, TotalInt

\* The sum of balance_recovered is an integer.
LEMMA RecoveryInt ==
  ASSUME TypeOK, NEW u
  PROVE  Total(RecoveredFrom(u), Len(earnings)) \in Int
<1>1. Len(earnings) \in Nat /\ DOMAIN earnings = 1..Len(earnings)
      /\ \A i \in DOMAIN earnings : earnings[i] \in Earning
  BY DEF TypeOK
<1>2. \A i \in 1..Len(earnings) : RecoveredFrom(u)[i] \in Int
  BY <1>1 DEF RecoveredFrom, Earning
<1> QED BY <1>1, <1>2, TotalInt

\* The settled sum is an integer.
LEMMA SettledInt ==
  ASSUME TypeOK, NEW u
  PROVE  Total(Settled(u), Len(earnings)) \in Int
<1>1. Len(earnings) \in Nat /\ DOMAIN earnings = 1..Len(earnings)
      /\ \A i \in DOMAIN earnings : earnings[i] \in Earning
  BY DEF TypeOK
<1>2. \A i \in 1..Len(earnings) : Settled(u)[i] \in Int
  BY <1>1 DEF Settled, Earning
<1> QED BY <1>1, <1>2, TotalInt

\* The sum of debt_offset is an integer.
LEMMA OffsetInt ==
  ASSUME TypeOK, NEW u
  PROVE  Total(OffsetBy(u), Len(conversions)) \in Int
<1>1. Len(conversions) \in Nat /\ DOMAIN conversions = 1..Len(conversions)
      /\ \A i \in DOMAIN conversions : conversions[i] \in Conversion
  BY DEF TypeOK
<1>2. \A i \in 1..Len(conversions) : OffsetBy(u)[i] \in Int
  BY <1>1 DEF OffsetBy, Conversion
<1> QED BY <1>1, <1>2, TotalInt

\* The sum of the conversions' credits is an integer.
LEMMA CreditInt ==
  ASSUME TypeOK, NEW u
  PROVE  Total(CreditTo(u), Len(conversions)) \in Int
<1>1. Len(conversions) \in Nat /\ DOMAIN conversions = 1..Len(conversions)
      /\ \A i \in DOMAIN conversions : conversions[i] \in Conversion
  BY DEF TypeOK
<1>2. \A i \in 1..Len(conversions) : CreditTo(u)[i] \in Int
  BY <1>1 DEF CreditTo, Conversion
<1> QED BY <1>1, <1>2, TotalInt

\* A conversion keeps what rows owe and recovered, and moves gross_amount into
\* the settled rows of the user who converts.
LEMMA ConvertOwed ==
  ASSUME TypeOK, NEW u \in Users, Convert(u), NEW v
  PROVE  /\ Total(OwedBy(v), Len(earnings))' = Total(OwedBy(v), Len(earnings))
         /\ Total(RecoveredFrom(v), Len(earnings))' =
              Total(RecoveredFrom(v), Len(earnings))
<1>1. Len(earnings) \in Nat /\ Len(earnings') = Len(earnings) /\ Ids = 1..Len(earnings)
      /\ Ids' = Ids
  BY ConvertRows, Rewritten
<1>2. \A i \in 1..Len(earnings) : OwedBy(v)'[i] = OwedBy(v)[i]
  BY <1>1, ConvertRows DEF OwedBy, Kept
<1>3. \A i \in 1..Len(earnings) : RecoveredFrom(v)'[i] = RecoveredFrom(v)[i]
  BY <1>1, ConvertRows DEF RecoveredFrom, Kept
<1>4. Total(OwedBy(v)', Len(earnings)) = Total(OwedBy(v), Len(earnings))
  BY <1>1, <1>2, TotalSame
<1>5. Total(RecoveredFrom(v)', Len(earnings)) = Total(RecoveredFrom(v), Len(earnings))
  BY <1>1, <1>3, TotalSame
<1> QED BY <1>1, <1>4, <1>5

\* A conversion adds exactly its gross amount to the settled sum of its user.
LEMMA ConvertSettled ==
  ASSUME TypeOK, NEW u \in Users, Convert(u), NEW v
  PROVE  Total(Settled(v), Len(earnings))' =
           Total(Settled(v), Len(earnings)) + (IF v = u THEN Gross(u) ELSE 0)
<1> DEFINE g == [i \in Ids |-> IF i \in Convertible(u) THEN earnings[i].amount ELSE 0]
<1>1. /\ Len(earnings) \in Nat /\ Len(earnings') = Len(earnings)
      /\ Ids = 1..Len(earnings) /\ Ids' = Ids
      /\ \A i \in Ids : earnings[i] \in Earning
  BY ConvertRows, Rewritten, RowIds
<1>2. CASE v = u
  <2>1. ASSUME NEW i \in 1..Len(earnings)
        PROVE  /\ Settled(v)[i] \in Int /\ g[i] \in Int
               /\ Settled(v)'[i] = Settled(v)[i] + g[i]
    <3>1. CASE i \in Convertible(u)
      <4>1. Settled(v)[i] = 0 /\ g[i] = earnings[i].amount
        BY <1>1, <1>2, <3>1, ConvertRows DEF Settled
      <4>2. Settled(v)'[i] = earnings[i].amount
        BY <1>1, <1>2, <3>1, ConvertRows DEF Settled, Kept
      <4> QED BY <1>1, <4>1, <4>2 DEF Earning
    <3>2. CASE i \notin Convertible(u)
      <4>1. g[i] = 0 /\ Settled(v)[i] \in Int
        BY <1>1, <3>2 DEF Settled, Earning
      <4>2. Settled(v)'[i] = Settled(v)[i]
        BY <1>1, <3>2, ConvertRows DEF Settled
      <4> QED BY <4>1, <4>2
    <3> QED BY <3>1, <3>2
  <2>2. Total(Settled(v)', Len(earnings)) = Total(Settled(v), Len(earnings)) + Total(g, Len(earnings))
    <3> HIDE DEF g
    <3> QED BY <1>1, <2>1, TotalPlus
  <2> QED BY <1>1, <1>2, <2>2 DEF Gross
<1>3. CASE v # u
  <2>1. ASSUME NEW i \in 1..Len(earnings) PROVE Settled(v)'[i] = Settled(v)[i]
    <3>1. CASE i \in Convertible(u)
      BY <1>1, <1>3, <3>1, ConvertRows DEF Settled, Kept
    <3>2. CASE i \notin Convertible(u)
      BY <1>1, <3>2, ConvertRows DEF Settled
    <3> QED BY <3>1, <3>2
  <2>2. Total(Settled(v)', Len(earnings)) = Total(Settled(v), Len(earnings))
    BY <1>1, <2>1, TotalSame
  <2> QED BY <1>1, <1>3, <2>2, SettledInt
<1> QED BY <1>2, <1>3

\* What a conversion does to a user's balance, debt and conversion row.
LEMMA ConvertEffect ==
  ASSUME TypeOK, NEW u \in Users, Convert(u)
  PROVE  \E row \in Conversion :
           /\ conversions' = Append(conversions, row)
           /\ row.user = u /\ row.gross = Gross(u)
           /\ row.gross = row.offset + row.credit
           /\ debt' = [debt EXCEPT ![u] = debt[u] - row.offset]
<1> DEFINE offset == Lesser(Gross(u), debt[u])
           row == [user |-> u, gross |-> Gross(u), offset |-> offset,
                   credit |-> Gross(u) - offset]
<1>1. offset \in Nat /\ Gross(u) \in Nat /\ Gross(u) - offset \in Nat
  BY GrossNat DEF TypeOK, Lesser
<1>2. conversions' = Append(conversions, row)
  BY DEF Convert
<1>3. debt' = [debt EXCEPT ![u] = debt[u] - offset]
  BY DEF Convert, DebtLeft
<1> HIDE DEF offset
<1>4. row \in Conversion /\ row.gross = row.offset + row.credit
  BY <1>1 DEF Conversion
<1> QED BY <1>2, <1>3, <1>4

-------------------------------------------------------------------------------
(* The audit trail *)

\* Every step keeps the debt equal to its audit trail.
LEMMA DebtAuditedStep ==
  ASSUME TypeInv, DebtAudited, [Next]_vars
  PROVE  DebtAudited'
<1> SUFFICES ASSUME NEW v \in Users
             PROVE  debt'[v] = Total(OwedBy(v), Len(earnings))'
                                 - Total(OffsetBy(v), Len(conversions))'
  BY DEF DebtAudited
<1> DEFINE owed == Total(OwedBy(v), Len(earnings))
           offsets == Total(OffsetBy(v), Len(conversions))
<1>1. /\ debt[v] = owed - offsets /\ owed \in Int /\ offsets \in Int
      /\ debt \in [Users -> Nat] /\ TypeOK
  BY OwedInt, OffsetInt DEF DebtAudited, TypeInv, TypeOK
<1>2. CASE UNCHANGED conversions
  <2>1. offsets' = offsets
    BY <1>2 DEF OffsetBy
  <2>2. CASE Quiet
    BY <1>1, <2>1, <2>2, OwedQuiet DEF Quiet
  <2>3. ASSUME NEW e \in Earning, Earned(e)
        PROVE  debt'[v] = owed' - offsets'
    <3>1. owed' = owed + 0 /\ debt' = debt
      BY <1>1, <2>3, OwedAppend DEF Earned
    <3> QED BY <1>1, <2>1, <3>1
  <2>4. ASSUME NEW u \in Users, NEW amount \in Nat, NEW e \in Earning,
               Debited(u, amount, e)
        PROVE  debt'[v] = owed' - offsets'
    <3> DEFINE more == amount - Recovered(u, amount)
    <3>1. more \in Nat
      <4>1. TypeOK
        BY DEF TypeInv
      <4>2. Recovered(u, amount) \in Nat /\ Recovered(u, amount) <= amount
        BY <4>1, RecoveredNat
      <4> QED BY <4>2
    <3>2. e.referrer = u /\ e.owed = more /\ debt' = [debt EXCEPT ![u] = @ + more]
      BY <2>4 DEF Debited, ApplyDebit
    <3> HIDE DEF more
    <3>3. owed' = owed + (IF v = u THEN more ELSE 0)
      BY <1>1, <2>4, <3>2, OwedAppend DEF Debited
    <3> HIDE DEF owed, offsets
    <3> QED BY <1>1, <2>1, <3>1, <3>2, <3>3
  <2>5. ASSUME NEW u \in Users, Convert(u) PROVE FALSE
    <3>1. conversions \in Seq(Conversion) /\ Len(conversions') = Len(conversions) + 1
          /\ Len(conversions) \in Nat
      BY <1>1, <2>5, ConvertEffect, AppendRow DEF TypeOK
    <3> QED BY <1>2, <3>1
  <2> QED BY <2>2, <2>3, <2>4, <2>5, StepKinds
<1>3. ASSUME NEW u \in Users, Convert(u)
      PROVE  debt'[v] = owed' - offsets'
  <2>1. PICK row \in Conversion :
          /\ conversions' = Append(conversions, row) /\ row.user = u
          /\ debt' = [debt EXCEPT ![u] = debt[u] - row.offset]
    BY <1>1, <1>3, ConvertEffect
  <2>2. owed' = owed
    BY <1>1, <1>3, ConvertOwed
  <2>3. offsets' = offsets + (IF v = u THEN row.offset ELSE 0)
    BY <1>1, <2>1, OffsetAppend
  <2>4. row.offset \in Nat
    BY DEF Conversion
  <2> HIDE DEF owed, offsets
  <2> QED BY <1>1, <2>1, <2>2, <2>3, <2>4
<1>4. UNCHANGED conversions \/ \E u \in Users : Convert(u)
  BY StepKinds DEF Quiet, Earned, Debited
<1> QED BY <1>2, <1>3, <1>4

\* Every debt is accounted for: it is the debt_added of the user's debit rows less
\* the debt_offset of its conversions, in any run of any size.
THEOREM DebtIsAudited == Spec => []DebtAudited
<1>1. Init => DebtAudited
  <2> SUFFICES ASSUME Init, NEW u \in Users
               PROVE  debt[u] = Total(OwedBy(u), Len(earnings))
                                  - Total(OffsetBy(u), Len(conversions))
    BY DEF DebtAudited
  <2>1. Len(earnings) = 0 /\ Len(conversions) = 0 /\ debt[u] = 0
    BY DEF Init
  <2> QED BY <2>1, TotalZero
<1>2. TypeInv /\ DebtAudited /\ [Next]_vars => DebtAudited'
  BY DebtAuditedStep
<1> QED BY <1>1, <1>2, TypeInvariant, PTL DEF Spec

\* Every step keeps the balance equal to its recorded operations.
LEMMA BalanceAuditedStep ==
  ASSUME TypeInv, BalanceAudited, [Next]_vars
  PROVE  BalanceAudited'
<1>0. /\ balance \in [Users -> Nat] /\ operations \in [Users -> Int]
      /\ InitialBalance \in [Users -> Nat] /\ TypeOK
      /\ \A u \in Users : balance[u] = InitialBalance[u] + operations[u]
  BY UsersAssumption DEF TypeInv, TypeOK, BalanceAudited
<1>1. ASSUME NEW u \in Users, NEW d \in Int,
             balance' = [balance EXCEPT ![u] = @ + d],
             operations' = [operations EXCEPT ![u] = @ + d]
      PROVE  BalanceAudited'
  BY <1>0, <1>1 DEF BalanceAudited
<1>2. ASSUME NEW b \in Users, NEW total \in Totals, NEW stored \in Rates,
             NEW manual \in BOOLEAN, Purchase(b, total, stored, manual)
      PROVE  BalanceAudited'
  BY <1>0, <1>2, AmountsAssumption DEF Purchase, BalanceAudited
<1>3. ASSUME NEW u \in Users, Convert(u) PROVE BalanceAudited'
  <2> DEFINE credit == Gross(u) - Lesser(Gross(u), debt[u])
  <2>1. credit \in Int
    BY <1>0, GrossNat DEF TypeOK, Lesser
  <2>2. /\ balance' = [balance EXCEPT ![u] = @ + credit]
        /\ operations' = [operations EXCEPT ![u] = @ + credit]
    BY <1>3 DEF Convert
  <2> HIDE DEF credit
  <2> QED BY <1>1, <2>1, <2>2
<1>4. ASSUME NEW u \in Users, NEW amount \in Nat, ApplyDebit(u, amount)
      PROVE  BalanceAudited'
  <2> DEFINE r == Recovered(u, amount)
  <2>1. r \in Nat
    BY <1>0, RecoveredNat
  <2>2. /\ balance' = [balance EXCEPT ![u] = @ - r]
        /\ operations' = [operations EXCEPT ![u] = @ + (-r)]
    BY <1>4 DEF ApplyDebit, DebitOperation
  <2> HIDE DEF r
  <2> QED BY <1>0, <2>1, <2>2 DEF BalanceAudited
<1>5. ASSUME NEW u \in Users, NEW amount \in Adjustments, NEW k \in Keys,
             AdjustDown(u, amount, k)
      PROVE  BalanceAudited'
  BY <1>0, <1>4, <1>5, AdjustDownAppends DEF AdjustDown
<1>6. ASSUME NEW i \in Ids, ReverseConverted(i) PROVE BalanceAudited'
  <2>1. earnings[i].amount > 0
    <3>1. earnings[i].status = "converted" /\ RowOK(i) /\ earnings[i] \in Earning
      BY <1>6 DEF ReverseConverted, TypeInv, RowsOK, TypeOK
    <3> QED BY <3>1 DEF RowOK, Earning
  <2>2. earnings[i].referrer \in Users /\ earnings[i].amount \in Nat
    BY <1>0, <1>6, <2>1, ReversalAppends
  <2> QED BY <1>4, <1>6, <2>2 DEF ReverseConverted
<1>7. CASE UNCHANGED <<balance, operations>>
  BY <1>0, <1>7 DEF BalanceAudited
<1>8. \/ UNCHANGED <<balance, operations>>
      \/ \E b \in Users, total \in Totals, stored \in Rates, manual \in BOOLEAN :
           Purchase(b, total, stored, manual)
      \/ \E u \in Users : Convert(u)
      \/ \E u \in Users, amount \in Adjustments, k \in Keys : AdjustDown(u, amount, k)
      \/ \E i \in Ids : ReverseConverted(i)
  BY DEF Next, Adjust, vars, FulfilManual, ReleaseBatch, AdjustUp, ReverseHeld, Tick
<1> QED BY <1>2, <1>3, <1>5, <1>6, <1>7, <1>8

\* No money moves in the ledger without its operation, and no operation is
\* recorded without the money: purchases, conversions and debits keep the balance
\* equal to the opening balance plus the operations.
THEOREM BalanceIsAudited == Spec => []BalanceAudited
<1>1. Init => BalanceAudited
  BY UsersAssumption DEF Init, BalanceAudited
<1>2. TypeInv /\ BalanceAudited /\ [Next]_vars => BalanceAudited'
  BY BalanceAuditedStep
<1> QED BY <1>1, <1>2, TypeInvariant, PTL DEF Spec

\* Every step conserves referral money.
LEMMA NetPositionStep ==
  ASSUME TypeInv, NetPosition, [Next]_vars
  PROVE  NetPosition'
<1> DEFINE settled(v) == Total(Settled(v), Len(earnings))
           credits(v) == Total(CreditTo(v), Len(conversions))
           taken(v) == Total(RecoveredFrom(v), Len(earnings))
<1> SUFFICES ASSUME NEW v \in Users
             PROVE  settled(v)' = (credits(v)' - taken(v)') - debt'[v]
  BY DEF NetPosition
<1>1. /\ settled(v) = (credits(v) - taken(v)) - debt[v]
      /\ settled(v) \in Int /\ credits(v) \in Int /\ taken(v) \in Int
      /\ debt \in [Users -> Nat] /\ TypeOK
  BY SettledInt, CreditInt, RecoveryInt DEF NetPosition, TypeInv, TypeOK
<1>2. ASSUME UNCHANGED conversions PROVE credits(v)' = credits(v)
  BY <1>2 DEF CreditTo
<1>3. CASE Quiet
  BY <1>1, <1>2, <1>3, SettledQuiet, RecoveryQuiet DEF Quiet
<1>4. ASSUME NEW e \in Earning, Earned(e)
      PROVE  settled(v)' = (credits(v)' - taken(v)') - debt'[v]
  <2>1. credits(v)' = credits(v) /\ debt' = debt
    BY <1>2, <1>4 DEF Earned
  <2>2. settled(v)' = settled(v) + 0
    BY <1>1, <1>4, SettledAppend DEF Earned
  <2>3. taken(v)' = taken(v) + 0
    BY <1>1, <1>4, RecoveryAppend DEF Earned
  <2> QED BY <1>1, <2>1, <2>2, <2>3
<1>5. ASSUME NEW u \in Users, NEW amount \in Nat, NEW e \in Earning,
             Debited(u, amount, e)
      PROVE  settled(v)' = (credits(v)' - taken(v)') - debt'[v]
  <2> DEFINE r == Recovered(u, amount)
  <2>1. r \in Nat /\ amount - r \in Nat
    <3>1. TypeOK
      BY DEF TypeInv
    <3>2. r \in Nat /\ r <= amount
      BY <3>1, RecoveredNat
    <3> QED BY <3>2
  <2>2. /\ e.referrer = u /\ e.recovered = r /\ e.amount = -amount
        /\ e.status \in SettledStatus
        /\ debt' = [debt EXCEPT ![u] = @ + (amount - r)]
    BY <1>5 DEF Debited, ApplyDebit, SettledStatus
  <2> HIDE DEF r
  <2>3. credits(v)' = credits(v)
    BY <1>2, <1>5 DEF Debited
  <2>4. settled(v)' = settled(v) + (IF v = u THEN -amount ELSE 0)
    BY <1>1, <1>5, <2>2, SettledAppend DEF Debited
  <2>5. taken(v)' = taken(v) + (IF v = u THEN r ELSE 0)
    BY <1>1, <1>5, <2>2, RecoveryAppend DEF Debited
  <2> HIDE DEF settled, credits, taken
  <2> QED BY <1>1, <2>1, <2>2, <2>3, <2>4, <2>5
<1>6. ASSUME NEW u \in Users, Convert(u)
      PROVE  settled(v)' = (credits(v)' - taken(v)') - debt'[v]
  <2>1. PICK row \in Conversion :
          /\ conversions' = Append(conversions, row) /\ row.user = u
          /\ row.gross = Gross(u) /\ row.gross = row.offset + row.credit
          /\ debt' = [debt EXCEPT ![u] = debt[u] - row.offset]
    BY <1>1, <1>6, ConvertEffect
  <2>2. settled(v)' = settled(v) + (IF v = u THEN row.gross ELSE 0)
    BY <1>1, <1>6, <2>1, ConvertSettled
  <2>3. taken(v)' = taken(v)
    BY <1>1, <1>6, ConvertOwed
  <2>4. credits(v)' = credits(v) + (IF v = u THEN row.credit ELSE 0)
    BY <1>1, <2>1, CreditAppend
  <2>5. row.offset \in Nat /\ row.credit \in Nat
    BY DEF Conversion
  <2> HIDE DEF settled, credits, taken
  <2> QED BY <1>1, <2>1, <2>2, <2>3, <2>4, <2>5
<1> QED BY <1>3, <1>4, <1>5, <1>6, StepKinds

\* Conservation of the referral money, for any users, amounts and rates: what the
\* ledger credited, less what it recovered and what it still claims, is what the
\* settled rows say.
THEOREM ReferralMoneyConserved == Spec => []NetPosition
<1>1. Init => NetPosition
  <2> SUFFICES ASSUME Init, NEW u \in Users
               PROVE  Total(Settled(u), Len(earnings)) =
                        (Total(CreditTo(u), Len(conversions))
                           - Total(RecoveredFrom(u), Len(earnings))) - debt[u]
    BY DEF NetPosition
  <2>1. Len(earnings) = 0 /\ Len(conversions) = 0 /\ debt[u] = 0
    BY DEF Init
  <2> QED BY <2>1, TotalZero
<1>2. TypeInv /\ NetPosition /\ [Next]_vars => NetPosition'
  BY NetPositionStep
<1> QED BY <1>1, <1>2, TypeInvariant, PTL DEF Spec

-------------------------------------------------------------------------------
(* Conversions, holds, keys and reversals *)

\* Every step keeps the conversions equal to the rows that name them.
LEMMA ConversionsAuditedStep ==
  ASSUME TypeInv, ConversionsAudited, [Next]_vars
  PROVE  ConversionsAudited'
<1> DEFINE gross(c) == Total(GrossOf(c), Len(earnings))
<1>0. /\ TypeOK /\ Len(earnings) \in Nat /\ Ids = 1..Len(earnings)
      /\ conversions \in Seq(Conversion)
      /\ Len(conversions) \in Nat /\ DOMAIN conversions = 1..Len(conversions)
      /\ \A i \in Ids : earnings[i] \in Earning /\ RowOK(i)
      /\ \A c \in DOMAIN conversions : conversions[c].gross = gross(c)
  BY RowIds DEF TypeInv, RowsOK, TypeOK, ConversionsAudited
<1>1. ASSUME NEW c \in DOMAIN conversions PROVE gross(c) \in Int
  <2>1. \A i \in 1..Len(earnings) : GrossOf(c)[i] \in Int
    BY <1>0 DEF GrossOf, Earning
  <2> QED BY <1>0, <2>1, TotalInt
<1>2. CASE Quiet
  <2>1. Len(earnings') = Len(earnings) /\ Ids' = Ids /\ conversions' = conversions
    BY <1>0, <1>2, Rewritten DEF Quiet
  <2>2. ASSUME NEW c \in DOMAIN conversions PROVE gross(c)' = gross(c)
    <3>1. \A i \in 1..Len(earnings) : GrossOf(c)'[i] = GrossOf(c)[i]
      BY <1>0, <1>2, <2>1 DEF GrossOf, Quiet, Kept
    <3>2. Total(GrossOf(c)', Len(earnings)) = Total(GrossOf(c), Len(earnings))
      BY <1>0, <3>1, TotalSame
    <3> QED BY <2>1, <3>2
  <2> QED BY <1>0, <2>1, <2>2 DEF ConversionsAudited
<1>3. ASSUME NEW e \in Earning, earnings' = Append(earnings, e), e.conversion = 0,
             conversions' = conversions
      PROVE  ConversionsAudited'
  <2>1. /\ Len(earnings') = Len(earnings) + 1 /\ Ids' = 1..(Len(earnings) + 1)
        /\ earnings'[Len(earnings) + 1] = e
        /\ \A i \in Ids : earnings'[i] = earnings[i]
    BY <1>0, <1>3, Appended
  <2>2. ASSUME NEW c \in DOMAIN conversions PROVE gross(c)' = gross(c)
    <3>1. \A i \in 1..Len(earnings) : GrossOf(c)'[i] = GrossOf(c)[i]
      BY <1>0, <2>1 DEF GrossOf
    <3>2. GrossOf(c)'[Len(earnings) + 1] = 0
      BY <1>0, <1>3, <2>1 DEF GrossOf
    <3>3. Total(GrossOf(c)', Len(earnings) + 1) =
            Total(GrossOf(c), Len(earnings)) + GrossOf(c)'[Len(earnings) + 1]
      BY <1>0, <3>1, TotalAppend
    <3>4. gross(c) \in Int
      BY <1>1
    <3> QED BY <2>1, <3>2, <3>3, <3>4
  <2> QED BY <1>0, <1>3, <2>2 DEF ConversionsAudited
<1>4. ASSUME NEW u \in Users, Convert(u) PROVE ConversionsAudited'
  <2>0. PICK n \in Nat : n = Len(conversions) + 1
    BY <1>0
  <2>1. PICK row \in Conversion :
          conversions' = Append(conversions, row) /\ row.gross = Gross(u)
    BY <1>0, <1>4, ConvertEffect
  <2>2. /\ DOMAIN conversions' = 1..n /\ conversions'[n] = row
        /\ \A c \in DOMAIN conversions : conversions'[c] = conversions[c]
    BY <1>0, <2>0, <2>1, AppendRow
  <2>3. Len(earnings') = Len(earnings) /\ Ids' = Ids
    BY <1>0, <1>4, ConvertRows, Rewritten
  <2>4. ASSUME NEW c \in DOMAIN conversions PROVE gross(c)' = gross(c)
    <3>1. ASSUME NEW i \in 1..Len(earnings) PROVE GrossOf(c)'[i] = GrossOf(c)[i]
      <4>1. CASE i \in Convertible(u)
        <5>1. earnings[i].conversion # c
          BY <1>0, <1>4, <4>1, ConvertRows DEF RowOK
        <5>2. earnings'[i].conversion # c
          BY <1>0, <1>4, <4>1, ConvertRows
        <5> QED BY <1>0, <2>3, <5>1, <5>2 DEF GrossOf
      <4>2. CASE i \notin Convertible(u)
        BY <1>0, <1>4, <2>3, <4>2, ConvertRows DEF GrossOf
      <4> QED BY <4>1, <4>2
    <3>2. Total(GrossOf(c)', Len(earnings)) = Total(GrossOf(c), Len(earnings))
      BY <1>0, <3>1, TotalSame
    <3> QED BY <2>3, <3>2
  <2>5. gross(n)' = Gross(u)
    <3> DEFINE f == [i \in Ids |-> IF i \in Convertible(u) THEN earnings[i].amount ELSE 0]
    <3>1. ASSUME NEW i \in 1..Len(earnings) PROVE GrossOf(n)'[i] = f[i]
      <4>1. CASE i \in Convertible(u)
        <5>1. earnings'[i].conversion = n /\ earnings'[i].amount = earnings[i].amount
          BY <1>0, <1>4, <2>0, <4>1, ConvertRows DEF Kept
        <5> QED BY <1>0, <2>3, <4>1, <5>1 DEF GrossOf
      <4>2. CASE i \notin Convertible(u)
        <5>1. earnings'[i].conversion # n
          BY <1>0, <1>4, <2>0, <4>2, ConvertRows DEF RowOK
        <5> QED BY <1>0, <2>3, <4>2, <5>1 DEF GrossOf
      <4> QED BY <4>1, <4>2
    <3> HIDE DEF f
    <3>2. Total(GrossOf(n)', Len(earnings)) = Total(f, Len(earnings))
      BY <1>0, <3>1, TotalSame
    <3> QED BY <2>3, <3>2 DEF f, Gross
  <2>6. ASSUME NEW c \in 1..n PROVE conversions'[c].gross = gross(c)'
    <3>1. CASE c = n
      BY <2>1, <2>2, <2>5, <3>1
    <3>2. CASE c # n
      <4>1. c \in DOMAIN conversions
        BY <1>0, <2>0, <3>2
      <4> QED BY <1>0, <2>2, <2>4, <4>1
    <3> QED BY <3>1, <3>2
  <2> QED BY <2>2, <2>6 DEF ConversionsAudited
<1> QED BY <1>2, <1>3, <1>4, StepKinds DEF Earned, Debited

\* Every conversion equals the rows that name it: no earning is paid by two
\* conversions.
THEOREM ConversionsAreAudited == Spec => []ConversionsAudited
<1>1. Init => ConversionsAudited
  BY DEF Init, ConversionsAudited
<1>2. TypeInv /\ ConversionsAudited /\ [Next]_vars => ConversionsAudited'
  BY ConversionsAuditedStep
<1> QED BY <1>1, <1>2, TypeInvariant, PTL DEF Spec

\* The hold, row by row: it starts when the order is fulfilled, and only its end
\* releases the earning.
HoldOK(i) ==
  earnings[i].type = "order_purchase" =>
    /\ earnings[i].ready # NULL =>
         /\ earnings[i].fulfilled # NULL
         /\ earnings[i].ready = earnings[i].fulfilled + HoldTime
    /\ earnings[i].status \in {"available", "converted"} =>
         earnings[i].ready # NULL /\ earnings[i].ready <= clock

HoldInv == \A i \in Ids : HoldOK(i)

\* Every step keeps the hold of an order's earning after its fulfilment.
LEMMA HoldInvStep ==
  ASSUME TypeInv, HoldInv, [Next]_vars
  PROVE  HoldInv'
<1>0. /\ TypeOK /\ clock \in Nat /\ HoldTime \in Nat /\ NULL \notin Nat
      /\ Ids = 1..Len(earnings) /\ Len(earnings) \in Nat
      /\ \A i \in Ids : earnings[i] \in Earning /\ HoldOK(i)
  BY UsersAssumption, LimitsAssumption, RowIds DEF TypeInv, TypeOK, HoldInv
<1>1. ASSUME NEW e \in Earning, earnings' = Append(earnings, e), clock' = clock,
             e.type = "order_purchase" =>
               /\ e.status = "pending"
               /\ e.ready # NULL => /\ e.fulfilled # NULL
                                    /\ e.ready = e.fulfilled + HoldTime
      PROVE  HoldInv'
  <2>1. /\ Ids' = 1..(Len(earnings) + 1) /\ earnings'[Len(earnings) + 1] = e
        /\ \A i \in Ids : earnings'[i] = earnings[i]
    BY <1>0, <1>1, Appended
  <2>2. ASSUME NEW i \in Ids' PROVE HoldOK(i)'
    <3>1. CASE i = Len(earnings) + 1
      BY <1>1, <2>1, <3>1 DEF HoldOK
    <3>2. CASE i # Len(earnings) + 1
      <4>1. i \in Ids /\ earnings'[i] = earnings[i]
        BY <1>0, <2>1, <2>2, <3>2
      <4> QED BY <1>0, <1>1, <4>1 DEF HoldOK
    <3> QED BY <3>1, <3>2
  <2> QED BY <2>2 DEF HoldInv
<1>2. ASSUME NEW b \in Users, NEW total \in Totals, NEW stored \in Rates,
             NEW manual \in BOOLEAN, Purchase(b, total, stored, manual)
      PROVE  HoldInv'
  <2>1. CASE Earns(b, total, stored)
    <3>1. PICK e \in Earning :
            /\ earnings' = Append(earnings, e) /\ e.status = "pending"
            /\ e.fulfilled = (IF manual THEN NULL ELSE clock)
            /\ e.ready = (IF manual THEN NULL ELSE clock + HoldTime)
      BY <1>0, <1>2, <2>1, PurchaseAppends
    <3>2. e.ready # NULL => e.fulfilled # NULL /\ e.ready = e.fulfilled + HoldTime
      BY <1>0, <3>1
    <3>3. clock' = clock
      BY <1>2 DEF Purchase
    <3> QED BY <1>1, <3>1, <3>2, <3>3
  <2>2. CASE ~Earns(b, total, stored)
    BY <1>2, <2>2 DEF Purchase, HoldInv, HoldOK
  <2> QED BY <2>1, <2>2
<1>3. ASSUME NEW i \in Ids, FulfilManual(i) PROVE HoldInv'
  <2>1. /\ Ids' = Ids /\ clock' = clock
        /\ earnings[i].type = "order_purchase" /\ earnings[i].fulfilled = NULL
    BY <1>0, <1>3, FulfilRows, Rewritten DEF FulfilManual
  <2>2. earnings[i].ready = NULL /\ HoldOK(i)
    BY <1>0, <2>1 DEF HoldOK
  <2>3. ASSUME NEW j \in Ids PROVE HoldOK(j)'
    <3>1. CASE j = i
      <4>1. /\ earnings'[i].fulfilled = clock
            /\ earnings'[i].status = earnings[i].status
            /\ earnings'[i].ready = IF earnings[i].status = "pending"
                                    THEN clock + HoldTime ELSE NULL
        BY <1>0, <1>3, <2>2, FulfilRows
      <4>2. earnings[i].status \notin {"available", "converted"}
        BY <2>1, <2>2 DEF HoldOK
      <4> QED BY <1>0, <2>1, <3>1, <4>1, <4>2 DEF HoldOK
    <3>2. CASE j # i
      <4>1. earnings'[j] = earnings[j]
        BY <1>0, <1>3, <3>2, FulfilRows
      <4> QED BY <1>0, <2>1, <4>1 DEF HoldOK
    <3> QED BY <3>1, <3>2
  <2> QED BY <2>1, <2>3 DEF HoldInv
<1>4. CASE ReleaseBatch
  <2>1. Ids' = Ids /\ clock' = clock
    BY <1>0, <1>4, ReleaseRows, Rewritten DEF ReleaseBatch
  <2>2. ASSUME NEW j \in Ids PROVE HoldOK(j)'
    <3>1. /\ earnings'[j].type = earnings[j].type
          /\ earnings'[j].ready = earnings[j].ready
          /\ earnings'[j].fulfilled = earnings[j].fulfilled
      BY <1>0, <1>4, ReleaseRows DEF Kept
    <3>2. CASE j \in Batch
      <4>1. earnings[j].ready # NULL /\ earnings[j].ready <= clock
        BY <1>0, <1>4, <3>2, ReleaseRows DEF Mature
      <4> QED BY <1>0, <2>1, <3>1, <4>1 DEF HoldOK
    <3>3. CASE j \notin Batch
      <4>1. earnings'[j] = earnings[j]
        BY <1>0, <1>4, <3>3, ReleaseRows
      <4> QED BY <1>0, <2>1, <4>1 DEF HoldOK
    <3> QED BY <3>2, <3>3
  <2> QED BY <2>1, <2>2 DEF HoldInv
<1>5. ASSUME NEW u \in Users, Convert(u) PROVE HoldInv'
  <2>1. Ids' = Ids /\ clock' = clock
    BY <1>0, <1>5, ConvertRows, Rewritten DEF Convert
  <2>2. ASSUME NEW j \in Ids PROVE HoldOK(j)'
    <3>1. /\ earnings'[j].type = earnings[j].type
          /\ earnings'[j].ready = earnings[j].ready
          /\ earnings'[j].fulfilled = earnings[j].fulfilled
      BY <1>0, <1>5, ConvertRows DEF Kept
    <3>2. CASE j \in Convertible(u)
      <4>1. earnings[j].status = "available"
        BY <1>0, <1>5, <3>2, ConvertRows
      <4> QED BY <1>0, <2>1, <3>1, <4>1 DEF HoldOK
    <3>3. CASE j \notin Convertible(u)
      <4>1. earnings'[j] = earnings[j]
        BY <1>0, <1>5, <3>3, ConvertRows
      <4> QED BY <1>0, <2>1, <4>1 DEF HoldOK
    <3> QED BY <3>2, <3>3
  <2> QED BY <2>1, <2>2 DEF HoldInv
<1>6. ASSUME NEW u \in Users, NEW amount \in Adjustments, NEW k \in Keys,
             AdjustUp(u, amount, k)
      PROVE  HoldInv'
  BY <1>0, <1>1, <1>6, AdjustUpAppends DEF AdjustUp
<1>7. ASSUME NEW u \in Users, NEW amount \in Adjustments, NEW k \in Keys,
             AdjustDown(u, amount, k)
      PROVE  HoldInv'
  BY <1>0, <1>1, <1>7, AdjustDownAppends DEF AdjustDown
<1>8. ASSUME NEW i \in Ids, ReverseHeld(i) PROVE HoldInv'
  <2>1. Ids' = Ids /\ clock' = clock
    BY <1>0, <1>8, ReverseHeldRows, Rewritten DEF ReverseHeld
  <2>2. ASSUME NEW j \in Ids PROVE HoldOK(j)'
    <3>1. /\ earnings'[j].type = earnings[j].type
          /\ earnings'[j].ready = earnings[j].ready
          /\ earnings'[j].fulfilled = earnings[j].fulfilled
          /\ j = i => earnings'[j].status = "reversed"
          /\ j # i => earnings'[j] = earnings[j]
      BY <1>0, <1>8, ReverseHeldRows DEF Kept
    <3> QED BY <1>0, <2>1, <3>1 DEF HoldOK
  <2> QED BY <2>1, <2>2 DEF HoldInv
<1>9. ASSUME NEW i \in Ids, ReverseConverted(i) PROVE HoldInv'
  <2>1. earnings[i].amount > 0
    <3>1. earnings[i].status = "converted" /\ RowOK(i) /\ earnings[i] \in Earning
      BY <1>9 DEF ReverseConverted, TypeInv, RowsOK, TypeOK
    <3> QED BY <3>1 DEF RowOK, Earning
  <2> QED BY <1>0, <1>1, <1>9, <2>1, ReversalAppends DEF ReverseConverted
<1>10. CASE Tick
  <2>1. clock <= clock' /\ earnings' = earnings /\ clock' \in Nat
    BY <1>0, <1>10 DEF Tick
  <2>2. ASSUME NEW j \in Ids PROVE HoldOK(j)'
    BY <1>0, <2>1 DEF HoldOK, Earning
  <2> QED BY <2>1, <2>2 DEF HoldInv
<1>11. CASE UNCHANGED vars
  BY <1>11 DEF vars, HoldInv, HoldOK
<1> QED
  BY <1>2, <1>3, <1>4, <1>5, <1>6, <1>7, <1>8, <1>9, <1>10, <1>11 DEF Next, Adjust

\* No commission is available before its hold has passed since the order was
\* fulfilled, for any hold and any batch size of the worker.
THEOREM HoldIsRespected == Spec => []HoldRespected
<1>1. Init => HoldInv
  BY DEF Init, HoldInv
<1>2. TypeInv /\ HoldInv /\ [Next]_vars => HoldInv'
  BY HoldInvStep
<1>3. TypeInv /\ HoldInv => HoldRespected
  <2> SUFFICES ASSUME TypeInv, HoldInv, NEW i \in Ids,
                      earnings[i].type = "order_purchase",
                      earnings[i].status \in {"available", "converted"}
               PROVE  /\ earnings[i].fulfilled # NULL
                      /\ clock >= earnings[i].fulfilled + HoldTime
    BY DEF HoldRespected
  <2> QED BY DEF HoldInv, HoldOK
<1> QED BY <1>1, <1>2, <1>3, TypeInvariant, PTL DEF Spec

\* Every step keeps idempotency keys unique.
LEMMA KeysOnceStep ==
  ASSUME TypeInv, KeysOnce, [Next]_vars
  PROVE  KeysOnce'
<1>0. /\ TypeOK /\ Ids = 1..Len(earnings) /\ Len(earnings) \in Nat /\ NULL \notin Keys
  BY UsersAssumption, RowIds DEF TypeInv
<1>1. ASSUME NEW e \in Earning, earnings' = Append(earnings, e),
             e.key = NULL \/ ~KeyUsed(e.key)
      PROVE  KeysOnce'
  <2>1. /\ Ids' = 1..(Len(earnings) + 1) /\ earnings'[Len(earnings) + 1] = e
        /\ \A i \in Ids : earnings'[i] = earnings[i]
    BY <1>0, <1>1, Appended
  <2> SUFFICES ASSUME NEW i \in Ids', NEW j \in Ids', earnings'[i].key # NULL,
                      earnings'[i].key = earnings'[j].key
               PROVE  i = j
    BY DEF KeysOnce
  <2>2. CASE i \in Ids /\ j \in Ids
    BY <2>1, <2>2 DEF KeysOnce
  <2>3. CASE i = Len(earnings) + 1 /\ j \in Ids
    BY <1>1, <2>1, <2>3 DEF KeyUsed
  <2>4. CASE i \in Ids /\ j = Len(earnings) + 1
    BY <1>1, <2>1, <2>4 DEF KeyUsed
  <2>5. CASE i = Len(earnings) + 1 /\ j = Len(earnings) + 1
    BY <2>5
  <2> QED BY <1>0, <2>1, <2>2, <2>3, <2>4, <2>5
<1>2. ASSUME earnings' \in [Ids -> Earning],
             \A j \in Ids : Kept(earnings'[j], earnings[j])
      PROVE  KeysOnce'
  <2>1. Ids' = Ids
    BY <1>0, <1>2, Rewritten
  <2> QED BY <1>2, <2>1 DEF KeysOnce, Kept
<1>3. ASSUME NEW b \in Users, NEW total \in Totals, NEW stored \in Rates,
             NEW manual \in BOOLEAN, Purchase(b, total, stored, manual)
      PROVE  KeysOnce'
  <2>1. CASE Earns(b, total, stored)
    BY <1>0, <1>1, <1>3, <2>1, PurchaseAppends
  <2>2. CASE ~Earns(b, total, stored)
    BY <1>3, <2>2 DEF Purchase, KeysOnce
  <2> QED BY <2>1, <2>2
<1>4. ASSUME NEW i \in Ids, FulfilManual(i) PROVE KeysOnce'
  BY <1>0, <1>2, <1>4, FulfilRows
<1>5. CASE ReleaseBatch
  BY <1>0, <1>2, <1>5, ReleaseRows
<1>6. ASSUME NEW u \in Users, Convert(u) PROVE KeysOnce'
  BY <1>0, <1>2, <1>6, ConvertRows
<1>7. ASSUME NEW u \in Users, NEW amount \in Adjustments, NEW k \in Keys,
             AdjustUp(u, amount, k)
      PROVE  KeysOnce'
  <2>1. ~KeyUsed(k)
    BY <1>7 DEF AdjustUp
  <2> QED BY <1>0, <1>1, <1>7, <2>1, AdjustUpAppends
<1>8. ASSUME NEW u \in Users, NEW amount \in Adjustments, NEW k \in Keys,
             AdjustDown(u, amount, k)
      PROVE  KeysOnce'
  <2>1. ~KeyUsed(k)
    BY <1>8 DEF AdjustDown
  <2> QED BY <1>0, <1>1, <1>8, <2>1, AdjustDownAppends
<1>9. ASSUME NEW i \in Ids, ReverseHeld(i) PROVE KeysOnce'
  BY <1>0, <1>2, <1>9, ReverseHeldRows
<1>10. ASSUME NEW i \in Ids, ReverseConverted(i) PROVE KeysOnce'
  <2>1. earnings[i].amount > 0
    <3>1. earnings[i].status = "converted" /\ RowOK(i) /\ earnings[i] \in Earning
      BY <1>10 DEF ReverseConverted, TypeInv, RowsOK, TypeOK
    <3> QED BY <3>1 DEF RowOK, Earning
  <2> QED BY <1>0, <1>1, <1>10, <2>1, ReversalAppends
<1>11. CASE UNCHANGED earnings
  BY <1>11 DEF KeysOnce
<1> QED
  BY <1>3, <1>4, <1>5, <1>6, <1>7, <1>8, <1>9, <1>10, <1>11 DEF Next, Adjust, Tick, vars

\* An adjustment form submitted any number of times is applied once.
THEOREM KeysAppliedOnce == Spec => []KeysOnce
<1>1. Init => KeysOnce
  BY DEF Init, KeysOnce
<1>2. TypeInv /\ KeysOnce /\ [Next]_vars => KeysOnce'
  BY KeysOnceStep
<1> QED BY <1>1, <1>2, TypeInvariant, PTL DEF Spec

\* A compensating row names an existing earning.
ReversalInv ==
  /\ CompensatedOnce
  /\ \A j \in Ids : earnings[j].type = "compensating_reversal" =>
                      earnings[j].reversal \in Ids

\* Every step keeps reversals paired with converted earnings.
LEMMA ReversalInvStep ==
  ASSUME TypeInv, ReversalInv, [Next]_vars
  PROVE  ReversalInv'
<1>0. /\ TypeOK /\ Ids = 1..Len(earnings) /\ Len(earnings) \in Nat
      /\ \A i, j \in Ids :
           Compensates(j, i) => /\ earnings[i].status = "converted"
                                /\ earnings[j].amount = -earnings[i].amount
                                /\ earnings[j].referrer = earnings[i].referrer
                                /\ \A k \in Ids : Compensates(k, i) => k = j
      /\ \A j \in Ids : earnings[j].type = "compensating_reversal" =>
                          earnings[j].reversal \in Ids
  BY RowIds DEF TypeInv, ReversalInv, CompensatedOnce
<1>1. ASSUME NEW e \in Earning, earnings' = Append(earnings, e),
             e.type = "compensating_reversal" =>
               /\ e.reversal \in Ids
               /\ earnings[e.reversal].status = "converted"
               /\ e.amount = -earnings[e.reversal].amount
               /\ e.referrer = earnings[e.reversal].referrer
               /\ ~Compensated(e.reversal)
      PROVE  ReversalInv'
  <2> DEFINE n == Len(earnings) + 1
  <2>1. /\ Ids' = 1..n /\ earnings'[n] = e
        /\ \A i \in Ids : earnings'[i] = earnings[i]
    BY <1>0, <1>1, Appended
  <2>2. ASSUME NEW j \in Ids', earnings'[j].type = "compensating_reversal"
        PROVE  earnings'[j].reversal \in Ids
    <3>1. CASE j = n
      BY <1>1, <2>1, <2>2, <3>1
    <3>2. CASE j # n
      BY <1>0, <2>1, <2>2, <3>2
    <3> QED BY <3>1, <3>2
  <2>3. Ids \subseteq Ids'
    BY <1>0, <2>1
  <2>4. ASSUME NEW i \in Ids, NEW j \in Ids, NEW k \in Ids'
        PROVE  /\ Compensates(j, i)' <=> Compensates(j, i)
               /\ Compensates(k, i)' /\ k = n => /\ e.type = "compensating_reversal"
                                                 /\ e.reversal = i
    BY <2>1 DEF Compensates
  <2>5. ASSUME NEW i \in Ids', NEW j \in Ids', Compensates(j, i)'
        PROVE  /\ earnings'[i].status = "converted"
               /\ earnings'[j].amount = -earnings'[i].amount
               /\ earnings'[j].referrer = earnings'[i].referrer
               /\ \A k \in Ids' : Compensates(k, i)' => k = j
    <3>1. i \in Ids /\ earnings'[i] = earnings[i]
      BY <2>1, <2>2, <2>5 DEF Compensates
    <3>2. CASE j = n
      <4>1. e.type = "compensating_reversal" /\ e.reversal = i
        BY <2>1, <2>5, <3>2 DEF Compensates
      <4>2. ASSUME NEW k \in Ids', Compensates(k, i)' PROVE k = j
        <5>1. k \in Ids => FALSE
          BY <1>1, <2>4, <3>1, <4>1, <4>2 DEF Compensated
        <5> QED BY <1>0, <2>1, <3>2, <5>1
      <4> QED BY <1>1, <2>1, <3>1, <3>2, <4>1, <4>2
    <3>3. CASE j # n
      <4>1. j \in Ids /\ earnings'[j] = earnings[j] /\ Compensates(j, i)
        BY <1>0, <2>1, <2>4, <2>5, <3>1, <3>3
      <4>2. ASSUME NEW k \in Ids', Compensates(k, i)' PROVE k = j
        <5>1. CASE k = n
          <6>1. e.type = "compensating_reversal" /\ e.reversal = i
            BY <2>4, <3>1, <4>1, <4>2, <5>1
          <6> QED BY <1>1, <4>1, <6>1 DEF Compensated
        <5>2. CASE k # n
          BY <1>0, <2>1, <2>4, <3>1, <4>1, <4>2, <5>2
        <5> QED BY <5>1, <5>2
      <4> QED BY <1>0, <3>1, <4>1, <4>2
    <3> QED BY <3>2, <3>3
  <2> QED BY <2>2, <2>3, <2>5 DEF ReversalInv, CompensatedOnce
<1>2. ASSUME earnings' \in [Ids -> Earning],
             \A j \in Ids : /\ Kept(earnings'[j], earnings[j])
                            /\ earnings[j].status = "converted" =>
                                 earnings'[j].status = "converted"
      PROVE  ReversalInv'
  <2>1. Ids' = Ids
    BY <1>0, <1>2, Rewritten
  <2>2. \A i, j \in Ids : Compensates(j, i)' <=> Compensates(j, i)
    BY <1>2 DEF Compensates, Kept
  <2>3. \A i \in Ids : /\ earnings'[i].amount = earnings[i].amount
                       /\ earnings'[i].referrer = earnings[i].referrer
                       /\ earnings'[i].type = earnings[i].type
                       /\ earnings'[i].reversal = earnings[i].reversal
    BY <1>2 DEF Kept
  <2> QED BY <1>0, <1>2, <2>1, <2>2, <2>3 DEF ReversalInv, CompensatedOnce
<1>3. CASE Quiet
  BY <1>2, <1>3 DEF Quiet
<1>4. ASSUME NEW e \in Earning, Earned(e) PROVE ReversalInv'
  BY <1>1, <1>4 DEF Earned
<1>5. ASSUME NEW u \in Users, Convert(u) PROVE ReversalInv'
  <2>1. ASSUME NEW j \in Ids
        PROVE  /\ Kept(earnings'[j], earnings[j])
               /\ earnings[j].status = "converted" => earnings'[j].status = "converted"
    BY <1>0, <1>5, ConvertRows
  <2> QED BY <1>0, <1>2, <1>5, <2>1, ConvertRows
<1>6. ASSUME NEW u \in Users, NEW amount \in Adjustments, NEW k \in Keys,
             AdjustDown(u, amount, k)
      PROVE  ReversalInv'
  BY <1>0, <1>1, <1>6, AdjustDownAppends
<1>7. ASSUME NEW i \in Ids, ReverseConverted(i) PROVE ReversalInv'
  <2>1. earnings[i].amount > 0
    <3>1. earnings[i].status = "converted" /\ RowOK(i) /\ earnings[i] \in Earning
      BY <1>7 DEF ReverseConverted, TypeInv, RowsOK, TypeOK
    <3> QED BY <3>1 DEF RowOK, Earning
  <2>2. earnings[i].status = "converted" /\ ~Compensated(i)
    BY <1>7 DEF ReverseConverted
  <2> QED BY <1>0, <1>1, <1>7, <2>1, <2>2, ReversalAppends
<1>8. \/ Quiet
      \/ \E e \in Earning : Earned(e)
      \/ \E u \in Users : Convert(u)
      \/ \E u \in Users, amount \in Adjustments, k \in Keys : AdjustDown(u, amount, k)
      \/ \E i \in Ids : ReverseConverted(i)
  BY DebitSteps
<1> QED BY <1>3, <1>4, <1>5, <1>6, <1>7, <1>8

\* A refund reported any number of times compensates a converted earning at most
\* once, for its amount and at its referrer's expense.
THEOREM ReversalsCompensateOnce == Spec => []CompensatedOnce
<1>1. Init => ReversalInv
  BY DEF Init, ReversalInv, CompensatedOnce
<1>2. TypeInv /\ ReversalInv /\ [Next]_vars => ReversalInv'
  BY ReversalInvStep
<1>3. ReversalInv => CompensatedOnce
  BY DEF ReversalInv
<1> QED BY <1>1, <1>2, <1>3, TypeInvariant, PTL DEF Spec

-------------------------------------------------------------------------------
(* History *)

\* No step of the ledger edits history (reversal, conversion and debit rows included).
LEMMA HistoryKeptStep ==
  ASSUME TypeInv, HoldInv, [Next]_vars
  PROVE  HistoryKept \/ UNCHANGED vars
<1>0. /\ TypeOK /\ Ids = 1..Len(earnings) /\ Len(earnings) \in Nat
      /\ \A i \in Ids : earnings[i] \in Earning /\ HoldOK(i)
  BY RowIds DEF TypeInv, HoldInv
<1>1. ASSUME NEW e \in Earning, earnings' = Append(earnings, e) PROVE HistoryKept
  <2>1. /\ Ids' = 1..(Len(earnings) + 1) /\ \A i \in Ids : earnings'[i] = earnings[i]
    BY <1>0, <1>1, Appended
  <2>2. \A i \in Ids : i \in Ids' /\ earnings[i].status \in Follows(earnings[i].status)
    BY <1>0, <2>1 DEF Follows
  <2> QED BY <2>1, <2>2 DEF HistoryKept
<1>2. ASSUME earnings' \in [Ids -> Earning],
             \A j \in Ids : /\ Kept(earnings'[j], earnings[j])
                            /\ earnings'[j].status \in Follows(earnings[j].status)
                            /\ earnings[j].ready # NULL =>
                                 earnings'[j].ready = earnings[j].ready
      PROVE  HistoryKept
  <2>1. Ids' = Ids
    BY <1>0, <1>2, Rewritten
  <2> QED BY <1>2, <2>1 DEF HistoryKept, Kept
<1>3. ASSUME earnings' = earnings PROVE HistoryKept
  BY <1>0, <1>3 DEF HistoryKept, Follows
<1>4. ASSUME NEW i \in Ids, FulfilManual(i) PROVE HistoryKept
  <2>1. ASSUME NEW j \in Ids
        PROVE  /\ Kept(earnings'[j], earnings[j])
               /\ earnings'[j].status \in Follows(earnings[j].status)
               /\ earnings[j].ready # NULL => earnings'[j].ready = earnings[j].ready
    <3>1. CASE j = i
      BY <1>0, <1>4, <3>1, FulfilRows DEF Follows
    <3>2. CASE j # i
      BY <1>0, <1>4, <3>2, FulfilRows DEF Follows
    <3> QED BY <3>1, <3>2
  <2> QED BY <1>0, <1>2, <1>4, <2>1, FulfilRows
<1>5. CASE ReleaseBatch
  <2>1. ASSUME NEW j \in Ids PROVE earnings'[j].status \in Follows(earnings[j].status)
    <3>1. CASE j \in Batch
      <4>1. earnings[j].status = "pending" /\ earnings'[j].status = "available"
        BY <1>0, <1>5, <3>1, ReleaseRows DEF Mature
      <4> QED BY <4>1 DEF Follows
    <3>2. CASE j \notin Batch
      BY <1>0, <1>5, <3>2, ReleaseRows DEF Follows
    <3> QED BY <3>1, <3>2
  <2> QED BY <1>0, <1>2, <1>5, <2>1, ReleaseRows
<1>6. ASSUME NEW u \in Users, Convert(u) PROVE HistoryKept
  <2>1. ASSUME NEW j \in Ids PROVE earnings'[j].status \in Follows(earnings[j].status)
    <3>1. CASE j \in Convertible(u)
      <4>1. earnings[j].status = "available" /\ earnings'[j].status = "converted"
        BY <1>0, <1>6, <3>1, ConvertRows
      <4> QED BY <4>1 DEF Follows
    <3>2. CASE j \notin Convertible(u)
      BY <1>0, <1>6, <3>2, ConvertRows DEF Follows
    <3> QED BY <3>1, <3>2
  <2> QED BY <1>0, <1>2, <1>6, <2>1, ConvertRows
<1>7. ASSUME NEW i \in Ids, ReverseHeld(i) PROVE HistoryKept
  <2>1. ASSUME NEW j \in Ids PROVE earnings'[j].status \in Follows(earnings[j].status)
    <3>1. CASE j = i
      <4>1. earnings[j].status \in {"pending", "available"} /\ earnings'[j].status = "reversed"
        BY <1>0, <1>7, <3>1, ReverseHeldRows
      <4> QED BY <4>1 DEF Follows
    <3>2. CASE j # i
      BY <1>0, <1>7, <3>2, ReverseHeldRows DEF Follows
    <3> QED BY <3>1, <3>2
  <2> QED BY <1>0, <1>2, <1>7, <2>1, ReverseHeldRows
<1>8. ASSUME NEW b \in Users, NEW total \in Totals, NEW stored \in Rates,
             NEW manual \in BOOLEAN, Purchase(b, total, stored, manual)
      PROVE  HistoryKept
  <2>1. CASE Earns(b, total, stored)
    BY <1>0, <1>1, <1>8, <2>1, PurchaseAppends
  <2>2. CASE ~Earns(b, total, stored)
    <3>1. earnings' = earnings
      BY <1>8, <2>2 DEF Purchase
    <3> QED BY <1>3, <3>1
  <2> QED BY <2>1, <2>2
<1>9. ASSUME NEW u \in Users, NEW amount \in Adjustments, NEW k \in Keys,
             AdjustUp(u, amount, k) \/ AdjustDown(u, amount, k)
      PROVE  HistoryKept
  BY <1>0, <1>1, <1>9, AdjustUpAppends, AdjustDownAppends
<1>10. ASSUME NEW i \in Ids, ReverseConverted(i) PROVE HistoryKept
  <2>1. earnings[i].amount > 0
    <3>1. earnings[i].status = "converted" /\ RowOK(i) /\ earnings[i] \in Earning
      BY <1>10 DEF ReverseConverted, TypeInv, RowsOK, TypeOK
    <3> QED BY <3>1 DEF RowOK, Earning
  <2> QED BY <1>0, <1>1, <1>10, <2>1, ReversalAppends
<1> QED
  BY <1>3, <1>4, <1>5, <1>6, <1>7, <1>8, <1>9, <1>10 DEF Next, Adjust, Tick

\* The ledger is append-only: no step of any operation edits an amount, an owner
\* or a settled status, or resets a hold.
THEOREM LedgerIsAppendOnly == Spec => LedgerAppendOnly
<1>1. Init => HoldInv
  BY DEF Init, HoldInv
<1>2. TypeInv /\ HoldInv /\ [Next]_vars => HoldInv'
  BY HoldInvStep
<1>3. Spec => []HoldInv
  BY <1>1, <1>2, TypeInvariant, PTL DEF Spec
<1>4. TypeInv /\ HoldInv /\ [Next]_vars => [HistoryKept]_vars
  BY HistoryKeptStep
<1> QED BY <1>3, <1>4, TypeInvariant, PTL DEF Spec, LedgerAppendOnly

===============================================================================
