------------------------------- MODULE Reviews -------------------------------
(***************************************************************************)
(* A customer's review of what he bought: the dialog                       *)
(* (handlers/user/shop_and_goods.py), the row and its moderation.          *)
(*                                                                         *)
(* The dialog asks for a rating and a text, shows a preview and stores on  *)
(* Submit what the FSM holds by then, not what the message shows.  Buttons *)
(* of older messages stay tappable: only the FSM state refuses them.       *)
(* Starting a review empties neither the rating nor the text of the one    *)
(* before.                                                                 *)
(*                                                                         *)
(* Items are the items of one customer's completed orders; the product of  *)
(* an item is lost when its row is deleted (ON DELETE SET NULL), and a     *)
(* deleted product takes its reviews with it (CASCADE).  The customer's    *)
(* taps are handled one after another.  The lists of reviews, which only   *)
(* read, are left out.                                                     *)
(***************************************************************************)
EXTENDS Naturals

CONSTANTS Items,    \* order items of the customer
          Goods,    \* ids of products, those not given yet included
          Ratings,
          Texts,    \* comments, the empty one of a skipped comment included
          None      \* no row, no value
ASSUME ReviewsAssumption == None \notin Items \union Goods \union Ratings \union Texts

VARIABLES
  rows,     \* the rows of goods (and of categories) by id
  product,  \* order_items.item_id; None: not bought yet, or deleted
  reviews,  \* the rows of reviews, by order item
  talk,     \* FSM: state and data of the dialog
  sending,  \* a Submit whose checks have passed
  shown     \* what the last preview showed

reviewVars == <<reviews, talk, sending, shown>>

Review == [product : Goods, rating : Ratings, text : Texts, listed : BOOLEAN]

Talk == [ state   : {"none", "rating", "text", "confirm"},
          item    : Items \union {None},
          product : Goods \union {None},
          origin  : {"p", "o", None},
          rating  : Ratings \union {None},
          text    : Texts \union {None} ]

\* A dialog that goes on knows its item, then its rating, then its text.
Known(t) ==
  /\ t.state # "none" => t.item \in Items /\ t.product \in Goods
  /\ t.state \in {"text", "confirm"} => t.rating \in Ratings
  /\ t.state = "confirm" => t.text \in Texts

ASSUME DialogAssumption == None \notin Talk

ReviewsTypeOK ==
  /\ reviews \in [Items -> Review \union {None}]
  /\ talk \in Talk /\ Known(talk)
  /\ sending \in Talk \union {None}
  /\ sending # None => sending.state = "confirm" /\ Known(sending)
  /\ shown \in [item : Items, rating : Ratings, text : Texts] \union {None}

NoTalk == [state |-> "none", item |-> None, product |-> None, origin |-> None,
           rating |-> None, text |-> None]

ReviewsInit == /\ reviews = [i \in Items |-> None]
               /\ talk = NoTalk /\ sending = None /\ shown = None

Eligible(i) == product[i] # None
Awaits(states) == talk.state \in states /\ sending = None

\* Fault: the dialog stays where the review before it left it.
Continued(i, origin) == [talk EXCEPT !.item = i, !.product = product[i], !.origin = origin,
                                     !.state = IF @ = "none" THEN "rating" ELSE @]

Begun(i, origin) == [talk EXCEPT !.item = i, !.product = product[i], !.origin = origin,
                                 !.state = "rating"]

\* From the page of a purchase ("p") or of an order ("o").
StartReview(i, origin) ==
  /\ sending = None /\ Eligible(i) /\ reviews[i] = None
  /\ talk' = Begun(i, origin)
  /\ UNCHANGED <<reviews, sending, shown>>

\* The preview shows the data and waits for Submit.
Preview(data) ==
  /\ talk' = [data EXCEPT !.state = "confirm"]
  /\ shown' = [item |-> data.item, rating |-> data.rating, text |-> data.text]
  /\ UNCHANGED <<reviews, sending>>

\* "Change rating" only shows the keyboard again: the state stays "confirm".
Rate(r) ==
  /\ Awaits({"rating", "confirm"})
  /\ IF talk.state = "confirm" THEN Preview([talk EXCEPT !.rating = r])
     ELSE /\ talk' = [talk EXCEPT !.rating = r, !.state = "text"]
          /\ UNCHANGED <<reviews, sending, shown>>

Comment(t) == Awaits({"text"}) /\ Preview([talk EXCEPT !.text = t])

EditText ==
  /\ Awaits({"confirm"})
  /\ talk' = [talk EXCEPT !.state = "text"]
  /\ UNCHANGED <<reviews, sending, shown>>

\* The purchase and the absence of a review are looked up again.
Submit ==
  /\ Awaits({"confirm"})
  /\ Eligible(talk.item) /\ reviews[talk.item] = None
  /\ sending' = talk
  /\ UNCHANGED <<reviews, talk, shown>>

\* Going back to an order assigns to the callback query, which is frozen: the
\* handler ends there, with the dialog still open.
Left(origin) == IF origin = "o" THEN talk ELSE NoTalk

\* The foreign key refuses a product deleted meanwhile, with the dialog open.
Store ==
  /\ sending # None
  /\ sending' = None
  /\ IF rows[sending.product] = None THEN UNCHANGED <<reviews, talk>>
     ELSE /\ reviews' = [reviews EXCEPT ![sending.item] =
               [product |-> sending.product, rating |-> sending.rating,
                text |-> sending.text, listed |-> FALSE]]
          /\ talk' = Left(sending.origin)
  /\ UNCHANGED shown

CancelReview ==
  /\ Awaits({"rating", "text", "confirm"})
  /\ talk' = Left(talk.origin)
  /\ UNCHANGED <<reviews, sending, shown>>

\* The menu clears the FSM; another dialog replaces the state only.
Elsewhere ==
  /\ sending = None
  /\ talk' \in {NoTalk, [talk EXCEPT !.state = "none"]}
  /\ UNCHANGED <<reviews, sending, shown>>

\* The panel: a review that waits is shown, one that is shown is hidden.  A
\* review that is deleted may be written again.
Moderate(i) ==
  /\ reviews[i] # None
  /\ reviews' = [reviews EXCEPT ![i].listed = ~@]
  /\ UNCHANGED <<talk, sending, shown>>

DeleteReview(i) ==
  /\ reviews[i] # None
  /\ reviews' = [reviews EXCEPT ![i] = None]
  /\ UNCHANGED <<talk, sending, shown>>

Reviewing ==
  \/ \E r \in Ratings : Rate(r)
  \/ \E t \in Texts : Comment(t)
  \/ \E i \in Items : Moderate(i)
  \/ EditText \/ Submit \/ Store \/ CancelReview \/ Elsewhere

\* A review is stored as the customer last saw it: the item, the rating and
\* the text of the preview he submits, whatever reviews he began, left and
\* edited before and whichever old buttons he taps
\* (handlers/user/shop_and_goods.py).
SubmittedAsShown ==
  sending # None =>
    shown = [item |-> sending.item, rating |-> sending.rating, text |-> sending.text]
==============================================================================
