------------------------------- MODULE IntakeDialog -------------------------------
(***************************************************************************)
(* The form of a manual product, from its first question to the purchase:  *)
(* bot/handlers/user/manual_intake.py and the drafts of                    *)
(* bot/database/methods/intake_drafts.py, for one customer.                *)
(*                                                                         *)
(* The bot handles updates concurrently, and only the purchase locks a     *)
(* draft: every other handler reads it in one step and writes what it made *)
(* of its copy in a later one.  A task is one update being handled.        *)
(***************************************************************************)
EXTENDS Integers, Sequences

CONSTANTS
  Goods,      \* the manual products
  Tasks,      \* the updates handled at the same time
  Quantities, \* what the customer orders of a product
  MaxFields,  \* bound on the per-unit fields of a form
  MaxDrafts,  \* bound on the drafts
  MaxEdits    \* bound on the administrators' edits of forms

NoGoods == "none"

ASSUME FormsAssumption ==
  /\ Quantities \subseteq Nat \ {0} /\ Quantities # {}
  /\ NoGoods \notin Goods
  /\ MaxFields \in Nat /\ MaxDrafts \in Nat /\ MaxEdits \in Nat

VARIABLES
  form,    \* the active fields of each product: their number, and a version of the rest
  edits,   \* edits so far
  drafts,  \* checkout_intake_drafts in the order of their ids; of the answers, how many
  orders,  \* the paid orders: the draft, and the form and answers at the purchase
  chat,    \* the customer's FSM: its data, and whether it waits for an answer
  task,    \* what each handler in flight has read
  review   \* the draft whose review was shown last, 0 before the first

vars == <<form, edits, drafts, orders, chat, task, review>>

Idle == [kind |-> "idle"]

\* compute_schema_fingerprint: forms without fields have the same one.
Fingerprint(g) == IF form[g].fields = 0 THEN 0 ELSE form[g].version

\* get_expected_steps, for fields of each unit.
Steps(g, q) == form[g].fields * q

Draft ==
  [goods : Goods, quantity : Quantities, fingerprint : Nat, lapsed : BOOLEAN,
   status : {"pending", "consumed", "cancelled", "expired", "invalidated"},
   step : Nat, answers : Nat]

Order == [draft : Nat, fingerprint : Nat, steps : Nat, answers : Nat]

\* What a handler in flight holds, by its kind; "found" is 0 when there was no draft.
Opening ==
  [kind : {"open"}, goods : Goods, quantity : Quantities, fingerprint : Nat, steps : Nat,
   found : Nat, resumed : BOOLEAN, verdict : {"new", "fit", "expired", "invalidated"},
   step : Nat]

Answering == [kind : {"answer"}, draft : Nat, step : Nat, answers : Nat, steps : Nat]

Leaving ==
  [kind : {"close"}, draft : Nat, status : {"cancelled", "expired", "invalidated"}]

Buying == [kind : {"buy"}, draft : Nat, goods : Goods, quantity : Quantities]

TypeOK ==
  /\ form \in [Goods -> [fields : 0..MaxFields, version : Nat]]
  /\ edits \in 0..MaxEdits
  /\ drafts \in Seq(Draft)
  /\ orders \in Seq(Order)
  /\ \A o \in DOMAIN orders : orders[o].draft \in DOMAIN drafts
  /\ chat \in [goods : Goods \union {NoGoods}, quantity : Quantities, draft : 0..Len(drafts),
               asking : BOOLEAN]
  /\ review \in 0..Len(drafts)
  /\ task \in [Tasks -> {Idle} \union Opening \union Answering \union Leaving \union Buying]
  /\ \A t \in Tasks :
       /\ task[t].kind = "open" =>
            task[t].found \in DOMAIN drafts \/ (task[t].found = 0 /\ task[t].verdict = "new")
       /\ task[t].kind \in {"answer", "close", "buy"} => task[t].draft \in DOMAIN drafts

Init ==
  /\ form \in [Goods -> [fields : 0..MaxFields, version : {1}]]
  /\ \A g, h \in Goods : form[g].fields = form[h].fields => g = h
  /\ edits = 0
  /\ drafts = <<>>
  /\ orders = <<>>
  /\ chat = [goods |-> NoGoods, quantity |-> CHOOSE q \in Quantities : TRUE, draft |-> 0,
             asking |-> FALSE]
  /\ task = [t \in Tasks |-> Idle]
  /\ review = 0

-------------------------------------------------------------------------------
(* Drafts and pages *)

Pending(g) == {d \in DOMAIN drafts : drafts[d].goods = g /\ drafts[d].status = "pending"}

\* The draft that get_or_create_draft finds, by its copy of the row: fit for use, or
\* with the status it is going to leave it in.
Verdict(d, q) ==
  IF drafts[d].lapsed THEN "expired"
  ELSE IF drafts[d].quantity # q \/ drafts[d].fingerprint # Fingerprint(drafts[d].goods)
  THEN "invalidated" ELSE "fit"

NewDraft(g, q, print) ==
  [goods |-> g, quantity |-> q, fingerprint |-> print, lapsed |-> FALSE,
   status |-> "pending", step |-> 0, answers |-> 0]

\* _render_step: the next question, whose draft the FSM then holds, or after the last one
\* the review, which leaves the draft the FSM holds as it is.
Render(d, step, steps, data) ==
  IF step >= steps
  THEN chat' = [data EXCEPT !.asking = FALSE] /\ review' = d
  ELSE chat' = [data EXCEPT !.draft = d, !.asking = TRUE]
       /\ UNCHANGED review

\* Each product's fields are read with its draft.  scalar_one_or_none raises when two
\* drafts are pending: nothing comes of the update then.
Find(t, g, q, resumed) ==
  /\ \E d \in Pending(g) \union {0} :
       /\ d = 0 => Pending(g) = {}
       /\ \A e \in Pending(g) : e = d
       /\ task' = [task EXCEPT ![t] =
            [kind |-> "open", goods |-> g, quantity |-> q, fingerprint |-> Fingerprint(g),
             steps |-> Steps(g, q), found |-> d, resumed |-> resumed,
             verdict |-> IF d = 0 THEN "new" ELSE Verdict(d, q),
             step |-> IF d = 0 THEN 0 ELSE drafts[d].step]]
  /\ UNCHANGED <<form, edits, drafts, orders, review>>

\* start_manual_intake: the FSM takes the product and quantity at once.  A customer who
\* already has an order of the product is asked first, by a page that does not come here.
StartIntake(t, g, q) ==
  /\ task[t] = Idle
  /\ chat' = [chat EXCEPT !.goods = g, !.quantity = q]
  /\ Find(t, g, q, FALSE)

\* "Resume", of this or of an older message.
ResumeIntake(t) ==
  /\ task[t] = Idle
  /\ drafts # <<>> /\ chat.goods # NoGoods
  /\ UNCHANGED chat
  /\ Find(t, chat.goods, chat.quantity, TRUE)

\* The end of get_or_create_draft and of its callers: a draft that was begun before is
\* offered for resumption unless it is being resumed.
OpenDraft(t) ==
  LET w == task[t]
      reused == w.verdict = "fit"
      closed == IF w.verdict \in {"expired", "invalidated"}
                THEN [drafts EXCEPT ![w.found].status = w.verdict] ELSE drafts
      d == IF reused THEN w.found ELSE Len(drafts) + 1
      step == IF reused THEN w.step ELSE 0
  IN /\ w.kind = "open"
     /\ reused \/ Len(drafts) < MaxDrafts
     /\ drafts' = IF reused THEN drafts
                  ELSE Append(closed, NewDraft(w.goods, w.quantity, w.fingerprint))
     /\ IF reused /\ step > 0 /\ w.steps > 0 /\ ~w.resumed
        THEN UNCHANGED <<chat, review>>
        ELSE Render(d, step, w.steps, chat)
     /\ task' = [task EXCEPT ![t] = Idle]
     /\ UNCHANGED <<form, edits, orders>>

\* "Start over": every pending draft of the product goes, a new one comes.
StartOver ==
  LET g == chat.goods
      q == chat.quantity
  IN /\ drafts # <<>> /\ g # NoGoods
     /\ Len(drafts) < MaxDrafts
     /\ drafts' = Append([d \in DOMAIN drafts |->
                            IF d \in Pending(g) THEN [drafts[d] EXCEPT !.status = "invalidated"]
                            ELSE drafts[d]],
                         NewDraft(g, q, Fingerprint(g)))
     /\ Render(Len(drafts) + 1, 0, Steps(g, q), [chat EXCEPT !.asking = FALSE])
     /\ UNCHANGED <<form, edits, orders, task>>

-------------------------------------------------------------------------------
(* Answers *)

Held == chat.draft # 0 /\ drafts[chat.draft].status = "pending"

\* process_draft_answer up to the deletion of what was typed, with a second's pause after
\* a password.  The answer goes to the step of the draft, whatever the customer saw.
\* One that does not validate changes nothing.
ReadAnswer(t) ==
  LET d == chat.draft
      steps == Steps(chat.goods, chat.quantity)
  IN /\ task[t] = Idle
     /\ chat.asking
     /\ IF ~Held
        THEN chat' = [chat EXCEPT !.asking = FALSE] /\ UNCHANGED <<task, review>>
        ELSE IF drafts[d].step >= steps
        THEN Render(d, drafts[d].step, steps, chat) /\ UNCHANGED task
        ELSE /\ task' = [task EXCEPT ![t] =
                  [kind |-> "answer", draft |-> d, step |-> drafts[d].step,
                   answers |-> drafts[d].answers, steps |-> steps]]
             /\ UNCHANGED <<chat, review>>
     /\ UNCHANGED <<form, edits, drafts, orders>>

\* Fault: the step is counted in the database, the answers come from the copy.
StepCounted(w) == drafts[w.draft].step + 1

StepAfter(w) == w.step + 1

\* save_draft_answer writes the copy's answers and step over whatever is there.
SaveAnswer(t) ==
  LET w == task[t]
  IN /\ w.kind = "answer"
     /\ drafts' = [drafts EXCEPT ![w.draft].answers = w.answers + 1,
                                 ![w.draft].step = StepAfter(w)]
     /\ Render(w.draft, w.step + 1, w.steps, chat)
     /\ task' = [task EXCEPT ![t] = Idle]
     /\ UNCHANGED <<form, edits, orders>>

-------------------------------------------------------------------------------
(* Cancelling and paying *)

Closing(d, status) == [kind |-> "close", draft |-> d, status |-> status]

\* The FSM's draft, which need not be the one on the page.
Cancel(t) ==
  /\ task[t] = Idle
  /\ drafts # <<>>
  /\ IF Held
     THEN task' = [task EXCEPT ![t] = Closing(chat.draft, "cancelled")] /\ UNCHANGED chat
     ELSE chat' = [chat EXCEPT !.asking = FALSE] /\ UNCHANGED task
  /\ UNCHANGED <<form, edits, drafts, orders, review>>

\* The write of a draft that was pending when it was read.
CloseDraft(t) ==
  /\ task[t].kind = "close"
  /\ drafts' = [drafts EXCEPT ![task[t].draft].status = task[t].status]
  /\ chat' = [chat EXCEPT !.asking = FALSE]
  /\ task' = [task EXCEPT ![t] = Idle]
  /\ UNCHANGED <<form, edits, orders, review>>

\* The guard check of handle_intake_confirm, from any review shown before.
Confirm(t) ==
  LET d == chat.draft
      verdict == Verdict(d, chat.quantity)
      complete == drafts[d].step >= Steps(chat.goods, chat.quantity)
      other == drafts[d].fingerprint # Fingerprint(chat.goods)
  IN /\ task[t] = Idle
     /\ review # 0 /\ d # 0
     /\ IF ~Held
        THEN chat' = [chat EXCEPT !.asking = FALSE] /\ UNCHANGED task
        ELSE /\ UNCHANGED chat
             /\ IF drafts[d].lapsed
                THEN task' = [task EXCEPT ![t] = Closing(d, "expired")]
                ELSE IF other \/ drafts[d].quantity # chat.quantity
                THEN task' = [task EXCEPT ![t] = Closing(d, "invalidated")]
                ELSE /\ complete
                     /\ task' = [task EXCEPT ![t] =
                          [kind |-> "buy", draft |-> d, goods |-> chat.goods,
                           quantity |-> chat.quantity]]
     /\ UNCHANGED <<form, edits, drafts, orders, review>>

\* Fault: the purchase refuses a draft only if it is consumed.
NotConsumed(d) == drafts[d].status # "consumed"

Payable(d) == drafts[d].status = "pending"

\* Fault: the purchase trusts the check of the handler before it.
AnyForm(d, g) == TRUE

SameForm(d, g) == drafts[d].goods = g /\ drafts[d].fingerprint = Fingerprint(g)

\* buy_item_transaction checks the draft again under its lock, but not that it is complete.
Buy(t) ==
  LET w == task[t]
      d == w.draft
  IN /\ w.kind = "buy"
     /\ Payable(d) /\ SameForm(d, w.goods) /\ drafts[d].quantity = w.quantity
     /\ orders' = Append(orders, [draft |-> d, fingerprint |-> Fingerprint(w.goods),
                                  steps |-> Steps(w.goods, w.quantity),
                                  answers |-> drafts[d].answers])
     /\ drafts' = [drafts EXCEPT ![d].status = "consumed"]
     /\ chat' = [chat EXCEPT !.asking = FALSE]
     /\ task' = [task EXCEPT ![t] = Idle]
     /\ UNCHANGED <<form, edits, review>>

\* A check fails, or the balance, or the transaction: the draft stays as it is.
Refuse(t) ==
  /\ task[t].kind = "buy"
  /\ task' = [task EXCEPT ![t] = Idle]
  /\ UNCHANGED <<form, edits, drafts, orders, chat, review>>

-------------------------------------------------------------------------------
(* Around it *)

\* Either form of the panel leaves the product with n fields.
Revise(g, n) ==
  /\ edits < MaxEdits
  /\ edits' = edits + 1
  /\ n \in 0..MaxFields
  /\ form' = [form EXCEPT ![g] = [fields |-> n, version |-> @.version + 1]]
  /\ UNCHANGED <<drafts, orders, chat, task, review>>

\* A field is added, changed or removed.
EditForm(g) == \E by \in -1..1 : Revise(g, form[g].fields + by)

\* The fields of a template that the product does not have are added at once.
QuickFields(g) == \E by \in 1..MaxFields : Revise(g, form[g].fields + by)

\* A draft outlives its hours.
LapseDraft(d) ==
  /\ drafts[d].status = "pending" /\ ~drafts[d].lapsed
  /\ drafts' = [drafts EXCEPT ![d].lapsed = TRUE]
  /\ UNCHANGED <<form, edits, orders, chat, task, review>>

Next ==
  \/ \E t \in Tasks, g \in Goods, q \in Quantities : StartIntake(t, g, q)
  \/ \E t \in Tasks :
       \/ ResumeIntake(t) \/ OpenDraft(t) \/ ReadAnswer(t) \/ SaveAnswer(t)
       \/ Cancel(t) \/ CloseDraft(t) \/ Confirm(t) \/ Buy(t) \/ Refuse(t)
  \/ StartOver
  \/ \E g \in Goods : EditForm(g) \/ QuickFields(g)
  \/ \E d \in DOMAIN drafts : LapseDraft(d)

Spec == Init /\ [][Next]_vars

-------------------------------------------------------------------------------
(* Properties *)

\* Two answers in flight overwrite each other, but never tear the draft: its step always
\* counts its answers, which get_or_create_draft makes a condition of its use.
StepTellsAnswers == \A d \in DOMAIN drafts : drafts[d].step = drafts[d].answers

\* What is paid for was asked for: the form of a paid order is the one its draft was begun
\* with, however late an administrator edits the product.
PaidForForm ==
  \A o \in DOMAIN orders : orders[o].fingerprint = drafts[orders[o].draft].fingerprint

\* A draft that was paid for, cancelled, expired or invalidated is never paid for again,
\* although a handler may have found it pending just before.
ClosedStaysUnpaid ==
  \A o \in DOMAIN orders' \ DOMAIN orders : drafts[orders'[o].draft].status = "pending"

ClosedNeverPaid == [][ClosedStaysUnpaid]_vars

\* A draft is paid for once, however often its review is confirmed, and although a late
\* cancellation or expiry writes its status over that of the purchase.
PaidOnce == \A o, p \in DOMAIN orders : orders[o].draft = orders[p].draft => o = p

\* "Please complete all required fields." (manual_intake.py:470): no order is paid for
\* with answers missing.
PaidComplete == \A o \in DOMAIN orders : orders[o].answers = orders[o].steps

===============================================================================
