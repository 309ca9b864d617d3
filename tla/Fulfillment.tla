------------------------------ MODULE Fulfillment ------------------------------
(***************************************************************************)
(* Manual orders of one customer: bot/web/fulfillment.py, the handlers of  *)
(* the operators' workspace, and bot/handlers/user/order_reply.py, the     *)
(* conversation through which the customer answers.  What the operators    *)
(* say reaches the customer as Mail promises and Outbox does it.           *)
(*                                                                         *)
(* A workspace handler locks its job and is one step.  The filter of a     *)
(* message, the handler behind it and the handler of the Reply button read *)
(* without locks: what they read and what they write are steps apart.      *)
(***************************************************************************)
EXTENDS Mail, FiniteSets, Sequences

CONSTANTS
  Jobs,      \* the manual_fulfillment_jobs of the customer
  Messages,  \* the texts the customer may send
  MaxTalks,  \* bound on the conversation sessions
  MaxCopies  \* bound on the copies of a notification

ASSUME BoundsAssumption == MaxTalks \in Nat /\ MaxCopies \in Nat

VARIABLES
  job,       \* status of each job; its order and item follow it
  about,     \* the job and kind of each notification queued so far
  talks,     \* manual_order_conversation_sessions in the order of their ids
  button,    \* delivered messages that show "Reply to this Order"
  pressed,   \* those whose pressed button passed its checks, not yet committed
  said,      \* the texts sent so far and where their handlers are
  browsing   \* whether the customer's FSM holds a state of another dialogue

desk == <<job, about, talks, button, pressed, said, browsing>>
fulfillmentVars == <<mail, desk>>

FulfillmentTypeOK ==
  /\ job \in [Jobs -> {"queued", "in_progress", "waiting_customer", "completed"}]
  /\ DOMAIN about = {n \in Notes : status[n] # "none"}
  /\ \A n \in DOMAIN about :
       about[n] \in [job : Jobs, kind : {"msg", "verify", "comp"}]
  /\ talks \in Seq([job : Jobs, status : {"active", "closed", "expired"}, lapsed : BOOLEAN])
  /\ pressed \subseteq DOMAIN about /\ button \subseteq DOMAIN about
  /\ DOMAIN said \subseteq Messages
  /\ \A m \in DOMAIN said :
       said[m] \in [phase : {"expiring", "caught", "checked", "filed", "read", "told", "unheard"},
                    talk : 0..Len(talks), open : BOOLEAN, over : BOOLEAN]
  /\ browsing \in BOOLEAN

FulfillmentInit ==
  /\ MailInit
  /\ job = [j \in Jobs |-> "queued"]
  /\ about = <<>>
  /\ talks = <<>>
  /\ button = {}
  /\ pressed = {}
  /\ said = <<>>
  /\ browsing = FALSE

-------------------------------------------------------------------------------
(* The operators.  A page offers what its job allowed when it was loaded, and may be
   stale; what a handler checks again is its guard here. *)

\* The interaction and its notification are inserted by one transaction.
Notify(n, j, kind) ==
  /\ Queue(n)
  /\ about' = [o \in DOMAIN about \union {n} |->
       IF o = n THEN [job |-> j, kind |-> kind] ELSE about[o]]

Start(j) ==
  /\ job[j] = "queued"
  /\ job' = [job EXCEPT ![j] = "in_progress"]
  /\ UNCHANGED <<mail, about, talks, button, pressed, said, browsing>>

Resume(j) ==
  /\ job[j] = "waiting_customer"
  /\ job' = [job EXCEPT ![j] = "in_progress"]
  /\ UNCHANGED <<mail, about, talks, button, pressed, said, browsing>>

\* No lock and no check: a page loaded before the completion still sends.
Message(j, n) ==
  /\ job[j] # "queued"
  /\ Notify(n, j, "msg")
  /\ UNCHANGED <<job, talks, button, pressed, said, browsing>>

RequestVerification(j, n) ==
  /\ job[j] = "in_progress"
  /\ job' = [job EXCEPT ![j] = "waiting_customer"]
  /\ Notify(n, j, "verify")
  /\ UNCHANGED <<talks, button, pressed, said, browsing>>

\* Fault: the second of two operators completes what the first one did.
Started(j) == job[j] # "queued"

\* The page offers it in progress, but the handler takes it from any open status.
Completable(j) == job[j] \in {"in_progress", "waiting_customer"}

Complete(j, n) ==
  /\ Completable(j)
  /\ job' = [job EXCEPT ![j] = "completed"]
  /\ talks' = [k \in DOMAIN talks |->
       IF talks[k].job = j /\ talks[k].status = "active"
       THEN [talks[k] EXCEPT !.status = "closed"] ELSE talks[k]]
  /\ Notify(n, j, "comp")
  /\ UNCHANGED <<button, pressed, said, browsing>>

\* The plaintext leaves once its audit row and read_at are committed.
Reveal(m) ==
  /\ m \in DOMAIN said /\ said[m].phase = "filed"
  /\ said' = [said EXCEPT ![m].phase = "read"]
  /\ UNCHANGED <<mail, job, about, talks, button, pressed, browsing>>

-------------------------------------------------------------------------------
(* The outbox *)

Active == {k \in DOMAIN talks : talks[k].status = "active"}

\* The keyboard of a notification offers the Reply button unless its job's conversation
\* is already open, and never with a completion.
OffersReply(n) ==
  /\ about[n].kind # "comp"
  /\ \A k \in Active : talks[k].job # about[n].job

\* Closing a row only ends its copies, which their bound does as well.
Deliver(n) ==
  /\ copies[n] < MaxCopies
  /\ Copy(n)
  /\ button' = IF OffersReply(n) THEN button \union {n} ELSE button
  /\ UNCHANGED <<job, about, talks, pressed, said, browsing>>

-------------------------------------------------------------------------------
(* The customer *)

\* A menu starts a dialogue, its end clears the state.
Browse ==
  /\ browsing' = ~browsing
  /\ UNCHANGED <<mail, job, about, talks, button, pressed, said>>

\* on_reply_to_order up to its checks of the order and the job, which no lock holds.
PressReply(n) ==
  /\ n \in button \ pressed
  /\ job[about[n].job] # "completed"
  /\ pressed' = pressed \union {n}
  /\ UNCHANGED <<mail, job, about, talks, button, said, browsing>>

\* Fault: the conversations of other orders stay open.
LeftOpen(k, j) == talks[k]

\* Every active session of the customer is locked: the job's own is extended, any other
\* is closed.
Refreshed(k, j) ==
  IF talks[k].status # "active" THEN talks[k]
  ELSE IF talks[k].job = j THEN [talks[k] EXCEPT !.lapsed = FALSE]
  ELSE [talks[k] EXCEPT !.status = "closed"]

\* Once the conversation is open the button goes from its message, unless Telegram
\* refuses the edit.
OpenTalk(n) ==
  LET j == about[n].job
      updated == [k \in DOMAIN talks |-> Refreshed(k, j)]
  IN /\ n \in pressed
     /\ IF \E k \in Active : talks[k].job = j
        THEN talks' = updated
        ELSE /\ Len(talks) < MaxTalks
             /\ talks' = Append(updated, [job |-> j, status |-> "active", lapsed |-> FALSE])
     /\ pressed' = pressed \ {n}
     /\ button' \in {button, button \ {n}}
     /\ UNCHANGED <<mail, job, about, said, browsing>>

\* The partial unique index refuses the session of the later of two presses, or the
\* database fails.
PressFails(n) ==
  /\ n \in pressed
  /\ pressed' = pressed \ {n}
  /\ UNCHANGED <<mail, job, about, talks, button, said, browsing>>

\* Half an hour passes without a word.
Lapse(k) ==
  /\ k \in Active
  /\ ~talks[k].lapsed
  /\ talks' = [talks EXCEPT ![k].lapsed = TRUE]
  /\ UNCHANGED <<mail, job, about, button, pressed, said, browsing>>

\* A text arrives.  StateFilter(None) leaves it to other dialogues, which have no use for
\* it, unless the FSM is empty; ActiveConversationFilter then looks for a conversation.
\* open and over record what was true of the active conversation and its job.
Say(m) ==
  /\ m \notin DOMAIN said
  /\ \E k \in Active \union {0} :
       /\ k = 0 => Active = {}
       /\ LET open == k # 0 /\ ~talks[k].lapsed
              phase == IF browsing \/ k = 0 THEN "unheard"
                       ELSE IF open THEN "caught" ELSE "expiring"
              over == k # 0 /\ job[talks[k].job] = "completed"
          IN said' = [t \in DOMAIN said \union {m} |->
               IF t = m THEN [phase |-> phase, talk |-> k, open |-> open, over |-> over]
               ELSE said[t]]
  /\ UNCHANGED <<mail, job, about, talks, button, pressed, browsing>>

\* The filter's own write: the session may have been extended since it was read.
ExpireTalk(m) ==
  /\ m \in DOMAIN said /\ said[m].phase = "expiring"
  /\ talks' = [talks EXCEPT ![said[m].talk].status = "expired"]
  /\ said' = [said EXCEPT ![m].phase = "unheard"]
  /\ UNCHANGED <<mail, job, about, button, pressed, browsing>>

\* Fault: the handler trusts the conversation and does not look at its job.
TrustsTalk(j) == TRUE

AcceptsReplies(j) == job[j] # "completed"

\* process_order_reply up to its checks: the session the filter caught, then its job.
CheckReply(m) ==
  /\ m \in DOMAIN said /\ said[m].phase = "caught"
  /\ LET talk == talks[said[m].talk]
         fit == talk.status = "active" /\ AcceptsReplies(talk.job)
     IN /\ said' = [said EXCEPT ![m].phase = IF fit THEN "checked" ELSE "told"]
        /\ talks' = IF talk.status = "active" /\ ~AcceptsReplies(talk.job)
                    THEN [talks EXCEPT ![said[m].talk].status = "closed"] ELSE talks
  /\ UNCHANGED <<mail, job, about, button, pressed, browsing>>

\* The reply is stored under the job and the session lives on, or the commit fails and
\* the customer is asked to try again.
FileReply(m) ==
  /\ m \in DOMAIN said /\ said[m].phase = "checked"
  /\ \/ /\ said' = [said EXCEPT ![m].phase = "filed"]
        /\ talks' = [talks EXCEPT ![said[m].talk].lapsed = FALSE]
     \/ /\ said' = [said EXCEPT ![m].phase = "told"]
        /\ UNCHANGED talks
  /\ UNCHANGED <<mail, job, about, button, pressed, browsing>>

-------------------------------------------------------------------------------
Operator ==
  \/ \E j \in Jobs : Start(j) \/ Resume(j)
  \/ \E j \in Jobs, n \in Notes : Message(j, n) \/ RequestVerification(j, n) \/ Complete(j, n)
  \/ \E m \in Messages : Reveal(m)

Customer ==
  \/ Browse
  \/ \E n \in Notes : PressReply(n) \/ OpenTalk(n) \/ PressFails(n)
  \/ \E k \in DOMAIN talks : Lapse(k)
  \/ \E m \in Messages : Say(m) \/ ExpireTalk(m) \/ CheckReply(m) \/ FileReply(m)

FulfillmentNext ==
  Operator \/ Customer \/ \E n \in Notes : Deliver(n)

FulfillmentSpec == FulfillmentInit /\ [][FulfillmentNext]_fulfillmentVars

-------------------------------------------------------------------------------
(* Properties *)

\* Operators complete a job once, however many pages offer it: one completion notice per
\* completed job, none for any other.
CompletedOnce ==
  \A j \in Jobs :
    Cardinality({n \in DOMAIN about : about[n] = [job |-> j, kind |-> "comp"]})
      = IF job[j] = "completed" THEN 1 ELSE 0

\* However presses, lapses, expiries and completions race, the customer has one active
\* conversation at most: ActiveConversationFilter cannot read two.
OneTalk == Cardinality(Active) <= 1

\* A reply that was sent after its job had been completed is never filed, though a press
\* that raced the completion may have left its conversation open.
FiledInTime ==
  \A m \in DOMAIN said : said[m].phase \in {"checked", "filed", "read"} => ~said[m].over

\* "The conversation is now active. Send the verification code or any additional messages
\* directly in this chat." (order_reply.py:177): a text sent while a conversation is open
\* is filed, or its sender is told why not.
DirectlyHeard == \A m \in DOMAIN said : said[m].open => said[m].phase # "unheard"

===============================================================================
