--------------------------- MODULE ManualOrderProofs ---------------------------
(***************************************************************************)
(* Theorems about manual orders: about IntakeDialog, for any products,     *)
(* quantities, fields and handlers in flight, and about Fulfillment, for   *)
(* any jobs, notifications, texts and bounds.                              *)
(***************************************************************************)
EXTENDS Fulfillment, IntakeDialog, SequenceTheorems, FiniteSetTheorems, TLAPS

Talk == [job : Jobs, status : {"active", "closed", "expired"}, lapsed : BOOLEAN]

\* What Mail keeps of the rows, which Fulfillment only inserts.
Rows == status \in [Notes -> {"none", "pending", "sent", "failed"}]

TypeInv == FulfillmentTypeOK /\ Rows

-------------------------------------------------------------------------------
(* Rows *)

LEMMA Rewritten ==
  ASSUME NEW S, NEW s \in Seq(S), NEW t, DOMAIN t = DOMAIN s,
         t = [k \in DOMAIN s |-> t[k]], \A k \in DOMAIN s : t[k] \in S
  PROVE  t \in Seq(S) /\ Len(t) = Len(s)
<1>1. DOMAIN s = 1..Len(s) /\ Len(s) \in Nat
  BY LenProperties
<1>2. t \in [1..Len(s) -> S]
  BY <1>1
<1> QED
  BY <1>1, <1>2, SeqDef, LenProperties

\* A notification is queued once, about one job.
LEMMA Notified ==
  ASSUME TypeInv, NEW n \in Notes, NEW j \in Jobs, NEW kind \in {"msg", "verify", "comp"},
         Notify(n, j, kind)
  PROVE  /\ Rows'
         /\ n \notin DOMAIN about
         /\ DOMAIN about' = {n} \union DOMAIN about
         /\ about'[n] = [job |-> j, kind |-> kind]
         /\ \A o \in DOMAIN about : about'[o] = about[o]
         /\ DOMAIN about' = {o \in Notes : status'[o] # "none"}
         /\ \A o \in DOMAIN about' :
              about'[o] \in [job : Jobs, kind : {"msg", "verify", "comp"}]
<1> DEFINE r == [job |-> j, kind |-> kind]
<1>1. status[n] = "none" /\ status' = [status EXCEPT ![n] = "pending"] /\ about' = [o \in DOMAIN about \union {n} |-> IF o = n THEN r ELSE about[o]]
  BY DEF Notify, Queue
<1>2. DOMAIN about = {o \in Notes : status[o] # "none"} /\ status \in [Notes -> {"none", "pending", "sent", "failed"}]
  BY DEF TypeInv, FulfillmentTypeOK, Rows
<1>3. /\ DOMAIN about' = {n} \union DOMAIN about
      /\ about'[n] = r
      /\ \A z \in DOMAIN about : z # n => about'[z] = about[z]
  BY <1>1
<1>4. n \notin DOMAIN about /\ \A o \in DOMAIN about : about'[o] = about[o]
  BY <1>1, <1>2, <1>3
<1>5. Rows' /\ DOMAIN about' = {o \in Notes : status'[o] # "none"}
  BY <1>1, <1>2, <1>3 DEF Rows
<1>6. \A o \in DOMAIN about' : about'[o] \in [job : Jobs, kind : {"msg", "verify", "comp"}]
  <2>1. \A o \in DOMAIN about : about[o] \in [job : Jobs, kind : {"msg", "verify", "comp"}]
    BY DEF TypeInv, FulfillmentTypeOK
  <2>2. r \in [job : Jobs, kind : {"msg", "verify", "comp"}]
    OBVIOUS
  <2> QED
    BY <1>3, <1>4, <2>1, <2>2
<1> QED
  BY <1>3, <1>4, <1>5, <1>6

-------------------------------------------------------------------------------
(* Conversations *)

\* The conversations that were there are there still, about the same jobs, and none of
\* them becomes active again.
TalksKept ==
  /\ talks' \in Seq(Talk)
  /\ Len(talks') >= Len(talks)
  /\ \A k \in DOMAIN talks :
       /\ talks'[k].job = talks[k].job
       /\ talks'[k].status = "active" => talks[k].status = "active"

\* A conversation that is new is the only active one.
OnlyNewActive ==
  \A k \in DOMAIN talks' \ DOMAIN talks : \A l \in DOMAIN talks' :
    talks'[k].status = "active" /\ talks'[l].status = "active" => k = l

TalksMove == TalksKept /\ OnlyNewActive

LEMMA TalkTyped ==
  ASSUME TypeInv
  PROVE  \A k \in DOMAIN talks : talks[k] \in Talk
<1>1. talks \in Seq(Talk)
  BY DEF TypeInv, FulfillmentTypeOK, Talk
<1>2. DOMAIN talks = 1..Len(talks)
  BY <1>1, LenProperties
<1> QED
  BY <1>1, <1>2, ElementOfSeq

LEMMA TalksSame ==
  ASSUME TypeInv, UNCHANGED talks
  PROVE  TalksMove
<1>1. talks \in Seq(Talk)
  BY DEF TypeInv, FulfillmentTypeOK, Talk
<1> QED
  BY <1>1, LenProperties DEF TalksMove, TalksKept, OnlyNewActive

\* Rows rewritten in place.
LEMMA TalksRewritten ==
  ASSUME TypeInv, DOMAIN talks' = DOMAIN talks, talks' = [k \in DOMAIN talks |-> talks'[k]],
         \A k \in DOMAIN talks :
           /\ talks'[k] \in Talk
           /\ talks'[k].job = talks[k].job
           /\ talks'[k].status = "active" => talks[k].status = "active"
  PROVE  TalksMove
<1>1. talks \in Seq(Talk)
  BY DEF TypeInv, FulfillmentTypeOK, Talk
<1>2. talks' \in Seq(Talk) /\ Len(talks') = Len(talks)
  BY <1>1, Rewritten
<1> QED
  BY <1>1, <1>2, LenProperties DEF TalksMove, TalksKept, OnlyNewActive

LEMMA CompleteMoves ==
  ASSUME TypeInv, NEW j \in Jobs, NEW n \in Notes, Complete(j, n)
  PROVE  TalksMove
<1> DEFINE new(k) == IF talks[k].job = j /\ talks[k].status = "active"
                     THEN [talks[k] EXCEPT !.status = "closed"] ELSE talks[k]
<1>1. talks' = [k \in DOMAIN talks |-> new(k)]
  BY DEF Complete
<1>2. \A k \in DOMAIN talks : talks[k] \in Talk
  BY TalkTyped
<1>3. \A k \in DOMAIN talks :
        new(k) \in Talk /\ new(k).job = talks[k].job /\ (new(k).status = "active" => talks[k].status = "active")
  BY <1>2 DEF Talk
<1> HIDE DEF new
<1> QED
  BY <1>1, <1>3, TalksRewritten

\* One field of one row.
LEMMA TalkRewritten ==
  ASSUME TypeInv, NEW i \in DOMAIN talks, NEW r \in Talk, talks' = [talks EXCEPT ![i] = r],
         r.job = talks[i].job, r.status = "active" => talks[i].status = "active"
  PROVE  TalksMove
<1>1. \A k \in DOMAIN talks : talks[k] \in Talk
  BY TalkTyped
<1>2. talks = [k \in DOMAIN talks |-> talks[k]]
  BY LenProperties DEF TypeInv, FulfillmentTypeOK
<1>3. talks' = [k \in DOMAIN talks |-> IF k = i THEN r ELSE talks[k]]
  BY <1>2
<1> QED
  BY <1>1, <1>3, TalksRewritten

LEMMA RefreshedRow ==
  ASSUME TypeInv, NEW k \in DOMAIN talks, NEW j \in Jobs
  PROVE  /\ Refreshed(k, j) \in Talk
         /\ Refreshed(k, j).job = talks[k].job
         /\ Refreshed(k, j).status = "active" => talks[k].status = "active" /\ talks[k].job = j
<1>1. talks[k] \in Talk
  BY TalkTyped
<1> QED
  BY <1>1 DEF Talk, Refreshed

LEMMA OpenMoves ==
  ASSUME TypeInv, NEW n \in Notes, OpenTalk(n)
  PROVE  TalksMove
<1> DEFINE j == about[n].job
           updated == [k \in DOMAIN talks |-> Refreshed(k, j)]
           fresh == [job |-> j, status |-> "active", lapsed |-> FALSE]
<1>1. j \in Jobs
  <2>1. n \in DOMAIN about
    BY DEF OpenTalk, TypeInv, FulfillmentTypeOK
  <2> QED
    BY <2>1 DEF TypeInv, FulfillmentTypeOK
<1>2. \A k \in DOMAIN talks :
        /\ updated[k] \in Talk
        /\ updated[k].job = talks[k].job
        /\ updated[k].status = "active" => talks[k].status = "active" /\ talks[k].job = j
  BY <1>1, RefreshedRow
<1>3. CASE \E k \in Active : talks[k].job = j
  <2>1. talks' = updated
    BY <1>3 DEF OpenTalk
  <2> QED
    BY <1>2, <2>1, TalksRewritten
<1>4. CASE ~\E k \in Active : talks[k].job = j
  <2>1. talks' = Append(updated, fresh)
    BY <1>4 DEF OpenTalk
  <2>2. talks \in Seq(Talk) /\ DOMAIN talks = 1..Len(talks) /\ Len(talks) \in Nat
    BY LenProperties DEF TypeInv, FulfillmentTypeOK, Talk
  <2>3. updated \in Seq(Talk) /\ Len(updated) = Len(talks)
    <3>1. updated = [k \in DOMAIN talks |-> updated[k]] /\ DOMAIN updated = DOMAIN talks
      OBVIOUS
    <3> HIDE DEF updated
    <3> QED
      BY <1>2, <2>2, <3>1, Rewritten
  <2>4. fresh \in Talk /\ fresh.status = "active"
    BY <1>1 DEF Talk
  <2>5. \A k \in DOMAIN talks : updated[k].status # "active"
    BY <1>2, <1>4 DEF Active
  <2> HIDE DEF updated, fresh
  <2>6. /\ talks' \in Seq(Talk) /\ Len(talks') = Len(talks) + 1
        /\ \A k \in 1..Len(talks) : talks'[k] = updated[k]
    BY <2>1, <2>3, <2>4, AppendProperties
  <2>7. DOMAIN talks' = 1..(Len(talks) + 1)
    BY <2>6, LenProperties
  <2>8. TalksKept
    BY <1>2, <2>2, <2>6 DEF TalksKept
  <2>9. OnlyNewActive
    <3>1. \A k \in DOMAIN talks' : talks'[k].status = "active" => k = Len(talks) + 1
      BY <2>2, <2>5, <2>6, <2>7
    <3> QED
      BY <3>1 DEF OnlyNewActive
  <2> QED
    BY <2>8, <2>9 DEF TalksMove
<1> QED
  BY <1>3, <1>4

LEMMA TalksStep ==
  ASSUME TypeInv, \A m \in DOMAIN said : said[m].phase \in {"expiring", "caught", "checked"} => said[m].talk # 0,
         [FulfillmentNext]_fulfillmentVars
  PROVE  TalksMove
<1>1. \A m \in DOMAIN said : said[m].phase \in {"expiring", "caught", "checked"} => said[m].talk \in DOMAIN talks
  BY LenProperties DEF TypeInv, FulfillmentTypeOK
<1>2. \A k \in DOMAIN talks : talks[k] \in Talk
  BY TalkTyped
<1>3. CASE UNCHANGED fulfillmentVars
  BY <1>3, TalksSame DEF fulfillmentVars, desk
<1>4. CASE Operator
  <2>1. ASSUME NEW j \in Jobs, NEW n \in Notes, Complete(j, n)
        PROVE  TalksMove
    BY <2>1, CompleteMoves
  <2> QED
    BY <1>4, <2>1, TalksSame DEF Operator, Start, Resume, Message, RequestVerification, Reveal
<1>5. CASE Customer
  <2>1. ASSUME NEW n \in Notes, OpenTalk(n)
        PROVE  TalksMove
    BY <2>1, OpenMoves
  <2>2. ASSUME NEW k \in DOMAIN talks, Lapse(k)
        PROVE  TalksMove
    <3> DEFINE r == [talks[k] EXCEPT !.lapsed = TRUE]
    <3>1. r \in Talk /\ r.job = talks[k].job /\ r.status = talks[k].status
      BY <1>2 DEF Talk
    <3>2. talks' = [talks EXCEPT ![k] = r]
      BY <2>2 DEF Lapse
    <3> HIDE DEF r
    <3> QED
      BY <3>1, <3>2, TalkRewritten
  <2>3. ASSUME NEW m \in Messages, ExpireTalk(m)
        PROVE  TalksMove
    <3> DEFINE i == said[m].talk
               r == [talks[i] EXCEPT !.status = "expired"]
    <3>1. i \in DOMAIN talks
      BY <1>1, <2>3 DEF ExpireTalk
    <3>2. r \in Talk /\ r.job = talks[i].job /\ r.status = "expired"
      BY <1>2, <3>1 DEF Talk
    <3>3. talks' = [talks EXCEPT ![i] = r]
      BY <2>3 DEF ExpireTalk
    <3> HIDE DEF r, i
    <3> QED
      BY <3>1, <3>2, <3>3, TalkRewritten
  <2>4. ASSUME NEW m \in Messages, CheckReply(m)
        PROVE  TalksMove
    <3> DEFINE i == said[m].talk
               r == [talks[i] EXCEPT !.status = "closed"]
    <3>1. i \in DOMAIN talks
      BY <1>1, <2>4 DEF CheckReply
    <3>2. r \in Talk /\ r.job = talks[i].job /\ r.status = "closed"
      BY <1>2, <3>1 DEF Talk
    <3>3. talks' = [talks EXCEPT ![i] = r] \/ talks' = talks
      BY <2>4 DEF CheckReply
    <3> HIDE DEF r, i
    <3> QED
      BY <3>1, <3>2, <3>3, TalkRewritten, TalksSame
  <2>5. ASSUME NEW m \in Messages, FileReply(m)
        PROVE  TalksMove
    <3> DEFINE i == said[m].talk
               r == [talks[i] EXCEPT !.lapsed = FALSE]
    <3>1. i \in DOMAIN talks
      BY <1>1, <2>5 DEF FileReply
    <3>2. r \in Talk /\ r.job = talks[i].job /\ r.status = talks[i].status
      BY <1>2, <3>1 DEF Talk
    <3>3. talks' = [talks EXCEPT ![i] = r] \/ talks' = talks
      BY <2>5 DEF FileReply
    <3> HIDE DEF r, i
    <3> QED
      BY <3>1, <3>2, <3>3, TalkRewritten, TalksSame
  <2> QED
    BY <1>5, <2>1, <2>2, <2>3, <2>4, <2>5, TalksSame DEF Customer, Browse, PressReply, PressFails, Say
<1>6. ASSUME NEW n \in Notes, Deliver(n)
      PROVE  TalksMove
  BY <1>6, TalksSame DEF Deliver
<1> QED
  BY <1>3, <1>4, <1>5, <1>6 DEF FulfillmentNext

-------------------------------------------------------------------------------
(* Types *)

\* A text that is in a handler belongs to a conversation, and so does one that was sent
\* after the completion of its job; that job stays completed.
Known ==
  \A m \in DOMAIN said :
    /\ said[m].phase \in {"expiring", "caught", "checked"} => said[m].talk # 0
    /\ said[m].over => said[m].talk # 0 /\ job[talks[said[m].talk].job] = "completed"

\* No step takes a job out of its completion.
JobsKept ==
  /\ job' \in [Jobs -> {"queued", "in_progress", "waiting_customer", "completed"}]
  /\ \A j \in Jobs : job[j] = "completed" => job'[j] = "completed"

LEMMA JobsStep ==
  ASSUME TypeInv, [FulfillmentNext]_fulfillmentVars
  PROVE  JobsKept
<1>1. job \in [Jobs -> {"queued", "in_progress", "waiting_customer", "completed"}]
  BY DEF TypeInv, FulfillmentTypeOK
<1>2. CASE UNCHANGED job
  BY <1>1, <1>2 DEF JobsKept
<1>3. ASSUME NEW j \in Jobs, Start(j)
      PROVE  JobsKept
  BY <1>1, <1>3 DEF JobsKept, Start
<1>4. ASSUME NEW j \in Jobs, Resume(j)
      PROVE  JobsKept
  BY <1>1, <1>4 DEF JobsKept, Resume
<1>5. ASSUME NEW j \in Jobs, NEW n \in Notes, RequestVerification(j, n)
      PROVE  JobsKept
  BY <1>1, <1>5 DEF JobsKept, RequestVerification
<1>6. ASSUME NEW j \in Jobs, NEW n \in Notes, Complete(j, n)
      PROVE  JobsKept
  BY <1>1, <1>6 DEF JobsKept, Complete
<1> QED
  BY <1>2, <1>3, <1>4, <1>5, <1>6
  DEF FulfillmentNext, Operator, Customer, Message, Reveal, Deliver, Browse, PressReply, OpenTalk,
      PressFails, Lapse, Say, ExpireTalk, CheckReply, FileReply,
      fulfillmentVars, desk

\* Notifications are about a job, the buttons are on notifications.
NotesTyped ==
  /\ Rows
  /\ DOMAIN about = {n \in Notes : status[n] # "none"}
  /\ \A n \in DOMAIN about : about[n] \in [job : Jobs, kind : {"msg", "verify", "comp"}]
  /\ pressed \subseteq DOMAIN about /\ button \subseteq DOMAIN about

LEMMA NotesStep ==
  ASSUME TypeInv, [FulfillmentNext]_fulfillmentVars
  PROVE  NotesTyped'
<1>1. NotesTyped
  BY DEF TypeInv, FulfillmentTypeOK, NotesTyped
<1>2. CASE UNCHANGED <<mail, about, pressed, button>>
  BY <1>1, <1>2 DEF NotesTyped, Rows, mail
<1>3. ASSUME NEW n \in Notes, NEW j \in Jobs, NEW kind \in {"msg", "verify", "comp"},
             Notify(n, j, kind), UNCHANGED <<pressed, button>>
      PROVE  NotesTyped'
  BY <1>1, <1>3, Notified DEF NotesTyped
<1>4. ASSUME NEW n \in Notes, Deliver(n)
      PROVE  NotesTyped'
  BY <1>1, <1>4 DEF NotesTyped, Rows, Deliver, Copy
<1>5. ASSUME NEW n \in Notes, PressReply(n) \/ OpenTalk(n) \/ PressFails(n)
      PROVE  NotesTyped'
  <2>1. UNCHANGED <<status, about>> /\ button' \subseteq button /\ pressed' \subseteq pressed \union button
    <3>1. CASE PressReply(n)
      BY <3>1 DEF PressReply, mail
    <3>2. CASE OpenTalk(n)
      BY <3>2 DEF OpenTalk, mail
    <3>3. CASE PressFails(n)
      BY <3>3 DEF PressFails, mail
    <3> QED
      BY <1>5, <3>1, <3>2, <3>3
  <2> QED
    BY <1>1, <2>1 DEF NotesTyped, Rows
<1>6. CASE Operator
  <2>1. ASSUME NEW j \in Jobs, NEW n \in Notes, Message(j, n) \/ RequestVerification(j, n) \/ Complete(j, n)
        PROVE  NotesTyped'
    BY <1>3, <2>1 DEF Message, RequestVerification, Complete
  <2> QED
    BY <1>2, <1>6, <2>1 DEF Operator, Start, Resume, Reveal
<1>7. CASE Customer
  BY <1>2, <1>5, <1>7 DEF Customer, Browse, Lapse, Say, ExpireTalk, CheckReply, FileReply
<1> QED
  BY <1>2, <1>4, <1>6, <1>7 DEF FulfillmentNext, fulfillmentVars, desk

Text(last) ==
  [phase : {"expiring", "caught", "checked", "filed", "read", "told", "unheard"},
   talk : 0..last, open : BOOLEAN, over : BOOLEAN]

\* A text moves on without its sender's moment changing, or it is a new one.
Moves(m) ==
  \E p \in {"expiring", "caught", "checked", "filed", "read", "told", "unheard"} :
    said' = [said EXCEPT ![m].phase = p]

LEMMA MoveTyped ==
  ASSUME DOMAIN said \subseteq Messages, \A t \in DOMAIN said : said[t] \in Text(Len(talks)),
         NEW m \in DOMAIN said, Moves(m)
  PROVE  /\ DOMAIN said' = DOMAIN said
         /\ \A t \in DOMAIN said :
              /\ said'[t] \in Text(Len(talks))
              /\ said'[t].talk = said[t].talk /\ said'[t].over = said[t].over
              /\ t # m => said'[t] = said[t]
BY DEF Moves, Text

LEMMA SayTyped ==
  ASSUME TypeInv, NEW m \in Messages, Say(m)
  PROVE  /\ m \notin DOMAIN said
         /\ DOMAIN said' = DOMAIN said \union {m}
         /\ \A t \in DOMAIN said : said'[t] = said[t]
         /\ said'[m] \in Text(Len(talks))
         /\ said'[m].phase \in {"unheard", "caught", "expiring"}
         /\ said'[m].phase # "unheard" => said'[m].talk # 0
         /\ said'[m].over =>
              said'[m].talk # 0 /\ job[talks[said'[m].talk].job] = "completed"
<1>1. PICK k \in Active \union {0} :
        LET open == k # 0 /\ ~talks[k].lapsed
            phase == IF browsing \/ k = 0 THEN "unheard" ELSE IF open THEN "caught" ELSE "expiring"
            over == k # 0 /\ job[talks[k].job] = "completed"
        IN said' = [t \in DOMAIN said \union {m} |->
             IF t = m THEN [phase |-> phase, talk |-> k, open |-> open, over |-> over] ELSE said[t]]
  BY DEF Say
<1> DEFINE open == k # 0 /\ ~talks[k].lapsed
           phase == IF browsing \/ k = 0 THEN "unheard" ELSE IF open THEN "caught" ELSE "expiring"
           over == k # 0 /\ job[talks[k].job] = "completed"
           r == [phase |-> phase, talk |-> k, open |-> open, over |-> over]
<1>2. m \notin DOMAIN said
  BY DEF Say
<1>3. said' = [t \in DOMAIN said \union {m} |-> IF t = m THEN r ELSE said[t]]
  BY <1>1
<1>4. k \in 0..Len(talks)
  <2>1. talks \in Seq(Talk)
    BY DEF TypeInv, FulfillmentTypeOK, Talk
  <2>2. DOMAIN talks = 1..Len(talks) /\ Len(talks) \in Nat
    BY <2>1, LenProperties
  <2> QED
    BY <1>1, <2>2 DEF Active
<1>5. open \in BOOLEAN /\ over \in BOOLEAN
  OBVIOUS
<1>6. /\ phase \in {"unheard", "caught", "expiring"}
      /\ phase # "unheard" => k # 0
  OBVIOUS
<1>7. over => k # 0 /\ job[talks[k].job] = "completed"
  OBVIOUS
<1> HIDE DEF open, phase, over
<1>8. r \in Text(Len(talks)) /\ r.phase = phase /\ r.talk = k /\ r.over = over
  BY <1>4, <1>5, <1>6 DEF Text
<1> HIDE DEF r
<1>9. DOMAIN said' = DOMAIN said \union {m} /\ said'[m] = r /\ \A t \in DOMAIN said : said'[t] = said[t]
  BY <1>2, <1>3
<1> QED
  BY <1>2, <1>6, <1>7, <1>8, <1>9

LEMMA TextsStep ==
  ASSUME TypeInv, Known, [FulfillmentNext]_fulfillmentVars
  PROVE  /\ DOMAIN said \subseteq DOMAIN said' /\ DOMAIN said' \subseteq Messages
         /\ \A t \in DOMAIN said' : said'[t] \in Text(Len(talks))
         /\ \A t \in DOMAIN said :
              said'[t].talk = said[t].talk /\ said'[t].over = said[t].over
         /\ \A t \in DOMAIN said' :
              /\ said'[t].phase \in {"expiring", "caught", "checked"} => said'[t].talk # 0
              /\ t \notin DOMAIN said => said'[t].phase \in {"unheard", "caught", "expiring"}
              /\ t \notin DOMAIN said /\ said'[t].over =>
                   said'[t].talk # 0 /\ job[talks[said'[t].talk].job] = "completed"
<1> DEFINE Goal == 
         /\ DOMAIN said \subseteq DOMAIN said' /\ DOMAIN said' \subseteq Messages
         /\ \A t \in DOMAIN said' : said'[t] \in Text(Len(talks))
         /\ \A t \in DOMAIN said :
              said'[t].talk = said[t].talk /\ said'[t].over = said[t].over
         /\ \A t \in DOMAIN said' :
              /\ said'[t].phase \in {"expiring", "caught", "checked"} => said'[t].talk # 0
              /\ t \notin DOMAIN said => said'[t].phase \in {"unheard", "caught", "expiring"}
              /\ t \notin DOMAIN said /\ said'[t].over =>
                   said'[t].talk # 0 /\ job[talks[said'[t].talk].job] = "completed"
<1> SUFFICES Goal
  OBVIOUS
<1>1. DOMAIN said \subseteq Messages /\ \A t \in DOMAIN said : said[t] \in Text(Len(talks))
  BY DEF TypeInv, FulfillmentTypeOK, Text
<1>2. \A t \in DOMAIN said : said[t].phase \in {"expiring", "caught", "checked"} => said[t].talk # 0
  BY DEF Known
<1>3. CASE UNCHANGED said
  BY <1>1, <1>2, <1>3
<1>4. ASSUME NEW m \in Messages, Say(m)
      PROVE  Goal
  <2>1. /\ m \notin DOMAIN said
        /\ DOMAIN said' = DOMAIN said \union {m}
        /\ \A t \in DOMAIN said : said'[t] = said[t]
        /\ said'[m] \in Text(Len(talks))
        /\ said'[m].phase \in {"unheard", "caught", "expiring"}
        /\ said'[m].phase # "unheard" => said'[m].talk # 0
        /\ said'[m].over => said'[m].talk # 0 /\ job[talks[said'[m].talk].job] = "completed"
    BY <1>4, SayTyped
  <2>2. \A t \in DOMAIN said' : said'[t] \in Text(Len(talks))
    BY <1>1, <2>1
  <2>3. \A t \in DOMAIN said' : said'[t].phase \in {"expiring", "caught", "checked"} => said'[t].talk # 0
    BY <1>2, <2>1
  <2> QED
    BY <1>1, <2>1, <2>2, <2>3
<1>5. ASSUME NEW m \in DOMAIN said, Moves(m), said'[m].phase \in {"expiring", "caught", "checked"} => said[m].talk # 0
      PROVE  Goal
  BY <1>1, <1>2, <1>5, MoveTyped
<1>6. ASSUME NEW m \in Messages, Reveal(m)
      PROVE  Goal
  <2>1. m \in DOMAIN said /\ said' = [said EXCEPT ![m].phase = "read"]
    BY <1>6 DEF Reveal
  <2>2. said'[m].phase = "read"
    BY <1>1, <2>1 DEF Text
  <2> QED
    BY <1>5, <2>1, <2>2 DEF Moves
<1>7. ASSUME NEW m \in Messages, ExpireTalk(m)
      PROVE  Goal
  <2>1. m \in DOMAIN said /\ said[m].talk # 0 /\ said' = [said EXCEPT ![m].phase = "unheard"]
    BY <1>2, <1>7 DEF ExpireTalk
  <2> QED
    BY <1>5, <2>1 DEF Moves
<1>8. ASSUME NEW m \in Messages, CheckReply(m)
      PROVE  Goal
  <2>1. m \in DOMAIN said /\ said[m].talk # 0 /\ Moves(m)
    BY <1>2, <1>8 DEF CheckReply, Moves
  <2> QED
    BY <1>5, <2>1
<1>9. ASSUME NEW m \in Messages, FileReply(m)
      PROVE  Goal
  <2>1. m \in DOMAIN said /\ said[m].talk # 0 /\ Moves(m)
    BY <1>2, <1>9 DEF FileReply, Moves
  <2> QED
    BY <1>5, <2>1
<1> HIDE DEF Goal
<1>10. CASE Operator
  <2>1. Goal \/ UNCHANGED said
    BY <1>6, <1>10 DEF Operator, Start, Resume, Message, RequestVerification, Complete
  <2> QED
    BY <1>3, <2>1
<1>11. CASE Customer
  <2>1. Goal \/ UNCHANGED said
    BY <1>4, <1>7, <1>8, <1>9, <1>11 DEF Customer, Browse, PressReply, OpenTalk, PressFails, Lapse
  <2> QED
    BY <1>3, <2>1
<1>12. CASE UNCHANGED fulfillmentVars \/ \E n \in Notes : Deliver(n)
  BY <1>3, <1>12 DEF Deliver, fulfillmentVars, desk
<1> QED
  BY <1>10, <1>11, <1>12 DEF FulfillmentNext

Inv == TypeInv /\ Known

LEMMA TalkInvInit ==
  ASSUME FulfillmentInit
  PROVE  Inv
<1>1. talks \in Seq(Talk) /\ talks = <<>>
  BY EmptySeq DEF FulfillmentInit
<1>2. DOMAIN about = {} /\ DOMAIN said = {}
  BY DEF FulfillmentInit
<1>3. status = [n \in Notes |-> "none"]
  BY DEF FulfillmentInit, MailInit
<1> QED
  BY <1>1, <1>2, <1>3 DEF FulfillmentInit, Inv, TypeInv, FulfillmentTypeOK, Rows, Known, Talk

LEMMA InvStep ==
  ASSUME Inv, [FulfillmentNext]_fulfillmentVars
  PROVE  Inv' /\ JobsKept /\ TalksMove
<1>1. TypeInv /\ Known
  BY DEF Inv
<1>2. TalksMove
  BY <1>1, TalksStep DEF Known
<1>3. JobsKept
  BY <1>1, JobsStep
<1>4. NotesTyped'
  BY <1>1, NotesStep
<1>5. DOMAIN said \subseteq DOMAIN said' /\ DOMAIN said' \subseteq Messages
  BY <1>1, TextsStep
<1>6. \A t \in DOMAIN said' : said'[t] \in Text(Len(talks))
  BY <1>1, TextsStep
<1>7. \A t \in DOMAIN said : said'[t].talk = said[t].talk /\ said'[t].over = said[t].over
  BY <1>1, TextsStep
<1>8. \A t \in DOMAIN said' :
        /\ said'[t].phase \in {"expiring", "caught", "checked"} => said'[t].talk # 0
        /\ t \notin DOMAIN said /\ said'[t].over =>
             said'[t].talk # 0 /\ job[talks[said'[t].talk].job] = "completed"
  BY <1>1, TextsStep
<1>9. talks \in Seq(Talk) /\ talks' \in Seq(Talk) /\ Len(talks') >= Len(talks)
  BY <1>1, <1>2 DEF TypeInv, FulfillmentTypeOK, Talk, TalksMove, TalksKept
<1>10. /\ Len(talks) \in Nat /\ Len(talks') \in Nat
       /\ DOMAIN talks = 1..Len(talks) /\ DOMAIN talks' = 1..Len(talks')
  BY <1>9, LenProperties
<1>11. \A t \in DOMAIN said' : said'[t] \in Text(Len(talks'))
  <2>1. 0..Len(talks) \subseteq 0..Len(talks')
    BY <1>9, <1>10
  <2> QED
    BY <1>6, <2>1 DEF Text
<1>12. browsing' \in BOOLEAN
  <2>1. browsing \in BOOLEAN
    BY <1>1 DEF TypeInv, FulfillmentTypeOK
  <2>2. CASE UNCHANGED browsing
    BY <2>1, <2>2
  <2>3. CASE Browse
    BY <2>3 DEF Browse
  <2> QED
    BY <2>2, <2>3
    DEF FulfillmentNext, Operator, Customer, Start, Resume, Message, RequestVerification, Complete,
        Reveal, Deliver, PressReply, OpenTalk, PressFails, Lapse, Say, ExpireTalk, CheckReply,
        FileReply, fulfillmentVars, desk
<1>13. TypeInv'
  BY <1>3, <1>4, <1>5, <1>9, <1>11, <1>12
  DEF TypeInv, FulfillmentTypeOK, JobsKept, NotesTyped, Talk, Text
<1>14. Known'
  <2>1. SUFFICES ASSUME NEW t \in DOMAIN said', said'[t].over
                 PROVE  said'[t].talk # 0 /\ job'[talks'[said'[t].talk].job] = "completed"
    BY <1>8 DEF Known
  <2>2. said'[t].talk # 0 /\ job[talks[said'[t].talk].job] = "completed"
    BY <1>1, <1>7, <1>8, <2>1 DEF Known
  <2>3. said'[t].talk \in DOMAIN talks
    BY <1>6, <1>10, <2>2 DEF Text
  <2>4. talks'[said'[t].talk].job = talks[said'[t].talk].job
    BY <1>2, <2>3 DEF TalksMove, TalksKept
  <2>5. talks[said'[t].talk].job \in Jobs
    BY <1>1, <2>3, TalkTyped DEF Talk
  <2> QED
    BY <1>3, <2>2, <2>4, <2>5 DEF JobsKept
<1> QED
  BY <1>2, <1>3, <1>13, <1>14 DEF Inv

\* FulfillmentTypeOK: whatever handlers race, every job, notification, conversation and
\* text stays well-formed, and buttons are only on notifications that exist.
THEOREM FulfillmentTypeCorrect == FulfillmentSpec => []FulfillmentTypeOK
<1>1. FulfillmentInit => Inv
  BY TalkInvInit
<1>2. Inv /\ [FulfillmentNext]_fulfillmentVars => Inv'
  BY InvStep
<1>3. Inv => FulfillmentTypeOK
  BY DEF Inv, TypeInv
<1> QED
  BY <1>1, <1>2, <1>3, PTL DEF FulfillmentSpec

-------------------------------------------------------------------------------
(* One conversation *)

Single ==
  \A k \in DOMAIN talks, l \in DOMAIN talks :
    talks[k].status = "active" /\ talks[l].status = "active" => k = l

LEMMA SingleKept ==
  ASSUME Single, TalksMove
  PROVE  Single'
<1>1. SUFFICES ASSUME NEW k \in DOMAIN talks', NEW l \in DOMAIN talks',
                      talks'[k].status = "active", talks'[l].status = "active"
               PROVE  k = l
  BY DEF Single
<1>2. CASE k \in DOMAIN talks /\ l \in DOMAIN talks
  BY <1>1, <1>2 DEF Single, TalksMove, TalksKept
<1>3. CASE k \notin DOMAIN talks \/ l \notin DOMAIN talks
  BY <1>1, <1>3 DEF TalksMove, OnlyNewActive
<1> QED
  BY <1>2, <1>3

LEMMA SingleIsOne ==
  ASSUME Single
  PROVE  OneTalk
<1>1. CASE Active = {}
  BY <1>1, FS_EmptySet DEF OneTalk
<1>2. CASE Active # {}
  <2>1. PICK k \in Active : TRUE
    BY <1>2
  <2>2. Active = {k}
    BY <2>1 DEF Single, Active
  <2> QED
    BY <2>2, FS_Singleton DEF OneTalk
<1> QED
  BY <1>1, <1>2

\* OneTalk: a customer never has two active conversations, however many buttons he presses
\* (order_reply.py:102 locks and closes the others, the partial index refuses a second).
THEOREM OneConversation == FulfillmentSpec => []OneTalk
<1>1. FulfillmentInit => Inv /\ Single
  <2>1. FulfillmentInit => DOMAIN talks = {}
    BY DEF FulfillmentInit
  <2> QED
    BY <2>1, TalkInvInit DEF Single
<1>2. Inv /\ Single /\ [FulfillmentNext]_fulfillmentVars => Inv' /\ Single'
  BY InvStep, SingleKept
<1>3. Single => OneTalk
  BY SingleIsOne
<1> QED
  BY <1>1, <1>2, <1>3, PTL DEF FulfillmentSpec

-------------------------------------------------------------------------------
(* Replies are filed in time *)

LEMMA ReplyChecked ==
  ASSUME Inv, FiledInTime, NEW m \in Messages, CheckReply(m)
  PROVE  FiledInTime'
<1>1. DOMAIN said \subseteq Messages /\ \A t \in DOMAIN said : said[t] \in Text(Len(talks))
  BY DEF Inv, TypeInv, FulfillmentTypeOK, Text
<1>2. m \in DOMAIN said /\ Moves(m)
  BY DEF CheckReply, Moves
<1>3. /\ DOMAIN said' = DOMAIN said
      /\ \A t \in DOMAIN said : said'[t].over = said[t].over /\ (t # m => said'[t] = said[t])
  BY <1>1, <1>2, MoveTyped
<1>4. CASE said[m].over
  <2>1. job[talks[said[m].talk].job] = "completed"
    BY <1>2, <1>4 DEF Inv, Known
  <2>2. said' = [said EXCEPT ![m].phase = "told"]
    BY <2>1 DEF CheckReply, AcceptsReplies
  <2>3. said'[m].phase = "told"
    BY <1>1, <1>2, <2>2 DEF Text
  <2> QED
    BY <1>3, <2>3 DEF FiledInTime
<1>5. CASE ~said[m].over
  BY <1>2, <1>3, <1>5 DEF FiledInTime
<1> QED
  BY <1>4, <1>5

\* A text that had passed the checks, or that had not and does not now.
LEMMA ReplyMoved ==
  ASSUME Inv, FiledInTime, NEW m \in DOMAIN said, Moves(m),
         said'[m].phase \in {"checked", "filed", "read"} => said[m].phase \in {"checked", "filed", "read"}
  PROVE  FiledInTime'
<1>1. DOMAIN said \subseteq Messages /\ \A t \in DOMAIN said : said[t] \in Text(Len(talks))
  BY DEF Inv, TypeInv, FulfillmentTypeOK, Text
<1>2. /\ DOMAIN said' = DOMAIN said
      /\ \A t \in DOMAIN said : said'[t].over = said[t].over /\ (t # m => said'[t] = said[t])
  BY <1>1, MoveTyped
<1> QED
  BY <1>2 DEF FiledInTime

LEMMA FiledStep ==
  ASSUME Inv, FiledInTime, [FulfillmentNext]_fulfillmentVars
  PROVE  FiledInTime'
<1>1. CASE UNCHANGED said
  BY <1>1 DEF FiledInTime
<1>2. ASSUME NEW m \in Messages, Say(m)
      PROVE  FiledInTime'
  <2>1. /\ DOMAIN said' = DOMAIN said \union {m}
        /\ \A t \in DOMAIN said : said'[t] = said[t]
        /\ said'[m].phase \in {"unheard", "caught", "expiring"}
    BY <1>2, SayTyped DEF Inv
  <2> QED
    BY <2>1 DEF FiledInTime
<1>3. ASSUME NEW m \in Messages, Reveal(m)
      PROVE  FiledInTime'
  <2>1. m \in DOMAIN said /\ said[m].phase = "filed" /\ Moves(m)
    BY <1>3 DEF Reveal, Moves
  <2> QED
    BY <2>1, ReplyMoved
<1>4. ASSUME NEW m \in Messages, ExpireTalk(m)
      PROVE  FiledInTime'
  <2>1. m \in DOMAIN said /\ said' = [said EXCEPT ![m].phase = "unheard"] /\ Moves(m)
    BY <1>4 DEF ExpireTalk, Moves
  <2>2. said[m] \in Text(Len(talks))
    BY <2>1 DEF Inv, TypeInv, FulfillmentTypeOK, Text
  <2>3. said'[m].phase = "unheard"
    BY <2>1, <2>2 DEF Text
  <2> QED
    BY <2>1, <2>3, ReplyMoved
<1>5. ASSUME NEW m \in Messages, FileReply(m)
      PROVE  FiledInTime'
  <2>1. m \in DOMAIN said /\ said[m].phase = "checked" /\ Moves(m)
    BY <1>5 DEF FileReply, Moves
  <2> QED
    BY <2>1, ReplyMoved
<1>6. CASE Operator
  <2>1. (\E m \in Messages : Reveal(m)) \/ UNCHANGED said
    BY <1>6 DEF Operator, Start, Resume, Message, RequestVerification, Complete
  <2> QED
    BY <1>1, <1>3, <2>1
<1>7. CASE Customer
  <2>1. (\E m \in Messages : Say(m) \/ ExpireTalk(m) \/ CheckReply(m) \/ FileReply(m)) \/ UNCHANGED said
    BY <1>7 DEF Customer, Browse, PressReply, OpenTalk, PressFails, Lapse
  <2> QED
    BY <1>1, <1>2, <1>4, <1>5, <2>1, ReplyChecked
<1>8. CASE UNCHANGED fulfillmentVars \/ \E n \in Notes : Deliver(n)
  BY <1>1, <1>8 DEF Deliver, fulfillmentVars, desk
<1> QED
  BY <1>6, <1>7, <1>8 DEF FulfillmentNext

\* FiledInTime: a reply that was sent after its job had been completed is never filed,
\* though the press that opened its conversation may have raced with the completion:
\* process_order_reply looks at the job again.
THEOREM RepliesFiledInTime == FulfillmentSpec => []FiledInTime
<1>1. FulfillmentInit => Inv /\ FiledInTime
  <2>1. FulfillmentInit => DOMAIN said = {}
    BY DEF FulfillmentInit
  <2> QED
    BY <2>1, TalkInvInit DEF FiledInTime
<1>2. Inv /\ FiledInTime /\ [FulfillmentNext]_fulfillmentVars => Inv' /\ FiledInTime'
  BY InvStep, FiledStep
<1> QED
  BY <1>1, <1>2, PTL DEF FulfillmentSpec

-------------------------------------------------------------------------------
(* A job is completed once *)

Notices(j) == {n \in DOMAIN about : about[n] = [job |-> j, kind |-> "comp"]}

Noticed ==
  \A j \in Jobs :
    IF job[j] = "completed" THEN \E n \in Notes : Notices(j) = {n} ELSE Notices(j) = {}

LEMMA NoticesSame ==
  ASSUME Inv, UNCHANGED about, NEW j \in Jobs
  PROVE  Notices(j)' = Notices(j)
BY DEF Notices

LEMMA NoticesGrow ==
  ASSUME TypeInv, NEW n \in Notes, NEW j \in Jobs, NEW kind \in {"msg", "verify", "comp"},
         Notify(n, j, kind), NEW i \in Jobs
  PROVE  Notices(i)' = IF i = j /\ kind = "comp" THEN Notices(i) \union {n} ELSE Notices(i)
<1>1. /\ n \notin DOMAIN about
      /\ DOMAIN about' = {n} \union DOMAIN about
      /\ about'[n] = [job |-> j, kind |-> kind]
      /\ \A o \in DOMAIN about : about'[o] = about[o]
  <2>1. n \notin DOMAIN about
    BY Notified
  <2>2. about' = [o \in DOMAIN about \union {n} |->
          IF o = n THEN [job |-> j, kind |-> kind] ELSE about[o]]
    BY DEF Notify
  <2> QED
    BY <2>1, <2>2
<1>2. (about'[n] = [job |-> i, kind |-> "comp"]) <=> (i = j /\ kind = "comp")
  BY <1>1
<1>3. n \in Notices(i)' <=> i = j /\ kind = "comp"
  BY <1>1, <1>2 DEF Notices
<1>4. \A o : o # n => (o \in Notices(i)' <=> o \in Notices(i))
  BY <1>1 DEF Notices
<1>5. n \notin Notices(i)
  BY <1>1 DEF Notices
<1> QED
  BY <1>3, <1>4, <1>5

LEMMA NoticedStep ==
  ASSUME Inv, Noticed, [FulfillmentNext]_fulfillmentVars
  PROVE  Noticed'
<1>1. job \in [Jobs -> {"queued", "in_progress", "waiting_customer", "completed"}] /\ TypeInv
  BY DEF Inv, TypeInv, FulfillmentTypeOK
<1>2. ASSUME UNCHANGED about, \A j \in Jobs : job'[j] = "completed" <=> job[j] = "completed"
      PROVE  Noticed'
  BY <1>2, NoticesSame DEF Noticed
<1>3. ASSUME NEW j \in Jobs, NEW n \in Notes, NEW kind \in {"msg", "verify"}, Notify(n, j, kind),
             \A i \in Jobs : job'[i] = "completed" <=> job[i] = "completed"
      PROVE  Noticed'
  <2>1. \A i \in Jobs : Notices(i)' = Notices(i)
    BY <1>1, <1>3, NoticesGrow
  <2> QED
    BY <1>3, <2>1 DEF Noticed
<1>4. ASSUME NEW j \in Jobs, NEW n \in Notes, Complete(j, n)
      PROVE  Noticed'
  <2>1. Notify(n, j, "comp") /\ job[j] # "completed" /\ job' = [job EXCEPT ![j] = "completed"]
    BY <1>4 DEF Complete, Completable
  <2>2. \A i \in Jobs : Notices(i)' = IF i = j THEN Notices(i) \union {n} ELSE Notices(i)
    BY <1>1, <2>1, NoticesGrow
  <2>3. job'[j] = "completed" /\ \A i \in Jobs : i # j => job'[i] = job[i]
    BY <1>1, <2>1
  <2>4. Notices(j)' = {n}
    BY <2>1, <2>2 DEF Noticed
  <2> QED
    BY <2>2, <2>3, <2>4 DEF Noticed
<1>5. ASSUME NEW j \in Jobs, NEW n \in Notes, Message(j, n)
      PROVE  Noticed'
  BY <1>3, <1>5 DEF Message
<1>6. ASSUME NEW j \in Jobs, NEW n \in Notes, RequestVerification(j, n)
      PROVE  Noticed'
  <2>1. \A i \in Jobs : job'[i] = "completed" <=> job[i] = "completed"
    BY <1>1, <1>6 DEF RequestVerification
  <2> QED
    BY <1>3, <1>6, <2>1 DEF RequestVerification
<1>7. ASSUME NEW j \in Jobs, Start(j) \/ Resume(j)
      PROVE  Noticed'
  <2>1. UNCHANGED about /\ job' = [job EXCEPT ![j] = "in_progress"] /\ job[j] # "completed"
    BY <1>7 DEF Start, Resume
  <2>2. \A i \in Jobs : job'[i] = "completed" <=> job[i] = "completed"
    BY <1>1, <2>1
  <2> QED
    BY <1>2, <2>1, <2>2
<1>8. CASE UNCHANGED <<about, job>>
  BY <1>2, <1>8
<1>9. CASE Operator
  <2>1. UNCHANGED <<about, job>> \/ (\E j \in Jobs : Start(j) \/ Resume(j))
          \/ \E j \in Jobs, n \in Notes : Message(j, n) \/ RequestVerification(j, n) \/ Complete(j, n)
    BY <1>9 DEF Operator, Reveal
  <2> QED
    BY <1>4, <1>5, <1>6, <1>7, <1>8, <2>1
<1>10. CASE Customer \/ UNCHANGED fulfillmentVars \/ \E n \in Notes : Deliver(n)
  <2>1. UNCHANGED <<about, job>>
    BY <1>10 DEF Customer, Browse, PressReply, OpenTalk, PressFails, Lapse, Say, ExpireTalk,
      CheckReply, FileReply, Deliver, fulfillmentVars, desk
  <2> QED
    BY <1>8, <2>1
<1> QED
  BY <1>9, <1>10 DEF FulfillmentNext

\* CompletedOnce: operators complete a job once, with one notice, however many of them have
\* its page open (api_complete locks the job and looks at its status).
THEOREM JobsCompletedOnce == FulfillmentSpec => []CompletedOnce
<1>1. FulfillmentInit => Inv /\ Noticed
  <2>1. FulfillmentInit => DOMAIN about = {} /\ \A j \in Jobs : job[j] = "queued"
    BY DEF FulfillmentInit
  <2> QED
    BY <2>1, TalkInvInit DEF Noticed, Notices
<1>2. Inv /\ Noticed /\ [FulfillmentNext]_fulfillmentVars => Inv' /\ Noticed'
  BY InvStep, NoticedStep
<1>3. Noticed => CompletedOnce
  <2>1. ASSUME Noticed, NEW j \in Jobs
        PROVE  Cardinality(Notices(j)) = IF job[j] = "completed" THEN 1 ELSE 0
    BY <2>1, FS_EmptySet, FS_Singleton DEF Noticed
  <2> QED
    BY <2>1 DEF CompletedOnce, Notices
<1> QED
  BY <1>1, <1>2, <1>3, PTL DEF FulfillmentSpec

-------------------------------------------------------------------------------
(* The form of a manual product *)

\* A handler's copy of a draft is as whole as the draft was.
CopiesWhole == \A t \in Tasks : task[t].kind = "answer" => task[t].step = task[t].answers

\* A paid draft is never pending again.
PaidIsClosed == \A o \in DOMAIN orders : drafts[orders[o].draft].status # "pending"

\* Nothing happens before the customer picks a product.
Unstarted ==
  chat.goods = NoGoods => chat.draft = 0 /\ ~chat.asking /\ \A t \in Tasks : task[t] = Idle

IntakeInv ==
  /\ TypeOK /\ Unstarted
  /\ StepTellsAnswers /\ CopiesWhole
  /\ PaidForForm /\ PaidIsClosed /\ PaidOnce

Work == {Idle} \union Opening \union Answering \union Leaving \union Buying

\* What a handler holds names drafts that are there.
Founded(w, there) ==
  /\ w.kind = "open" => w.found \in there \/ (w.found = 0 /\ w.verdict = "new")
  /\ w.kind \in {"answer", "close", "buy"} => w.draft \in there

TasksTyped == task \in [Tasks -> Work] /\ \A t \in Tasks : Founded(task[t], DOMAIN drafts)

ChatTyped ==
  /\ chat \in [goods : Goods \union {NoGoods}, quantity : Quantities, draft : 0..Len(drafts),
               asking : BOOLEAN]
  /\ review \in 0..Len(drafts)

FormTyped ==
  form \in [Goods -> [fields : 0..MaxFields, version : Nat]] /\ edits \in 0..MaxEdits

OrdersTyped ==
  orders \in Seq(Order) /\ \A o \in DOMAIN orders : orders[o].draft \in DOMAIN drafts

\* How a step treats the drafts: the old ones keep their form and none of them becomes
\* pending again; each of them, and each new one, is whole.
DraftsMove ==
  /\ drafts' \in Seq(Draft)
  /\ Len(drafts') >= Len(drafts)
  /\ \A d \in DOMAIN drafts :
       /\ drafts'[d].fingerprint = drafts[d].fingerprint
       /\ drafts'[d].status = "pending" => drafts[d].status = "pending"
  /\ StepTellsAnswers'

LEMMA IntakeParts ==
  TypeOK <=> FormTyped /\ drafts \in Seq(Draft) /\ OrdersTyped /\ ChatTyped /\ TasksTyped
BY DEF TypeOK, FormTyped, OrdersTyped, ChatTyped, TasksTyped, Founded, Work

LEMMA IntakePartsNext ==
  TypeOK' <=>
    FormTyped' /\ drafts' \in Seq(Draft) /\ OrdersTyped' /\ ChatTyped' /\ TasksTyped'
BY DEF TypeOK, FormTyped, OrdersTyped, ChatTyped, TasksTyped, Founded, Work

LEMMA DraftTyped ==
  ASSUME TypeOK
  PROVE  DOMAIN drafts = 1..Len(drafts) /\ Len(drafts) \in Nat
         /\ \A d \in DOMAIN drafts : drafts[d] \in Draft
<1>1. drafts \in Seq(Draft)
  BY DEF TypeOK
<1>2. DOMAIN drafts = 1..Len(drafts) /\ Len(drafts) \in Nat
  BY <1>1, LenProperties
<1> QED
  BY <1>1, <1>2, ElementOfSeq

LEMMA TaskTyped ==
  ASSUME TypeOK, NEW t \in Tasks
  PROVE  /\ task[t].kind = "open" => task[t] \in Opening
         /\ task[t].kind = "answer" => task[t] \in Answering
         /\ task[t].kind = "close" => task[t] \in Leaving
         /\ task[t].kind = "buy" => task[t] \in Buying
         /\ Founded(task[t], DOMAIN drafts)
<1>1. task[t] \in Work
  BY DEF TypeOK, Work
<1>2. Founded(task[t], DOMAIN drafts)
  BY DEF TypeOK, Founded
<1> QED
  BY <1>1, <1>2 DEF Work, Idle, Opening, Answering, Leaving, Buying

LEMMA FormsTyped ==
  ASSUME TypeOK, NEW g \in Goods, NEW q \in Quantities
  PROVE  Fingerprint(g) \in Nat /\ Steps(g, q) \in Nat
<1>1. form[g] \in [fields : 0..MaxFields, version : Nat]
  BY DEF TypeOK
<1>2. form[g].fields \in Nat /\ form[g].version \in Nat /\ q \in Nat
  BY <1>1, FormsAssumption
<1>3. \A m, n \in Nat : m * n \in Nat
  OBVIOUS
<1> QED
  BY <1>2, <1>3 DEF Fingerprint, Steps

-------------------------------------------------------------------------------
(* Steps *)

\* One handler changes what it holds; the drafts may have grown.
LEMMA TaskPut ==
  ASSUME TypeOK, NEW t \in Tasks, NEW w \in Work, task' = [task EXCEPT ![t] = w],
         DOMAIN drafts \subseteq DOMAIN drafts', Founded(w, DOMAIN drafts')
  PROVE  TasksTyped'
<1>1. task \in [Tasks -> Work] /\ \A u \in Tasks : Founded(task[u], DOMAIN drafts)
  BY IntakeParts DEF TasksTyped
<1>2. task' \in [Tasks -> Work]
  BY <1>1
<1>3. \A u \in Tasks : u # t => Founded(task'[u], DOMAIN drafts')
  BY <1>1 DEF Founded
<1>4. Founded(task'[t], DOMAIN drafts')
  BY <1>1
<1> QED
  BY <1>2, <1>3, <1>4 DEF TasksTyped

LEMMA TasksStay ==
  ASSUME TypeOK, UNCHANGED task, DOMAIN drafts \subseteq DOMAIN drafts'
  PROVE  TasksTyped'
BY IntakeParts DEF TasksTyped, Founded

LEMMA OrdersStay ==
  ASSUME TypeOK, UNCHANGED orders, DOMAIN drafts \subseteq DOMAIN drafts'
  PROVE  OrdersTyped'
BY DEF TypeOK, OrdersTyped

LEMMA FormStays ==
  ASSUME TypeOK, UNCHANGED <<form, edits>>
  PROVE  FormTyped'
BY DEF TypeOK, FormTyped

LEMMA DraftsStay ==
  ASSUME TypeOK, StepTellsAnswers, UNCHANGED drafts
  PROVE  DraftsMove
BY DraftTyped DEF TypeOK, DraftsMove, StepTellsAnswers

\* One draft is written in place.
LEMMA DraftWritten ==
  ASSUME TypeOK, StepTellsAnswers, NEW d \in DOMAIN drafts, NEW r \in Draft,
         drafts' = [drafts EXCEPT ![d] = r],
         r.fingerprint = drafts[d].fingerprint, r.step = r.answers,
         r.status = "pending" => drafts[d].status = "pending"
  PROVE  DraftsMove /\ Len(drafts') = Len(drafts) /\ DOMAIN drafts' = DOMAIN drafts
<1>1. drafts \in Seq(Draft)
  BY DEF TypeOK
<1>2. drafts' \in Seq(Draft) /\ Len(drafts') = Len(drafts)
  BY <1>1, Rewritten, DraftTyped
<1> QED
  BY <1>2, DraftTyped DEF DraftsMove, StepTellsAnswers

\* The drafts that are there are written in place, and a new one comes after them.
LEMMA DraftAppended ==
  ASSUME TypeOK, StepTellsAnswers, NEW f, DOMAIN f = DOMAIN drafts,
         f = [d \in DOMAIN drafts |-> f[d]],
         \A d \in DOMAIN drafts :
           /\ f[d] \in Draft /\ f[d].fingerprint = drafts[d].fingerprint
           /\ f[d].step = f[d].answers
           /\ f[d].status = "pending" => drafts[d].status = "pending",
         NEW r \in Draft, r.step = r.answers, drafts' = Append(f, r)
  PROVE  DraftsMove /\ Len(drafts') = Len(drafts) + 1
<1>1. drafts \in Seq(Draft)
  BY DEF TypeOK
<1>2. f \in Seq(Draft) /\ Len(f) = Len(drafts)
  BY <1>1, Rewritten
<1>3. /\ drafts' \in Seq(Draft) /\ Len(drafts') = Len(f) + 1
      /\ \A d \in 1..Len(f) : drafts'[d] = f[d]
      /\ drafts'[Len(f) + 1] = r
  BY <1>2, AppendProperties
<1>4. DOMAIN drafts' = 1..(Len(drafts) + 1) /\ DOMAIN drafts = 1..Len(drafts) /\ Len(drafts) \in Nat
  BY <1>2, <1>3, DraftTyped, LenProperties
<1>5. \A d \in DOMAIN drafts : drafts'[d] = f[d]
  BY <1>2, <1>3, <1>4
<1>6. StepTellsAnswers'
  <2> SUFFICES ASSUME NEW d \in DOMAIN drafts' PROVE drafts'[d].step = drafts'[d].answers
    BY DEF StepTellsAnswers
  <2>1. d \in DOMAIN drafts \/ d = Len(f) + 1
    BY <1>2, <1>4
  <2> QED
    BY <2>1, <1>3, <1>5
<1> QED
  BY <1>2, <1>3, <1>4, <1>5, <1>6 DEF DraftsMove

LEMMA Rendered ==
  ASSUME TypeOK, NEW d \in 0..Len(drafts'), NEW step, NEW steps,
         NEW data \in [goods : Goods \union {NoGoods}, quantity : Quantities,
                       draft : 0..Len(drafts), asking : BOOLEAN],
         Len(drafts) \in Nat, Len(drafts') \in Nat, Len(drafts') >= Len(drafts),
         Render(d, step, steps, data)
  PROVE  ChatTyped'
<1>1. review \in 0..Len(drafts) /\ 0..Len(drafts) \subseteq 0..Len(drafts')
  BY DEF TypeOK
<1>2. CASE step >= steps
  <2>1. chat' = [data EXCEPT !.asking = FALSE] /\ review' = d
    BY <1>2 DEF Render
  <2> QED
    BY <1>1, <2>1 DEF ChatTyped
<1>3. CASE ~(step >= steps)
  <2>1. chat' = [data EXCEPT !.draft = d, !.asking = TRUE] /\ review' = review
    BY <1>3 DEF Render
  <2> QED
    BY <1>1, <2>1 DEF ChatTyped
<1> QED
  BY <1>2, <1>3

LEMMA FindStep ==
  ASSUME TypeOK, NEW t \in Tasks, NEW g \in Goods, NEW q \in Quantities,
         NEW resumed \in BOOLEAN, Find(t, g, q, resumed)
  PROVE  TasksTyped' /\ task'[t].kind = "open" /\ (\A u \in Tasks : u # t => task'[u] = task[u])
<1>1. PICK d \in Pending(g) \union {0} :
        /\ d = 0 => Pending(g) = {}
        /\ task' = [task EXCEPT ![t] =
            [kind |-> "open", goods |-> g, quantity |-> q, fingerprint |-> Fingerprint(g),
             steps |-> Steps(g, q), found |-> d, resumed |-> resumed,
             verdict |-> IF d = 0 THEN "new" ELSE Verdict(d, q),
             step |-> IF d = 0 THEN 0 ELSE drafts[d].step]]
  BY DEF Find
<1> DEFINE v == IF d = 0 THEN "new" ELSE Verdict(d, q)
<1> DEFINE s == IF d = 0 THEN 0 ELSE drafts[d].step
<1> DEFINE w == [kind |-> "open", goods |-> g, quantity |-> q, fingerprint |-> Fingerprint(g),
                 steps |-> Steps(g, q), found |-> d, resumed |-> resumed, verdict |-> v,
                 step |-> s]
<1>2. d = 0 \/ d \in DOMAIN drafts
  BY DEF Pending
<1>3. d \in Nat
  BY <1>2, DraftTyped
<1>4. v \in {"new", "fit", "expired", "invalidated"} /\ (d = 0 => v = "new")
  BY DEF Verdict
<1>5. s \in Nat
  BY <1>2, DraftTyped DEF Draft
<1>6. w \in Opening
  <2> HIDE DEF v, s
  <2> QED
    BY <1>3, <1>4, <1>5, FormsTyped DEF Opening
<1>7. w \in Work /\ Founded(w, DOMAIN drafts)
  BY <1>2, <1>4, <1>6 DEF Work, Founded
<1>8. task' = [task EXCEPT ![t] = w] /\ UNCHANGED drafts
  BY <1>1 DEF Find
<1>9. task \in [Tasks -> Work]
  BY IntakeParts DEF TasksTyped
<1> HIDE DEF w
<1>10. TasksTyped'
  BY <1>7, <1>8, TaskPut
<1>11. w.kind = "open"
  BY <1>6 DEF Opening
<1> QED
  BY <1>8, <1>9, <1>10, <1>11

LEMMA OpenStep ==
  ASSUME TypeOK, StepTellsAnswers, NEW t \in Tasks, OpenDraft(t)
  PROVE  TypeOK' /\ DraftsMove
<1> DEFINE w == task[t]
           reused == w.verdict = "fit"
           closed == IF w.verdict \in {"expired", "invalidated"}
                     THEN [drafts EXCEPT ![w.found].status = w.verdict] ELSE drafts
           d == IF reused THEN w.found ELSE Len(drafts) + 1
           step == IF reused THEN w.step ELSE 0
           new == NewDraft(w.goods, w.quantity, w.fingerprint)
<1>1. /\ w.kind = "open"
      /\ drafts' = IF reused THEN drafts ELSE Append(closed, new)
      /\ UNCHANGED <<chat, review>> \/ Render(d, step, w.steps, chat)
      /\ task' = [task EXCEPT ![t] = Idle]
      /\ UNCHANGED <<form, edits, orders>>
  BY DEF OpenDraft
<1>2. w \in Opening /\ Founded(w, DOMAIN drafts)
  BY <1>1, TaskTyped
<1>3. DOMAIN drafts = 1..Len(drafts) /\ Len(drafts) \in Nat /\ \A e \in DOMAIN drafts : drafts[e] \in Draft
  BY DraftTyped
<1>4. DraftsMove /\ d \in 0..Len(drafts')
  <2>1. CASE reused
    <3>1. w.found \in DOMAIN drafts
      BY <1>1, <1>2, <2>1 DEF Founded
    <3> QED
      BY <1>1, <1>3, <2>1, <3>1, DraftsStay
  <2>2. CASE ~reused
    <3>1. new \in Draft /\ new.step = new.answers
      BY <1>2 DEF NewDraft, Draft, Opening
    <3>2. CASE w.verdict \in {"expired", "invalidated"}
      <4>1. w.found \in DOMAIN drafts
        BY <1>1, <1>2, <3>2 DEF Founded
      <4>2. closed = [drafts EXCEPT ![w.found].status = w.verdict]
        BY <3>2
      <4>3. \A e \in DOMAIN drafts :
              /\ closed[e] \in Draft /\ closed[e].fingerprint = drafts[e].fingerprint
              /\ closed[e].step = closed[e].answers
              /\ closed[e].status = "pending" => drafts[e].status = "pending"
        BY <1>3, <3>2, <4>1, <4>2 DEF Draft, StepTellsAnswers
      <4>4. DOMAIN closed = DOMAIN drafts /\ closed = [e \in DOMAIN drafts |-> closed[e]]
        BY <4>2
      <4>5. drafts' = Append(closed, new)
        BY <1>1, <2>2
      <4> HIDE DEF closed, new
      <4>6. DraftsMove /\ Len(drafts') = Len(drafts) + 1
        BY <3>1, <4>3, <4>4, <4>5, DraftAppended
      <4> QED
        BY <1>3, <2>2, <4>6
    <3>3. CASE w.verdict \notin {"expired", "invalidated"}
      <4>1. drafts' = Append(drafts, new)
        BY <1>1, <2>2, <3>3
      <4>2. \A e \in DOMAIN drafts :
              /\ drafts[e] \in Draft /\ drafts[e].fingerprint = drafts[e].fingerprint
              /\ drafts[e].step = drafts[e].answers
              /\ drafts[e].status = "pending" => drafts[e].status = "pending"
        BY <1>3 DEF StepTellsAnswers
      <4>3. drafts = [e \in DOMAIN drafts |-> drafts[e]]
        BY SeqDef DEF TypeOK
      <4> HIDE DEF new
      <4>4. DraftsMove /\ Len(drafts') = Len(drafts) + 1
        BY <3>1, <4>1, <4>2, <4>3, DraftAppended
      <4> QED
        BY <1>3, <2>2, <4>4
    <3> QED
      BY <3>2, <3>3
  <2> QED
    BY <2>1, <2>2
<1>5. drafts' \in Seq(Draft) /\ Len(drafts') >= Len(drafts) /\ Len(drafts') \in Nat
      /\ DOMAIN drafts \subseteq DOMAIN drafts'
  BY <1>3, <1>4, LenProperties DEF DraftsMove
<1>6. ChatTyped'
  <2>1. chat \in [goods : Goods \union {NoGoods}, quantity : Quantities,
                  draft : 0..Len(drafts), asking : BOOLEAN]
        /\ review \in 0..Len(drafts)
    BY DEF TypeOK
  <2>2. CASE UNCHANGED <<chat, review>>
    BY <1>3, <1>5, <2>1, <2>2 DEF ChatTyped
  <2>3. CASE Render(d, step, w.steps, chat)
    <3> HIDE DEF d, step, w
    <3> QED
      BY <1>3, <1>4, <1>5, <2>1, <2>3, Rendered
  <2> QED
    BY <1>1, <2>2, <2>3
<1>7. TasksTyped'
  <2>1. Idle \in Work /\ Founded(Idle, DOMAIN drafts')
    BY DEF Work, Founded, Idle
  <2> QED
    BY <1>1, <1>5, <2>1, TaskPut
<1> QED
  BY <1>1, <1>4, <1>5, <1>6, <1>7, IntakePartsNext, OrdersStay, FormStays

LEMMA StartOverStep ==
  ASSUME TypeOK, StepTellsAnswers, StartOver
  PROVE  TypeOK' /\ DraftsMove
<1> DEFINE g == chat.goods
           q == chat.quantity
           f == [d \in DOMAIN drafts |->
                   IF d \in Pending(g) THEN [drafts[d] EXCEPT !.status = "invalidated"]
                   ELSE drafts[d]]
           new == NewDraft(g, q, Fingerprint(g))
           data == [chat EXCEPT !.asking = FALSE]
<1>1. /\ g # NoGoods
      /\ drafts' = Append(f, new)
      /\ Render(Len(drafts) + 1, 0, Steps(g, q), data)
      /\ UNCHANGED <<form, edits, orders, task>>
  BY DEF StartOver
<1>2. DOMAIN drafts = 1..Len(drafts) /\ Len(drafts) \in Nat /\ \A e \in DOMAIN drafts : drafts[e] \in Draft
  BY DraftTyped
<1>3. chat \in [goods : Goods \union {NoGoods}, quantity : Quantities,
                draft : 0..Len(drafts), asking : BOOLEAN]
  BY DEF TypeOK
<1>4. g \in Goods /\ q \in Quantities
  BY <1>1, <1>3
<1>5. new \in Draft /\ new.step = new.answers
  BY <1>4, FormsTyped DEF NewDraft, Draft
<1>6. \A e \in DOMAIN drafts :
        /\ f[e] \in Draft /\ f[e].fingerprint = drafts[e].fingerprint
        /\ f[e].step = f[e].answers
        /\ f[e].status = "pending" => drafts[e].status = "pending"
  BY <1>2 DEF Draft, StepTellsAnswers, Pending
<1>7. DOMAIN f = DOMAIN drafts /\ f = [e \in DOMAIN drafts |-> f[e]]
  OBVIOUS
<1>8. DraftsMove /\ Len(drafts') = Len(drafts) + 1
  <2> HIDE DEF f, new
  <2> QED
    BY <1>1, <1>5, <1>6, <1>7, DraftAppended
<1>9. drafts' \in Seq(Draft) /\ Len(drafts') >= Len(drafts) /\ Len(drafts') \in Nat
      /\ DOMAIN drafts \subseteq DOMAIN drafts' /\ Len(drafts) + 1 \in 0..Len(drafts')
  BY <1>2, <1>8, LenProperties DEF DraftsMove
<1>10. data \in [goods : Goods \union {NoGoods}, quantity : Quantities,
                 draft : 0..Len(drafts), asking : BOOLEAN]
  BY <1>3
<1>11. ChatTyped'
  <2> HIDE DEF data
  <2> QED
    BY <1>1, <1>2, <1>9, <1>10, Rendered
<1> QED
  BY <1>1, <1>8, <1>9, <1>11, IntakePartsNext, OrdersStay, FormStays, TasksStay

LEMMA SaveStep ==
  ASSUME TypeOK, StepTellsAnswers, CopiesWhole, NEW t \in Tasks, SaveAnswer(t)
  PROVE  TypeOK' /\ DraftsMove
<1> DEFINE w == task[t]
           r == [drafts[w.draft] EXCEPT !.answers = w.answers + 1, !.step = w.step + 1]
<1>1. /\ w.kind = "answer"
      /\ drafts' = [drafts EXCEPT ![w.draft].answers = w.answers + 1,
                                  ![w.draft].step = w.step + 1]
      /\ Render(w.draft, w.step + 1, w.steps, chat)
      /\ task' = [task EXCEPT ![t] = Idle]
      /\ UNCHANGED <<form, edits, orders>>
  BY DEF SaveAnswer, StepAfter
<1>2. w \in Answering /\ w.draft \in DOMAIN drafts
  BY <1>1, TaskTyped DEF Founded
<1>3. DOMAIN drafts = 1..Len(drafts) /\ Len(drafts) \in Nat /\ \A e \in DOMAIN drafts : drafts[e] \in Draft
  BY DraftTyped
<1>4. w.step = w.answers
  BY <1>1 DEF CopiesWhole
<1>5. w.step + 1 \in Nat /\ w.answers + 1 \in Nat
  BY <1>2 DEF Answering
<1>6. drafts[w.draft] \in Draft
  BY <1>2, <1>3
<1>7. /\ r \in Draft /\ r.fingerprint = drafts[w.draft].fingerprint
      /\ r.step = r.answers /\ r.status = drafts[w.draft].status
  BY <1>4, <1>5, <1>6 DEF Draft
<1>8. drafts' = [drafts EXCEPT ![w.draft] = r]
  BY <1>1, <1>2, <1>6 DEF Draft
<1>9. DraftsMove /\ Len(drafts') = Len(drafts) /\ DOMAIN drafts' = DOMAIN drafts
  <2> HIDE DEF r, w
  <2> QED
    BY <1>2, <1>7, <1>8, DraftWritten
<1>10. drafts' \in Seq(Draft)
  BY <1>9 DEF DraftsMove
<1>11. ChatTyped'
  <2>1. w.draft \in 0..Len(drafts') /\ Len(drafts') \in Nat /\ Len(drafts') >= Len(drafts)
    BY <1>2, <1>3, <1>9
  <2>2. chat \in [goods : Goods \union {NoGoods}, quantity : Quantities,
                  draft : 0..Len(drafts), asking : BOOLEAN]
    BY DEF TypeOK
  <2> HIDE DEF w
  <2> QED
    BY <1>1, <1>3, <2>1, <2>2, Rendered
<1>12. TasksTyped'
  <2>1. Idle \in Work /\ Founded(Idle, DOMAIN drafts')
    BY DEF Work, Founded, Idle
  <2> QED
    BY <1>1, <1>9, <2>1, TaskPut
<1> QED
  BY <1>1, <1>9, <1>10, <1>11, <1>12, IntakePartsNext, OrdersStay, FormStays

\* A handler ends that leaves the FSM waiting or not, and one draft with another status.
LEMMA CloseStep ==
  ASSUME TypeOK, StepTellsAnswers, NEW t \in Tasks, CloseDraft(t)
  PROVE  TypeOK' /\ DraftsMove
<1> DEFINE w == task[t]
           r == [drafts[w.draft] EXCEPT !.status = w.status]
<1>1. /\ w.kind = "close"
      /\ drafts' = [drafts EXCEPT ![w.draft].status = w.status]
      /\ chat' = [chat EXCEPT !.asking = FALSE]
      /\ task' = [task EXCEPT ![t] = Idle]
      /\ UNCHANGED <<form, edits, orders, review>>
  BY DEF CloseDraft
<1>2. w \in Leaving /\ w.draft \in DOMAIN drafts
  BY <1>1, TaskTyped DEF Founded
<1>3. drafts[w.draft] \in Draft
  BY <1>2, DraftTyped
<1>4. /\ r \in Draft /\ r.fingerprint = drafts[w.draft].fingerprint
      /\ r.step = r.answers /\ r.status # "pending"
  BY <1>2, <1>3 DEF Draft, Leaving, StepTellsAnswers
<1>5. drafts' = [drafts EXCEPT ![w.draft] = r]
  BY <1>1, <1>2, <1>3 DEF Draft
<1>6. DraftsMove /\ Len(drafts') = Len(drafts) /\ DOMAIN drafts' = DOMAIN drafts
  <2> HIDE DEF r, w
  <2> QED
    BY <1>2, <1>4, <1>5, DraftWritten
<1>7. drafts' \in Seq(Draft)
  BY <1>6 DEF DraftsMove
<1>8. ChatTyped'
  BY <1>1, <1>6 DEF TypeOK, ChatTyped
<1>9. TasksTyped'
  <2>1. Idle \in Work /\ Founded(Idle, DOMAIN drafts')
    BY DEF Work, Founded, Idle
  <2> QED
    BY <1>1, <1>6, <2>1, TaskPut
<1> QED
  BY <1>1, <1>6, <1>7, <1>8, <1>9, IntakePartsNext, OrdersStay, FormStays

LEMMA LapseStep ==
  ASSUME TypeOK, StepTellsAnswers, NEW d \in DOMAIN drafts, LapseDraft(d)
  PROVE  TypeOK' /\ DraftsMove
<1> DEFINE r == [drafts[d] EXCEPT !.lapsed = TRUE]
<1>1. /\ drafts' = [drafts EXCEPT ![d].lapsed = TRUE]
      /\ UNCHANGED <<form, edits, orders, chat, task, review>>
  BY DEF LapseDraft
<1>2. drafts[d] \in Draft
  BY DraftTyped
<1>3. /\ r \in Draft /\ r.fingerprint = drafts[d].fingerprint
      /\ r.step = r.answers /\ r.status = drafts[d].status
  BY <1>2 DEF Draft, StepTellsAnswers
<1>4. drafts' = [drafts EXCEPT ![d] = r]
  BY <1>1, <1>2 DEF Draft
<1>5. DraftsMove /\ Len(drafts') = Len(drafts) /\ DOMAIN drafts' = DOMAIN drafts
  <2> HIDE DEF r
  <2> QED
    BY <1>3, <1>4, DraftWritten
<1>6. drafts' \in Seq(Draft) /\ ChatTyped'
  BY <1>1, <1>5 DEF TypeOK, ChatTyped, DraftsMove
<1> QED
  BY <1>1, <1>5, <1>6, IntakePartsNext, OrdersStay, FormStays, TasksStay

\* The draft of the new order was pending, with the form that the order records.
LEMMA BuyStep ==
  ASSUME TypeOK, StepTellsAnswers, NEW t \in Tasks, Buy(t)
  PROVE  /\ TypeOK' /\ DraftsMove
         /\ DOMAIN orders' = 1..(Len(orders) + 1)
         /\ \A o \in DOMAIN orders : orders'[o] = orders[o]
         /\ orders'[Len(orders) + 1].draft \in DOMAIN drafts
         /\ drafts[orders'[Len(orders) + 1].draft].status = "pending"
         /\ drafts'[orders'[Len(orders) + 1].draft].status = "consumed"
         /\ orders'[Len(orders) + 1].fingerprint
              = drafts[orders'[Len(orders) + 1].draft].fingerprint
<1> DEFINE w == task[t]
           d == w.draft
           r == [drafts[d] EXCEPT !.status = "consumed"]
           p == [draft |-> d, fingerprint |-> Fingerprint(w.goods),
                 steps |-> Steps(w.goods, w.quantity), answers |-> drafts[d].answers]
<1>1. /\ w.kind = "buy"
      /\ drafts[d].status = "pending" /\ drafts[d].fingerprint = Fingerprint(w.goods)
      /\ orders' = Append(orders, p)
      /\ drafts' = [drafts EXCEPT ![d].status = "consumed"]
      /\ chat' = [chat EXCEPT !.asking = FALSE]
      /\ task' = [task EXCEPT ![t] = Idle]
      /\ UNCHANGED <<form, edits, review>>
  BY DEF Buy, Payable, SameForm
<1>2. w \in Buying /\ d \in DOMAIN drafts
  BY <1>1, TaskTyped DEF Founded
<1>3. drafts[d] \in Draft
  BY <1>2, DraftTyped
<1>4. /\ r \in Draft /\ r.fingerprint = drafts[d].fingerprint
      /\ r.step = r.answers /\ r.status = "consumed"
  BY <1>2, <1>3 DEF Draft, StepTellsAnswers
<1>5. drafts' = [drafts EXCEPT ![d] = r]
  BY <1>1, <1>2, <1>3 DEF Draft
<1>6. DraftsMove /\ Len(drafts') = Len(drafts) /\ DOMAIN drafts' = DOMAIN drafts
  <2> HIDE DEF r, d
  <2> QED
    BY <1>2, <1>4, <1>5, DraftWritten
<1>7. drafts' \in Seq(Draft)
  BY <1>6 DEF DraftsMove
<1>8. ChatTyped'
  BY <1>1, <1>6 DEF TypeOK, ChatTyped
<1>9. TasksTyped'
  <2>1. Idle \in Work /\ Founded(Idle, DOMAIN drafts')
    BY DEF Work, Founded, Idle
  <2> QED
    BY <1>1, <1>6, <2>1, TaskPut
<1>10. p \in Order
  <2>1. d \in Nat
    BY <1>2 DEF Buying
  <2>2. Fingerprint(w.goods) \in Nat /\ Steps(w.goods, w.quantity) \in Nat
    BY <1>2, FormsTyped DEF Buying
  <2>3. drafts[d].answers \in Nat
    BY <1>3 DEF Draft
  <2> QED
    BY <2>1, <2>2, <2>3 DEF Order
<1>11. p.draft = d /\ p.fingerprint = Fingerprint(w.goods)
  OBVIOUS
<1> HIDE DEF p
<1>12. /\ orders' \in Seq(Order) /\ Len(orders') = Len(orders) + 1
       /\ \A o \in 1..Len(orders) : orders'[o] = orders[o]
       /\ orders'[Len(orders) + 1] = p
  BY <1>1, <1>10, AppendProperties DEF TypeOK
<1>13. DOMAIN orders = 1..Len(orders) /\ Len(orders) \in Nat
       /\ DOMAIN orders' = 1..(Len(orders) + 1)
  BY <1>12, LenProperties DEF TypeOK
<1>14. OrdersTyped'
  <2>1. \A o \in DOMAIN orders : orders[o].draft \in DOMAIN drafts
    BY DEF TypeOK
  <2> SUFFICES ASSUME NEW o \in DOMAIN orders' PROVE orders'[o].draft \in DOMAIN drafts'
    BY <1>12 DEF OrdersTyped
  <2>2. o \in DOMAIN orders \/ o = Len(orders) + 1
    BY <1>13
  <2> QED
    BY <1>2, <1>6, <1>11, <1>12, <1>13, <2>1, <2>2
<1>15. TypeOK'
  BY <1>1, <1>6, <1>7, <1>8, <1>9, <1>14, IntakePartsNext, FormStays
<1>16. drafts'[d].status = "consumed"
  BY <1>2, <1>4, <1>5
<1> QED
  BY <1>1, <1>2, <1>6, <1>11, <1>12, <1>13, <1>15, <1>16

LEMMA ReviseStep ==
  ASSUME TypeOK, NEW g \in Goods, NEW n \in Int, Revise(g, n)
  PROVE  FormTyped' /\ UNCHANGED <<drafts, orders, chat, task, review>>
<1>1. /\ edits < MaxEdits /\ edits' = edits + 1 /\ n \in 0..MaxFields
      /\ form' = [form EXCEPT ![g] = [fields |-> n, version |-> @.version + 1]]
      /\ UNCHANGED <<drafts, orders, chat, task, review>>
  BY DEF Revise
<1>2. form \in [Goods -> [fields : 0..MaxFields, version : Nat]] /\ edits \in 0..MaxEdits
  BY DEF TypeOK
<1>3. [fields |-> n, version |-> form[g].version + 1] \in [fields : 0..MaxFields, version : Nat]
  BY <1>1, <1>2
<1>4. form' \in [Goods -> [fields : 0..MaxFields, version : Nat]]
  BY <1>1, <1>2, <1>3
<1> QED
  BY <1>1, <1>2, <1>4, FormsAssumption DEF FormTyped

\* The handlers that read: the drafts and orders stay as they are.
LEMMA StartStep ==
  ASSUME TypeOK, NEW t \in Tasks, NEW g \in Goods, NEW q \in Quantities, StartIntake(t, g, q)
  PROVE  TypeOK' /\ UNCHANGED <<drafts, orders>> /\ task'[t].kind = "open"
         /\ \A u \in Tasks : u # t => task'[u] = task[u]
<1>1. /\ task[t] = Idle
      /\ chat' = [chat EXCEPT !.goods = g, !.quantity = q]
      /\ Find(t, g, q, FALSE)
      /\ UNCHANGED <<form, edits, drafts, orders, review>>
  BY DEF StartIntake, Find
<1>2. ChatTyped'
  BY <1>1 DEF TypeOK, ChatTyped
<1> QED
  BY <1>1, <1>2, FindStep, IntakePartsNext, OrdersStay, FormStays DEF TypeOK

LEMMA ResumeStep ==
  ASSUME TypeOK, NEW t \in Tasks, ResumeIntake(t)
  PROVE  TypeOK' /\ UNCHANGED <<drafts, orders>> /\ task'[t].kind = "open"
         /\ \A u \in Tasks : u # t => task'[u] = task[u]
<1>1. /\ chat.goods # NoGoods
      /\ Find(t, chat.goods, chat.quantity, TRUE)
      /\ UNCHANGED <<form, edits, drafts, orders, review, chat>>
  BY DEF ResumeIntake, Find
<1>2. ChatTyped' /\ chat.goods \in Goods /\ chat.quantity \in Quantities
  BY <1>1 DEF TypeOK, ChatTyped
<1> QED
  BY <1>1, <1>2, FindStep, IntakePartsNext, OrdersStay, FormStays DEF TypeOK

LEMMA ReadStep ==
  ASSUME TypeOK, Unstarted, NEW t \in Tasks, ReadAnswer(t)
  PROVE  /\ TypeOK' /\ UNCHANGED <<drafts, orders>>
         /\ UNCHANGED task
            \/ /\ \A u \in Tasks : u # t => task'[u] = task[u]
               /\ task'[t].kind = "answer" /\ chat.draft \in DOMAIN drafts
               /\ task'[t].step = drafts[chat.draft].step
               /\ task'[t].answers = drafts[chat.draft].answers
<1> DEFINE d == chat.draft
           steps == Steps(chat.goods, chat.quantity)
           w == [kind |-> "answer", draft |-> d, step |-> drafts[d].step,
                 answers |-> drafts[d].answers, steps |-> steps]
<1>1. /\ chat.asking
      /\ UNCHANGED <<form, edits, drafts, orders>>
  BY DEF ReadAnswer
<1>2. DOMAIN drafts = 1..Len(drafts) /\ Len(drafts) \in Nat /\ \A e \in DOMAIN drafts : drafts[e] \in Draft
  BY DraftTyped
<1>3. chat \in [goods : Goods \union {NoGoods}, quantity : Quantities,
                draft : 0..Len(drafts), asking : BOOLEAN]
      /\ review \in 0..Len(drafts)
  BY DEF TypeOK
<1>4. CASE ~Held
  <2>1. chat' = [chat EXCEPT !.asking = FALSE] /\ UNCHANGED <<task, review>>
    BY <1>4 DEF ReadAnswer
  <2>2. ChatTyped'
    BY <1>1, <1>3, <2>1 DEF ChatTyped
  <2> QED
    BY <1>1, <2>1, <2>2, IntakePartsNext, OrdersStay, FormStays, TasksStay DEF TypeOK
<1>5. CASE Held /\ drafts[d].step >= steps
  <2>1. Render(d, drafts[d].step, steps, chat) /\ UNCHANGED task
    BY <1>5 DEF ReadAnswer
  <2>2. ChatTyped'
    <3>1. d \in 0..Len(drafts') /\ Len(drafts') \in Nat /\ Len(drafts') >= Len(drafts)
      BY <1>1, <1>2, <1>3
    <3> HIDE DEF d, steps
    <3> QED
      BY <1>2, <1>3, <2>1, <3>1, Rendered
  <2> QED
    BY <1>1, <2>1, <2>2, IntakePartsNext, OrdersStay, FormStays, TasksStay DEF TypeOK
<1>6. CASE Held /\ ~(drafts[d].step >= steps)
  <2>1. task' = [task EXCEPT ![t] = w] /\ UNCHANGED <<chat, review>>
    BY <1>6 DEF ReadAnswer
  <2>2. d \in DOMAIN drafts /\ d \in Nat /\ drafts[d] \in Draft
    BY <1>2, <1>3, <1>6 DEF Held
  <2>3. steps \in Nat
    <3>1. chat.goods \in Goods /\ chat.quantity \in Quantities
      BY <1>1, <1>3 DEF Unstarted
    <3> QED
      BY <3>1, FormsTyped
  <2>4. w \in Answering
    BY <2>2, <2>3 DEF Answering, Draft
  <2>5. w \in Work /\ Founded(w, DOMAIN drafts')
    BY <1>1, <2>2, <2>4 DEF Work, Founded
  <2>6. ChatTyped'
    BY <1>1, <1>3, <2>1 DEF ChatTyped
  <2>7. task \in [Tasks -> Work]
    BY IntakeParts DEF TasksTyped
  <2> HIDE DEF w
  <2>8. TasksTyped'
    BY <1>1, <2>1, <2>5, TaskPut
  <2>9. task'[t] = w /\ \A u \in Tasks : u # t => task'[u] = task[u]
    BY <2>1, <2>7
  <2> QED
    BY <1>1, <2>2, <2>6, <2>8, <2>9, IntakePartsNext, OrdersStay, FormStays DEF TypeOK, w
<1> QED
  BY <1>4, <1>5, <1>6

LEMMA CancelStep ==
  ASSUME TypeOK, NEW t \in Tasks, Cancel(t)
  PROVE  /\ TypeOK' /\ UNCHANGED <<drafts, orders>>
         /\ \A u \in Tasks : task'[u] = task[u] \/ task'[u].kind = "close"
         /\ chat' = chat \/ (chat' = [chat EXCEPT !.asking = FALSE] /\ UNCHANGED task)
<1>1. /\ drafts # <<>>
      /\ UNCHANGED <<form, edits, drafts, orders, review>>
  BY DEF Cancel
<1>2. chat \in [goods : Goods \union {NoGoods}, quantity : Quantities,
                draft : 0..Len(drafts), asking : BOOLEAN]
      /\ review \in 0..Len(drafts)
  BY DEF TypeOK
<1>3. CASE Held
  <2> DEFINE w == Closing(chat.draft, "cancelled")
  <2>1. task' = [task EXCEPT ![t] = w] /\ UNCHANGED chat
    BY <1>3 DEF Cancel
  <2>2. chat.draft \in DOMAIN drafts
    BY <1>2, <1>3, DraftTyped DEF Held
  <2>3. w \in Work /\ w.kind = "close" /\ Founded(w, DOMAIN drafts')
    BY <1>1, <2>2, DraftTyped DEF Closing, Work, Leaving, Founded
  <2>4. task \in [Tasks -> Work]
    BY IntakeParts DEF TasksTyped
  <2> HIDE DEF w
  <2>5. TasksTyped' /\ ChatTyped'
    BY <1>1, <1>2, <2>1, <2>3, TaskPut DEF ChatTyped
  <2> QED
    BY <1>1, <2>1, <2>3, <2>4, <2>5, IntakePartsNext, OrdersStay, FormStays DEF TypeOK
<1>4. CASE ~Held
  <2>1. chat' = [chat EXCEPT !.asking = FALSE] /\ UNCHANGED task
    BY <1>4 DEF Cancel
  <2>2. ChatTyped'
    BY <1>1, <1>2, <2>1 DEF ChatTyped
  <2> QED
    BY <1>1, <2>1, <2>2, IntakePartsNext, OrdersStay, FormStays, TasksStay DEF TypeOK
<1> QED
  BY <1>3, <1>4

LEMMA ConfirmStep ==
  ASSUME TypeOK, Unstarted, NEW t \in Tasks, Confirm(t)
  PROVE  /\ TypeOK' /\ UNCHANGED <<drafts, orders>> /\ chat.draft # 0
         /\ \A u \in Tasks : task'[u] = task[u] \/ task'[u].kind \in {"close", "buy"}
         /\ chat' = chat \/ (chat' = [chat EXCEPT !.asking = FALSE] /\ UNCHANGED task)
<1> DEFINE d == chat.draft
           buy == [kind |-> "buy", draft |-> d, goods |-> chat.goods, quantity |-> chat.quantity]
<1>1. d # 0 /\ UNCHANGED <<form, edits, drafts, orders, review>>
  BY DEF Confirm
<1>2. chat \in [goods : Goods \union {NoGoods}, quantity : Quantities,
                draft : 0..Len(drafts), asking : BOOLEAN]
      /\ review \in 0..Len(drafts)
  BY DEF TypeOK
<1>3. d \in DOMAIN drafts /\ d \in Nat
  BY <1>1, <1>2, DraftTyped
<1>4. chat.goods \in Goods /\ chat.quantity \in Quantities
  BY <1>1, <1>2 DEF Unstarted
<1>5. CASE ~Held
  <2>1. chat' = [chat EXCEPT !.asking = FALSE] /\ UNCHANGED task
    BY <1>5 DEF Confirm
  <2>2. ChatTyped'
    BY <1>1, <1>2, <2>1 DEF ChatTyped
  <2> QED
    BY <1>1, <2>1, <2>2, IntakePartsNext, OrdersStay, FormStays, TasksStay DEF TypeOK
<1>6. CASE Held
  <2>1. UNCHANGED chat
        /\ \E w \in {Closing(d, "expired"), Closing(d, "invalidated"), buy} :
             task' = [task EXCEPT ![t] = w]
    BY <1>6 DEF Confirm
  <2>2. PICK w \in {Closing(d, "expired"), Closing(d, "invalidated"), buy} :
          task' = [task EXCEPT ![t] = w]
    BY <2>1
  <2>3. w \in Leaving \union Buying /\ w.draft = d
    BY <1>3, <1>4 DEF Closing, Leaving, Buying
  <2>4. w \in Work /\ w.kind \in {"close", "buy"} /\ Founded(w, DOMAIN drafts')
    BY <1>1, <1>3, <2>3 DEF Work, Leaving, Buying, Founded
  <2>5. task \in [Tasks -> Work]
    BY IntakeParts DEF TasksTyped
  <2>6. TasksTyped' /\ ChatTyped'
    BY <1>1, <1>2, <2>1, <2>2, <2>4, TaskPut DEF ChatTyped
  <2> QED
    BY <1>1, <2>1, <2>2, <2>4, <2>5, <2>6, IntakePartsNext, OrdersStay, FormStays DEF TypeOK
<1> QED
  BY <1>5, <1>6

\* A handler that was going to buy gives up.
LEMMA RefuseStep ==
  ASSUME TypeOK, NEW t \in Tasks, Refuse(t)
  PROVE  /\ TypeOK' /\ UNCHANGED <<drafts, orders, chat>>
         /\ \A u \in Tasks : task'[u] = task[u] \/ task'[u] = Idle
<1>1. task' = [task EXCEPT ![t] = Idle] /\ UNCHANGED <<form, edits, drafts, orders, chat, review>>
  BY DEF Refuse
<1>2. Idle \in Work /\ Founded(Idle, DOMAIN drafts')
  BY DEF Work, Founded, Idle
<1>3. task \in [Tasks -> Work]
  BY IntakeParts DEF TasksTyped
<1>4. TasksTyped' /\ ChatTyped'
  BY <1>1, <1>2, TaskPut DEF TypeOK, ChatTyped
<1> QED
  BY <1>1, <1>3, <1>4, IntakePartsNext, OrdersStay, FormStays DEF TypeOK

\* What a step does to the drafts is one thing, and what it does to the paid orders is
\* nothing, unless it buys.
OrdersMove ==
  \/ UNCHANGED orders
  \/ /\ DOMAIN orders' = 1..(Len(orders) + 1)
     /\ \A o \in DOMAIN orders : orders'[o] = orders[o]
     /\ orders'[Len(orders) + 1].draft \in DOMAIN drafts
     /\ drafts[orders'[Len(orders) + 1].draft].status = "pending"
     /\ drafts'[orders'[Len(orders) + 1].draft].status = "consumed"
     /\ orders'[Len(orders) + 1].fingerprint = drafts[orders'[Len(orders) + 1].draft].fingerprint

LEMMA IntakeStep ==
  ASSUME IntakeInv, [Next]_vars
  PROVE  TypeOK' /\ DraftsMove /\ OrdersMove /\ CopiesWhole' /\ Unstarted'
<1> USE DEF IntakeInv
<1>1. ASSUME NEW t \in Tasks, NEW g \in Goods, NEW q \in Quantities, StartIntake(t, g, q)
      PROVE  TypeOK' /\ DraftsMove /\ OrdersMove /\ CopiesWhole' /\ Unstarted'
  <2>1. chat'.goods # NoGoods
    BY <1>1, FormsAssumption DEF StartIntake, TypeOK
  <2> QED
    BY <1>1, <2>1, StartStep, DraftsStay DEF OrdersMove, CopiesWhole, Unstarted
<1>2. ASSUME NEW t \in Tasks, ResumeIntake(t)
      PROVE  TypeOK' /\ DraftsMove /\ OrdersMove /\ CopiesWhole' /\ Unstarted'
  <2>1. chat'.goods # NoGoods
    BY <1>2 DEF ResumeIntake
  <2> QED
    BY <1>2, <2>1, ResumeStep, DraftsStay DEF OrdersMove, CopiesWhole, Unstarted
<1>3. ASSUME NEW t \in Tasks, OpenDraft(t)
      PROVE  TypeOK' /\ DraftsMove /\ OrdersMove /\ CopiesWhole' /\ Unstarted'
  <2>1. task[t].kind = "open" /\ UNCHANGED orders /\ task' = [task EXCEPT ![t] = Idle]
    BY <1>3 DEF OpenDraft
  <2>2. chat'.goods = chat.goods
    BY <1>3 DEF OpenDraft, Render, TypeOK
  <2>3. \A u \in Tasks : task'[u] = task[u] \/ task'[u] = Idle
    BY <2>1 DEF TypeOK
  <2>4. chat.goods # NoGoods
    BY <2>1 DEF Unstarted, Idle
  <2> QED
    BY <1>3, <2>1, <2>2, <2>3, <2>4, OpenStep DEF OrdersMove, CopiesWhole, Unstarted, Idle
<1>4. CASE StartOver
  <2>1. UNCHANGED <<task, orders>> /\ chat.goods # NoGoods /\ chat'.goods = chat.goods
    BY <1>4 DEF StartOver, Render, TypeOK
  <2> QED
    BY <1>4, <2>1, StartOverStep DEF OrdersMove, CopiesWhole, Unstarted
<1>5. ASSUME NEW t \in Tasks, ReadAnswer(t)
      PROVE  TypeOK' /\ DraftsMove /\ OrdersMove /\ CopiesWhole' /\ Unstarted'
  <2>1. chat.asking /\ chat'.goods = chat.goods
    BY <1>5 DEF ReadAnswer, Render, TypeOK
  <2>2. chat'.goods # NoGoods
    BY <2>1 DEF Unstarted
  <2>3. CopiesWhole'
    BY <1>5, ReadStep DEF CopiesWhole, StepTellsAnswers
  <2> QED
    BY <1>5, <2>2, <2>3, ReadStep, DraftsStay DEF OrdersMove, Unstarted
<1>6. ASSUME NEW t \in Tasks, SaveAnswer(t)
      PROVE  TypeOK' /\ DraftsMove /\ OrdersMove /\ CopiesWhole' /\ Unstarted'
  <2>1. task[t].kind = "answer" /\ UNCHANGED orders /\ task' = [task EXCEPT ![t] = Idle]
    BY <1>6 DEF SaveAnswer
  <2>2. chat'.goods = chat.goods
    BY <1>6 DEF SaveAnswer, Render, TypeOK
  <2>3. \A u \in Tasks : task'[u] = task[u] \/ task'[u] = Idle
    BY <2>1 DEF TypeOK
  <2>4. chat.goods # NoGoods
    BY <2>1 DEF Unstarted, Idle
  <2> QED
    BY <1>6, <2>1, <2>2, <2>3, <2>4, SaveStep DEF OrdersMove, CopiesWhole, Unstarted, Idle
<1>7. ASSUME NEW t \in Tasks, Cancel(t)
      PROVE  TypeOK' /\ DraftsMove /\ OrdersMove /\ CopiesWhole' /\ Unstarted'
  <2>1. chat'.goods = chat.goods
    BY <1>7, CancelStep DEF TypeOK
  <2>2. Held => chat.goods # NoGoods
    BY DEF Unstarted, Held
  <2>3. ~Held => chat' = [chat EXCEPT !.asking = FALSE] /\ UNCHANGED task
    BY <1>7 DEF Cancel
  <2>4. Unstarted'
    BY <2>1, <2>2, <2>3 DEF Unstarted, TypeOK
  <2> QED
    BY <1>7, <2>4, CancelStep, DraftsStay DEF OrdersMove, CopiesWhole
<1>8. ASSUME NEW t \in Tasks, CloseDraft(t)
      PROVE  TypeOK' /\ DraftsMove /\ OrdersMove /\ CopiesWhole' /\ Unstarted'
  <2>1. task[t].kind = "close" /\ UNCHANGED orders /\ task' = [task EXCEPT ![t] = Idle]
        /\ chat' = [chat EXCEPT !.asking = FALSE]
    BY <1>8 DEF CloseDraft
  <2>2. chat'.goods = chat.goods
    BY <2>1 DEF TypeOK
  <2>3. \A u \in Tasks : task'[u] = task[u] \/ task'[u] = Idle
    BY <2>1 DEF TypeOK
  <2>4. chat.goods # NoGoods
    BY <2>1 DEF Unstarted, Idle
  <2> QED
    BY <1>8, <2>1, <2>2, <2>3, <2>4, CloseStep DEF OrdersMove, CopiesWhole, Unstarted, Idle
<1>9. ASSUME NEW t \in Tasks, Confirm(t)
      PROVE  TypeOK' /\ DraftsMove /\ OrdersMove /\ CopiesWhole' /\ Unstarted'
  <2>1. chat'.goods = chat.goods
    BY <1>9, ConfirmStep DEF TypeOK
  <2>2. chat.goods # NoGoods
    BY <1>9, ConfirmStep DEF Unstarted
  <2> QED
    BY <1>9, <2>1, <2>2, ConfirmStep, DraftsStay DEF OrdersMove, CopiesWhole, Unstarted
<1>10. ASSUME NEW t \in Tasks, Buy(t)
       PROVE  TypeOK' /\ DraftsMove /\ OrdersMove /\ CopiesWhole' /\ Unstarted'
  <2>1. task[t].kind = "buy" /\ task' = [task EXCEPT ![t] = Idle]
        /\ chat' = [chat EXCEPT !.asking = FALSE]
    BY <1>10 DEF Buy
  <2>2. chat'.goods = chat.goods
    BY <2>1 DEF TypeOK
  <2>3. \A u \in Tasks : task'[u] = task[u] \/ task'[u] = Idle
    BY <2>1 DEF TypeOK
  <2>4. chat.goods # NoGoods
    BY <2>1 DEF Unstarted, Idle
  <2>5. OrdersMove
    BY <1>10, BuyStep DEF OrdersMove
  <2>6. CopiesWhole' /\ Unstarted'
    BY <2>2, <2>3, <2>4 DEF CopiesWhole, Unstarted, Idle
  <2> QED
    BY <1>10, <2>5, <2>6, BuyStep
<1>11. ASSUME NEW t \in Tasks, Refuse(t)
       PROVE  TypeOK' /\ DraftsMove /\ OrdersMove /\ CopiesWhole' /\ Unstarted'
  BY <1>11, RefuseStep, DraftsStay DEF OrdersMove, CopiesWhole, Unstarted, Idle
<1>12. ASSUME NEW g \in Goods, EditForm(g) \/ QuickFields(g)
       PROVE  TypeOK' /\ DraftsMove /\ OrdersMove /\ CopiesWhole' /\ Unstarted'
  <2>1. form[g].fields \in Nat
    BY DEF TypeOK
  <2>2. PICK n \in Int : Revise(g, n)
    BY <1>12, <2>1, FormsAssumption DEF EditForm, QuickFields
  <2>3. FormTyped' /\ UNCHANGED <<drafts, orders, chat, task, review>>
    BY <2>2, ReviseStep
  <2>4. ChatTyped'
    BY <2>3 DEF TypeOK, ChatTyped
  <2>5. TypeOK'
    BY <2>3, <2>4, IntakePartsNext, OrdersStay, TasksStay DEF TypeOK
  <2> QED
    BY <2>3, <2>5, DraftsStay DEF OrdersMove, CopiesWhole, Unstarted
<1>13. ASSUME NEW d \in DOMAIN drafts, LapseDraft(d)
       PROVE  TypeOK' /\ DraftsMove /\ OrdersMove /\ CopiesWhole' /\ Unstarted'
  BY <1>13, LapseStep DEF LapseDraft, OrdersMove, CopiesWhole, Unstarted
<1>14. CASE UNCHANGED vars
  <2>1. UNCHANGED <<form, edits, drafts, orders, chat, task, review>>
    BY <1>14 DEF vars
  <2>2. ChatTyped'
    BY <2>1 DEF TypeOK, ChatTyped
  <2>3. TypeOK'
    BY <2>1, <2>2, IntakePartsNext, OrdersStay, FormStays, TasksStay DEF TypeOK
  <2> QED
    BY <2>1, <2>3, DraftsStay DEF OrdersMove, CopiesWhole, Unstarted
<1> QED
  BY <1>1, <1>2, <1>3, <1>4, <1>5, <1>6, <1>7, <1>8, <1>9, <1>10, <1>11, <1>12, <1>13, <1>14
  DEF Next

-------------------------------------------------------------------------------
(* Theorems about the form *)

LEMMA IntakeInit ==
  ASSUME Init
  PROVE  IntakeInv
<1>1. (CHOOSE q \in Quantities : TRUE) \in Quantities
  BY FormsAssumption
<1>2. <<>> \in Seq(Draft) /\ <<>> \in Seq(Order) /\ Len(<<>>) = 0 /\ DOMAIN <<>> = {}
  BY EmptySeq
<1>3. edits \in 0..MaxEdits
  BY FormsAssumption DEF Init
<1>4. form \in [Goods -> [fields : 0..MaxFields, version : Nat]]
  BY DEF Init
<1>5. TypeOK
  BY <1>1, <1>2, <1>3, <1>4 DEF Init, TypeOK, Idle
<1> QED
  BY <1>2, <1>5 DEF Init, IntakeInv, Unstarted, StepTellsAnswers, CopiesWhole, PaidForForm,
    PaidIsClosed, PaidOnce, Idle

LEMMA IntakeInvStep ==
  ASSUME IntakeInv, [Next]_vars
  PROVE  IntakeInv'
<1>1. TypeOK' /\ DraftsMove /\ OrdersMove /\ CopiesWhole' /\ Unstarted'
  BY IntakeStep
<1>2. StepTellsAnswers'
  BY <1>1 DEF DraftsMove
<1>3. DOMAIN orders = 1..Len(orders) /\ Len(orders) \in Nat
      /\ \A o \in DOMAIN orders : orders[o].draft \in DOMAIN drafts
  BY LenProperties DEF IntakeInv, TypeOK
<1>4. \A d \in DOMAIN drafts :
        /\ drafts'[d].fingerprint = drafts[d].fingerprint
        /\ drafts'[d].status = "pending" => drafts[d].status = "pending"
  BY <1>1 DEF DraftsMove
<1>5. CASE UNCHANGED orders
  BY <1>1, <1>2, <1>3, <1>4, <1>5 DEF IntakeInv, PaidForForm, PaidIsClosed, PaidOnce
<1>6. CASE ~UNCHANGED orders
  <2> DEFINE new == Len(orders) + 1
  <2>1. /\ DOMAIN orders' = 1..new
        /\ \A o \in DOMAIN orders : orders'[o] = orders[o]
        /\ orders'[new].draft \in DOMAIN drafts
        /\ drafts[orders'[new].draft].status = "pending"
        /\ drafts'[orders'[new].draft].status = "consumed"
        /\ orders'[new].fingerprint = drafts[orders'[new].draft].fingerprint
    BY <1>1, <1>6 DEF OrdersMove
  <2>2. \A o \in DOMAIN orders' : o \in DOMAIN orders \/ o = new
    BY <1>3, <2>1
  <2>3. \A o \in DOMAIN orders :
          /\ orders'[o].draft \in DOMAIN drafts
          /\ drafts[orders'[o].draft].status # "pending"
          /\ orders'[o].fingerprint = drafts[orders'[o].draft].fingerprint
    BY <1>3, <2>1 DEF IntakeInv, PaidIsClosed, PaidForForm
  <2> HIDE DEF new
  <2>4. PaidForForm'
    BY <1>4, <2>1, <2>2, <2>3 DEF PaidForForm
  <2>5. PaidIsClosed'
    BY <1>4, <2>1, <2>2, <2>3 DEF PaidIsClosed
  <2>6. PaidOnce'
    BY <2>1, <2>2, <2>3 DEF IntakeInv, PaidOnce
  <2> QED
    BY <1>1, <1>2, <2>4, <2>5, <2>6 DEF IntakeInv
<1> QED
  BY <1>5, <1>6

LEMMA IntakeInvHolds == Spec => []IntakeInv
<1>1. Init => IntakeInv
  BY IntakeInit
<1>2. IntakeInv /\ [Next]_vars => IntakeInv'
  BY IntakeInvStep
<1> QED
  BY <1>1, <1>2, PTL DEF Spec

\* Every variable keeps its type, and no handler holds a draft that is not there, although
\* all but the purchase read a draft and write it in steps apart.
THEOREM IntakeTypeCorrect == Spec => []TypeOK
<1>1. IntakeInv => TypeOK
  BY DEF IntakeInv
<1> QED
  BY <1>1, IntakeInvHolds, PTL

\* However many answers are handled at once (process_draft_answer and save_draft_answer),
\* the step of a draft counts its answers: a copy that is written back was whole when it
\* was read, since nothing ever writes the one without the other.
THEOREM StepsTellAnswers == Spec => []StepTellsAnswers
<1>1. IntakeInv => StepTellsAnswers
  BY DEF IntakeInv
<1> QED
  BY <1>1, IntakeInvHolds, PTL

\* However often an administrator edits a form between its draft and the confirmation, an
\* order is paid for with the form its draft was begun with (the check under the lock in
\* buy_item_transaction).
THEOREM OrdersPaidForForm == Spec => []PaidForForm
<1>1. IntakeInv => PaidForForm
  BY DEF IntakeInv
<1> QED
  BY <1>1, IntakeInvHolds, PTL

\* However many confirmations, cancellations and expiries are handled at once, a draft is
\* paid for once: no write takes a draft back to "pending", not even a late one over
\* "consumed".
THEOREM DraftsPaidOnce == Spec => []PaidOnce
<1>1. IntakeInv => PaidOnce
  BY DEF IntakeInv
<1> QED
  BY <1>1, IntakeInvHolds, PTL

\* No step pays for a draft that is not pending in the state it is taken in, whatever the
\* handler saw before.
THEOREM ClosedDraftsUnpaid == Spec => ClosedNeverPaid
<1>1. ASSUME IntakeInv, [Next]_vars
      PROVE  [ClosedStaysUnpaid]_vars
  <2>1. OrdersMove
    BY <1>1, IntakeStep
  <2>2. DOMAIN orders = 1..Len(orders) /\ Len(orders) \in Nat
    BY <1>1, LenProperties DEF IntakeInv, TypeOK
  <2>3. \A o \in DOMAIN orders' \ DOMAIN orders : o = Len(orders) + 1 /\ ~UNCHANGED orders
    BY <2>1, <2>2 DEF OrdersMove
  <2> QED
    BY <2>1, <2>3 DEF OrdersMove, ClosedStaysUnpaid
<1> QED
  BY <1>1, IntakeInvHolds, PTL DEF Spec, ClosedNeverPaid

===============================================================================
