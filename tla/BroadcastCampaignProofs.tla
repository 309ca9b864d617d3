------------------------- MODULE BroadcastCampaignProofs -------------------------
(***************************************************************************)
(* What BroadcastCampaign guarantees for any number of campaigns, users,   *)
(* flood limits and faults, and any size of a batch.                       *)
(***************************************************************************)
EXTENDS BroadcastCampaign, FiniteSetTheorems, TLAPS

\* A campaign has no recipients before its confirmation commits.
NoRows(r) == campaign[r[1]] \in {"none", "draft"} => recipient[r] = "none"

TypeInv == TypeOK /\ \A r \in Rows : NoRows(r)

LEMMA RowParts == \A r \in Rows : r[1] \in Campaigns /\ r[2] \in Users
  BY DEF Rows

\* Every step keeps the type of the state, and drafts without recipients.
LEMMA TypeInvStep == TypeInv /\ [Next]_vars => TypeInv'
<1> SUFFICES ASSUME TypeInv, [Next]_vars PROVE TypeInv'
  OBVIOUS
<1> USE DEF TypeInv, TypeOK, NoRows, Active, Final
<1>1. ASSUME NEW c \in Campaigns, CreateDraft(c) PROVE TypeInv'
  BY <1>1, RowParts DEF CreateDraft, Drafted
<1>2. ASSUME NEW c \in Campaigns, CountActive(c) PROVE TypeInv'
  BY <1>2 DEF CountActive
<1>3. ASSUME NEW c \in Campaigns, CommitConfirm(c) PROVE TypeInv'
  <2>1. CASE IndexAllows
    BY <1>3, <2>1, RowParts DEF CommitConfirm
  <2>2. CASE ~IndexAllows
    BY <1>3, <2>2 DEF CommitConfirm
  <2> QED BY <2>1, <2>2
<1>4. ASSUME NEW c \in Campaigns, Cancel(c) PROVE TypeInv'
  BY <1>4, RowParts DEF Cancel, Cancellable
<1>5. ASSUME NEW u \in Users, SetBlocked(u) PROVE TypeInv'
  BY <1>5 DEF SetBlocked
<1>6. CASE Restart
  BY <1>6 DEF Restart, AfterRestart
<1>7. ASSUME NEW c \in Campaigns, BeginRun(c) PROVE TypeInv'
  BY <1>7, RowParts DEF BeginRun
<1>8. ASSUME NEW c \in Campaigns, ClaimBatch(c) PROVE TypeInv'
  BY <1>8 DEF ClaimBatch, Running, DueRows
<1>9. ASSUME NEW c \in Campaigns, Complete(c) PROVE TypeInv'
  BY <1>9, RowParts DEF Complete
<1>10. CASE NothingToDo \/ Gathered \/ Poll
  BY <1>10 DEF NothingToDo, Gathered, Poll
<1>11. ASSUME NEW r \in Rows, ComeDue(r) PROVE TypeInv'
  BY <1>11 DEF ComeDue
<1>12. ASSUME NEW r \in Rows, Read(r) PROVE TypeInv'
  BY <1>12 DEF Read, Answers
<1>13. ASSUME NEW r \in Rows, Send(r) PROVE TypeInv'
  BY <1>13, RowParts DEF Send, Deliver, CallTelegram, Answers
<1>14. ASSUME NEW r \in Rows, HitFloodLimit(r) PROVE TypeInv'
  BY <1>14, RowParts, LimitsAssumption DEF HitFloodLimit, CallTelegram, Answers
<1>15. ASSUME NEW r \in Rows, Commit(r) PROVE TypeInv'
  BY <1>15, RowParts DEF Commit, Answers
<1>16. ASSUME NEW r \in Rows, FailTask(r) PROVE TypeInv'
  BY <1>16, LimitsAssumption DEF FailTask, Blame
<1>17. CASE FailLoop
  BY <1>17, LimitsAssumption DEF FailLoop, Blame
<1>18. CASE Crash
  BY <1>18, LimitsAssumption DEF Crash, Blame
<1>19. CASE UNCHANGED vars
  BY <1>19 DEF vars
<1> QED
  BY <1>1, <1>2, <1>3, <1>4, <1>5, <1>6, <1>7, <1>8, <1>9, <1>10, <1>11, <1>12,
     <1>13, <1>14, <1>15, <1>16, <1>17, <1>18, <1>19 DEF Next, LoopStep, TaskStep

LEMMA TypeInvariant == Spec => []TypeInv
<1>1. Init => TypeInv
  BY LimitsAssumption DEF Init, TypeInv, TypeOK, NoRows, Rows
<1> QED
  BY <1>1, TypeInvStep, PTL DEF Spec

\* The state keeps its shape: a recipient has a task only while it is being sent to
\* and the loop waits for its batch (broadcast_dispatcher.py:97-143).
THEOREM TypeCorrect == Spec => []TypeOK
  BY TypeInvariant, PTL DEF TypeInv

-------------------------------------------------------------------------------
(* Messages *)

\* What a row and its task say of the messages its recipient got.
Heard(r) ==
  /\ delivered[r] \in {0, 1}
  /\ recipient[r] \in {"none", "pending"} => delivered[r] = 0
  /\ task[r] \in {"read", "send", "pending", "blocked", "failed"} => delivered[r] = 0
  /\ "sent" \in {task[r], recipient[r]} => delivered[r] = 1

HeardInv == \A r \in Rows : Heard(r)

LEMMA HeardStep == TypeInv /\ HeardInv /\ [Next]_vars => HeardInv'
<1> SUFFICES ASSUME TypeInv, HeardInv, [Next]_vars, NEW m \in Rows PROVE Heard(m)'
  BY DEF HeardInv
<1> USE DEF Heard
<1>0. /\ Heard(m)
      /\ recipient \in [Rows -> {"none", "pending", "sending"} \cup Final]
      /\ task \in [Rows -> {"idle", "read", "send"} \cup Answers]
      /\ delivered \in [Rows -> Nat]
      /\ task[m] # "idle" => recipient[m] = "sending" /\ loop = "gather"
      /\ campaign[m[1]] \in {"none", "draft"} => recipient[m] = "none"
      /\ \A c \in confirming : campaign[c] = "draft"
  BY DEF HeardInv, TypeInv, TypeOK, NoRows
<1>1. ASSUME NEW c \in Campaigns, CommitConfirm(c) PROVE Heard(m)'
  BY <1>0, <1>1, RowParts DEF CommitConfirm
<1>2. ASSUME NEW c \in Campaigns, Cancel(c) PROVE Heard(m)'
  BY <1>0, <1>2 DEF Cancel, Cancellable
<1>3. CASE Restart
  BY <1>0, <1>3 DEF Restart, AfterRestart
<1>4. ASSUME NEW c \in Campaigns, ClaimBatch(c) PROVE Heard(m)'
  BY <1>0, <1>4 DEF ClaimBatch, DueRows
<1>5. ASSUME NEW r \in Rows, Read(r) PROVE Heard(m)'
  BY <1>0, <1>5 DEF Read
<1>6. ASSUME NEW r \in Rows, Send(r) PROVE Heard(m)'
  BY <1>0, <1>6 DEF Send, Deliver
<1>7. ASSUME NEW r \in Rows, HitFloodLimit(r) PROVE Heard(m)'
  BY <1>0, <1>7 DEF HitFloodLimit
<1>8. ASSUME NEW r \in Rows, Commit(r) PROVE Heard(m)'
  BY <1>0, <1>8 DEF Commit, Answers
<1>9. ASSUME NEW r \in Rows, FailTask(r) PROVE Heard(m)'
  BY <1>0, <1>9 DEF FailTask
<1>10. CASE Crash
  BY <1>0, <1>10 DEF Crash
<1>11. ASSUME \/ \E c \in Campaigns : CreateDraft(c) \/ CountActive(c) \/ BeginRun(c) \/ Complete(c)
              \/ \E u \in Users : SetBlocked(u)
              \/ \E r \in Rows : ComeDue(r)
              \/ NothingToDo \/ Gathered \/ Poll \/ FailLoop \/ UNCHANGED vars
       PROVE  Heard(m)'
  <2>1. UNCHANGED <<recipient, task, delivered>>
    BY <1>11 DEF CreateDraft, Drafted, CountActive, BeginRun, Complete, SetBlocked, ComeDue,
                 NothingToDo, Gathered, Poll, FailLoop, vars
  <2> QED BY <1>0, <2>1
<1> QED
  BY <1>1, <1>2, <1>3, <1>4, <1>5, <1>6, <1>7, <1>8, <1>9, <1>10, <1>11
     DEF Next, LoopStep, TaskStep

LEMMA HeardInvariant == Spec => []HeardInv
<1>1. Init => HeardInv
  BY DEF Init, HeardInv, Heard
<1> QED
  BY <1>1, HeardStep, TypeInvariant, PTL DEF Spec

\* Through flood limits, failed transactions, crashes and restarts nobody gets a
\* campaign twice (broadcast_dispatcher.py:64-194).
THEOREM DeliveredAtMostOnce == Spec => []DeliveredOnce
<1>1. HeardInv => DeliveredOnce
  BY DEF HeardInv, Heard, DeliveredOnce
<1> QED
  BY <1>1, HeardInvariant, PTL

-------------------------------------------------------------------------------
(* Campaigns *)

\* The unique index makes one campaign active at a time (models/main.py:1078), also
\* when two confirmations have both counted none.
THEOREM OneCampaignActive == Spec => []OneActive
<1>1. Init => OneActive
  BY DEF Init, OneActive, Active
<1>2. TypeInv /\ OneActive /\ [Next]_vars => OneActive'
  <2> SUFFICES ASSUME TypeInv, OneActive, [Next]_vars PROVE OneActive'
    OBVIOUS
  <2> USE DEF OneActive, Active
  <2>1. ASSUME NEW c \in Campaigns, CommitConfirm(c) PROVE OneActive'
    BY <2>1 DEF CommitConfirm, IndexAllows, NoneActive, TypeInv, TypeOK
  <2>2. ASSUME NEW c \in Campaigns,
               CreateDraft(c) \/ Cancel(c) \/ BeginRun(c) \/ Complete(c)
        PROVE  OneActive'
    <3>1. \A d \in Campaigns : campaign'[d] \in Active => campaign[d] \in Active
      BY <2>2 DEF CreateDraft, Drafted, Cancel, BeginRun, Complete, TypeInv, TypeOK
    <3> QED BY <3>1
  <2>3. CASE UNCHANGED campaign
    BY <2>3
  <2> QED
    BY <2>1, <2>2, <2>3
    DEF Next, LoopStep, TaskStep, CountActive, SetBlocked, Restart, ClaimBatch,
        NothingToDo, Gathered, Poll, ComeDue, Read, Send, HitFloodLimit, Commit,
        FailTask, FailLoop, Crash, vars
<1> QED
  BY <1>1, <1>2, TypeInvariant, PTL DEF Spec

\* No recipient of a completed campaign is left over.
Settled(r) == campaign[r[1]] = "completed" => recipient[r] \in Final \cup {"none"}

SettledInv == \A r \in Rows : Settled(r)

LEMMA SettledStep == TypeInv /\ SettledInv /\ [Next]_vars => SettledInv'
<1> SUFFICES ASSUME TypeInv, SettledInv, [Next]_vars, NEW m \in Rows PROVE Settled(m)'
  BY DEF SettledInv
<1> USE DEF Settled, Final
<1>0. /\ Settled(m)
      /\ campaign \in [Campaigns -> {"none", "draft", "completed", "cancelled"} \cup Active]
      /\ recipient \in [Rows -> {"none", "pending", "sending"} \cup Final]
      /\ task[m] # "idle" => recipient[m] = "sending" /\ loop = "gather"
      /\ \A c \in confirming : campaign[c] = "draft"
  BY DEF SettledInv, TypeInv, TypeOK
<1>1. ASSUME NEW c \in Campaigns, CommitConfirm(c) PROVE Settled(m)'
  BY <1>0, <1>1, RowParts DEF CommitConfirm
<1>2. ASSUME NEW c \in Campaigns, Cancel(c) PROVE Settled(m)'
  BY <1>0, <1>2, RowParts DEF Cancel, Cancellable
<1>3. CASE Restart
  BY <1>0, <1>3 DEF Restart, AfterRestart
<1>4. ASSUME NEW c \in Campaigns, ClaimBatch(c) PROVE Settled(m)'
  BY <1>0, <1>4 DEF ClaimBatch, DueRows, Running
<1>5. ASSUME NEW c \in Campaigns, Complete(c) PROVE Settled(m)'
  BY <1>0, <1>5, RowParts DEF Complete, Over, Open
<1>6. ASSUME NEW c \in Campaigns, CreateDraft(c) \/ BeginRun(c) PROVE Settled(m)'
  BY <1>0, <1>6, RowParts DEF CreateDraft, Drafted, BeginRun
<1>7. ASSUME NEW r \in Rows, Commit(r) PROVE Settled(m)'
  BY <1>0, <1>7 DEF Commit, Answers
<1>8. CASE UNCHANGED <<campaign, recipient>>
  BY <1>0, <1>8
<1> QED
  BY <1>1, <1>2, <1>3, <1>4, <1>5, <1>6, <1>7, <1>8
  DEF Next, LoopStep, TaskStep, CountActive, SetBlocked, NothingToDo, Gathered, Poll,
      ComeDue, Read, Send, HitFloodLimit, FailTask, FailLoop, Crash, vars

LEMMA SettledInvariant == Spec => []SettledInv
<1>1. Init => SettledInv
  BY RowParts DEF Init, SettledInv, Settled
<1> QED
  BY <1>1, SettledStep, TypeInvariant, PTL DEF Spec

\* A completed campaign owes nothing, and whoever counts as sent got the message
\* (broadcast_dispatcher.py:111-126).
THEOREM CompletedCampaignIsOver == Spec => []CompletedIsOver
<1>1. SettledInv /\ HeardInv => CompletedIsOver
  BY DEF SettledInv, Settled, HeardInv, Heard, CompletedIsOver
<1> QED
  BY <1>1, SettledInvariant, HeardInvariant, PTL

-------------------------------------------------------------------------------
(* Cancelled campaigns *)

\* The tasks that may still call Telegram for a campaign.
Calling(c) == {r \in Rows : r[1] = c /\ task[r] \in {"read", "send"}}

\* Calls after the cancellation and calls to come are the batch in flight.
LateOf(c) ==
  /\ late[c] + Cardinality(Calling(c)) <= BatchSize
  /\ campaign[c] # "cancelled" => late[c] = 0

LateInv == \A c \in Campaigns : LateOf(c)

\* Subsets of a campaign's rows are finite.
LEMMA CallingFinite ==
  ASSUME NEW c \in Campaigns, NEW T, \A r \in T : r \in Rows /\ r[1] = c
  PROVE  IsFiniteSet(T) /\ Cardinality(T) \in Nat
<1>1. IsFiniteSet({c} \X Users)
  BY FS_Singleton, FS_Product, AudienceAssumption
<1>2. T \subseteq {c} \X Users
  BY DEF Rows
<1> QED
  BY <1>1, <1>2, FS_Subset, FS_CardinalityType

\* No more tasks than before may call Telegram if none has begun to.
LEMMA CallingShrinks ==
  ASSUME NEW c \in Campaigns,
         \A r \in Rows : task'[r] \in {"read", "send"} => task[r] \in {"read", "send"}
  PROVE  /\ Cardinality(Calling(c)') <= Cardinality(Calling(c))
         /\ Cardinality(Calling(c)) \in Nat /\ Cardinality(Calling(c)') \in Nat
<1>1. Calling(c)' \subseteq Calling(c)
  BY DEF Calling
<1>2. IsFiniteSet(Calling(c))
  BY CallingFinite DEF Calling
<1> QED
  BY <1>1, <1>2, FS_Subset, FS_CardinalityType

\* A task that has called Telegram does not call again.
LEMMA CallCounts ==
  ASSUME TypeInv, LateInv, NEW r \in Rows, task[r] = "send",
         NEW a, a \notin {"read", "send"}, task' = [task EXCEPT ![r] = a],
         CallTelegram(r[1]), UNCHANGED campaign,
         NEW c \in Campaigns
  PROVE  LateOf(c)'
<1>0. /\ late \in [Campaigns -> Nat] /\ LateOf(c)
      /\ task \in [Rows -> {"idle", "read", "send"} \cup Answers]
      /\ r[1] \in Campaigns
  BY RowParts DEF TypeInv, TypeOK, LateInv
<1>1. CASE c # r[1]
  <2>1. Calling(c)' = Calling(c)
    BY <1>0, <1>1 DEF Calling
  <2>2. late'[c] = late[c]
    BY <1>0, <1>1 DEF CallTelegram
  <2> QED BY <1>0, <2>1, <2>2 DEF LateOf
<1>2. CASE c = r[1]
  <2>1. Calling(c)' = Calling(c) \ {r} /\ r \in Calling(c)
    BY <1>0, <1>2 DEF Calling
  <2>2. IsFiniteSet(Calling(c)) /\ Cardinality(Calling(c)) \in Nat
    BY CallingFinite DEF Calling
  <2>3. Cardinality(Calling(c)') = Cardinality(Calling(c)) - 1
    BY <2>1, <2>2, FS_RemoveElement
  <2>4. late'[c] = IF campaign[c] = "cancelled" THEN late[c] + 1 ELSE late[c]
    BY <1>0, <1>2 DEF CallTelegram
  <2>5. late[c] \in Nat /\ BatchSize \in Nat
    BY <1>0, LimitsAssumption
  <2> HIDE DEF Calling
  <2> QED BY <1>0, <2>2, <2>3, <2>4, <2>5 DEF LateOf
<1> QED BY <1>1, <1>2

LEMMA LateStep == TypeInv /\ LateInv /\ [Next]_vars => LateInv'
<1> SUFFICES ASSUME TypeInv, LateInv, [Next]_vars, NEW c \in Campaigns PROVE LateOf(c)'
  BY DEF LateInv
<1>0. /\ LateOf(c)
      /\ late \in [Campaigns -> Nat] /\ late[c] \in Nat
      /\ campaign \in [Campaigns -> {"none", "draft", "completed", "cancelled"} \cup Active]
      /\ task \in [Rows -> {"idle", "read", "send"} \cup Answers]
      /\ BatchSize \in Nat
      /\ \A d \in confirming : campaign[d] = "draft"
      /\ loop # "gather" => \A r \in Rows : task[r] = "idle"
      /\ Cardinality(Calling(c)) \in Nat
  BY LimitsAssumption, CallingFinite DEF LateInv, TypeInv, TypeOK, Calling
\* Steps after which no more tasks may call, and no calls were made.
<1>1. ASSUME \A r \in Rows : task'[r] \in {"read", "send"} => task[r] \in {"read", "send"},
             UNCHANGED late,
             campaign'[c] # "cancelled" => campaign[c] # "cancelled"
      PROVE  LateOf(c)'
  <2>1. /\ Cardinality(Calling(c)') <= Cardinality(Calling(c))
        /\ Cardinality(Calling(c)') \in Nat
    BY <1>1, CallingShrinks
  <2> HIDE DEF Calling
  <2> QED BY <1>0, <1>1, <2>1 DEF LateOf
<1>2. ASSUME NEW d \in Campaigns, CreateDraft(d) \/ BeginRun(d) \/ Complete(d) \/ Cancel(d)
                                   \/ CountActive(d) \/ CommitConfirm(d)
      PROVE  LateOf(c)'
  <2>1. UNCHANGED <<task, late>>
    BY <1>2 DEF CreateDraft, Drafted, BeginRun, Complete, Cancel, CountActive, CommitConfirm
  <2>2. campaign'[c] # "cancelled" => campaign[c] # "cancelled"
    BY <1>0, <1>2
    DEF CreateDraft, Drafted, BeginRun, Complete, Cancel, CountActive, CommitConfirm, Active
  <2> QED BY <1>1, <2>1, <2>2
<1>3. ASSUME NEW d \in Campaigns, ClaimBatch(d) PROVE LateOf(c)'
  <2>1. PICK B \in SUBSET DueRows(d) :
               /\ Cardinality(B) <= BatchSize
               /\ task' = [r \in Rows |-> IF r \in B THEN "read" ELSE task[r]]
    BY <1>3 DEF ClaimBatch
  <2>2. /\ \A r \in Rows : task[r] = "idle"
        /\ UNCHANGED <<campaign, late>> /\ campaign[d] = "running"
    BY <1>0, <1>3 DEF ClaimBatch, Running
  <2>3. CASE c = d
    <3>1. Calling(c)' = B
      BY <2>1, <2>2, <2>3 DEF Calling, DueRows
    <3>2. late[c] = 0 /\ Cardinality(B) \in Nat
      BY <1>0, <2>2, <2>3, <2>1, CallingFinite DEF LateOf, DueRows
    <3> QED BY <1>0, <2>1, <2>2, <3>1, <3>2 DEF LateOf
  <2>4. CASE c # d
    <3>1. Calling(c)' = {}
      BY <2>1, <2>2, <2>4 DEF Calling, DueRows
    <3>2. Calling(c) = {}
      BY <2>2 DEF Calling
    <3> QED BY <1>0, <2>2, <3>1, <3>2 DEF LateOf
  <2> QED BY <2>3, <2>4
<1>4. ASSUME NEW r \in Rows, Send(r) \/ HitFloodLimit(r) PROVE LateOf(c)'
  <2>1. PICK a \in Answers : task' = [task EXCEPT ![r] = a]
    BY <1>4 DEF Send, HitFloodLimit, Answers
  <2>2. task[r] = "send" /\ CallTelegram(r[1]) /\ UNCHANGED campaign
    BY <1>4 DEF Send, HitFloodLimit
  <2>3. a \notin {"read", "send"}
    BY DEF Answers
  <2> QED BY <2>1, <2>2, <2>3, CallCounts
<1>5. ASSUME NEW r \in Rows, Read(r) \/ Commit(r) \/ FailTask(r) \/ ComeDue(r)
      PROVE  LateOf(c)'
  <2>1. UNCHANGED <<campaign, late>>
    BY <1>5 DEF Read, Commit, FailTask, ComeDue
  <2>2. \A m \in Rows : task'[m] \in {"read", "send"} => task[m] \in {"read", "send"}
    BY <1>0, <1>5 DEF Read, Commit, FailTask, ComeDue
  <2> QED BY <1>1, <2>1, <2>2
<1>6. CASE Crash
  BY <1>1, <1>6 DEF Crash
<1>7. CASE UNCHANGED <<campaign, task, late>>
  BY <1>1, <1>7
<1> QED
  BY <1>2, <1>3, <1>4, <1>5, <1>6, <1>7
  DEF Next, LoopStep, TaskStep, SetBlocked, Restart, NothingToDo, Gathered, Poll,
      FailLoop, vars

\* A cancelled campaign calls Telegram for the batch in flight at most
\* (broadcast_service.py:69-85, broadcast_dispatcher.py:145-194).
THEOREM CancelledCampaignStops == Spec => []CancelledForGood
<1>1. Init => LateInv
  <2> SUFFICES ASSUME Init, NEW c \in Campaigns PROVE LateOf(c)
    BY DEF LateInv
  <2>1. Calling(c) = {}
    BY DEF Init, Calling
  <2>2. late[c] = 0 /\ BatchSize \in Nat
    BY LimitsAssumption DEF Init
  <2> QED BY <2>1, <2>2, FS_EmptySet DEF LateOf
<1>2. TypeInv /\ LateInv => CancelledForGood
  <2> SUFFICES ASSUME TypeInv, LateInv, NEW c \in Campaigns PROVE late[c] <= BatchSize
    BY DEF CancelledForGood
  <2>1. Cardinality(Calling(c)) \in Nat
    BY CallingFinite DEF Calling
  <2>2. LateOf(c) /\ late[c] \in Nat /\ BatchSize \in Nat
    BY LimitsAssumption DEF LateInv, TypeInv, TypeOK
  <2> QED BY <2>1, <2>2 DEF LateOf
<1> QED
  BY <1>1, <1>2, LateStep, TypeInvariant, PTL DEF Spec

-------------------------------------------------------------------------------
(* The promise *)

\* A campaign has recipients in its audience only.
AudienceInv == \A r \in Rows : recipient[r] # "none" => r[2] \in Audience[r[1]]

LEMMA AudienceStep == TypeInv /\ AudienceInv /\ [Next]_vars => AudienceInv'
<1> SUFFICES ASSUME TypeInv, AudienceInv, [Next]_vars, NEW m \in Rows, recipient'[m] # "none"
             PROVE  m[2] \in Audience[m[1]]
  BY DEF AudienceInv
<1>0. /\ recipient \in [Rows -> {"none", "pending", "sending"} \cup Final]
      /\ \A r \in Rows : task[r] # "idle" => recipient[r] = "sending"
      /\ recipient[m] # "none" => m[2] \in Audience[m[1]]
  BY DEF TypeInv, TypeOK, AudienceInv
<1>1. ASSUME NEW c \in Campaigns, CommitConfirm(c) PROVE m[2] \in Audience[m[1]]
  BY <1>0, <1>1 DEF CommitConfirm
<1>2. ASSUME NEW c \in Campaigns, Cancel(c) \/ ClaimBatch(c) PROVE m[2] \in Audience[m[1]]
  BY <1>0, <1>2 DEF Cancel, Cancellable, ClaimBatch, DueRows
<1>3. CASE Restart
  BY <1>0, <1>3 DEF Restart
<1>4. ASSUME NEW r \in Rows, Commit(r) PROVE m[2] \in Audience[m[1]]
  BY <1>0, <1>4 DEF Commit, Answers
<1>5. CASE UNCHANGED recipient
  BY <1>0, <1>5
<1> QED
  BY <1>1, <1>2, <1>3, <1>4, <1>5
  DEF Next, LoopStep, TaskStep, CreateDraft, CountActive, SetBlocked, BeginRun, Complete,
      NothingToDo, Gathered, Poll, ComeDue, Read, Send, HitFloodLimit, FailTask, FailLoop,
      Crash, vars

\* A step that takes a campaign from one phase to another and calls nobody.
LEMMA PhaseGoes ==
  ASSUME TypeOK, NEW c \in Campaigns, NEW s, campaign' = [campaign EXCEPT ![c] = s],
         UNCHANGED <<delivered, late>>
  PROVE  /\ Phase' = [Phase EXCEPT ![c] = IF s \in Active THEN "active" ELSE s]
         /\ Phase[c] = IF campaign[c] \in Active THEN "active" ELSE campaign[c]
         /\ s \in Active /\ campaign[c] \in Active => UNCHANGED Promise!announcements
<1>1. campaign' = [d \in Campaigns |-> IF d = c THEN s ELSE campaign[d]]
  BY DEF TypeOK
<1>2. Phase' = [Phase EXCEPT ![c] = IF s \in Active THEN "active" ELSE s]
  BY <1>1 DEF Phase
<1>3. s \in Active /\ campaign[c] \in Active => Phase' = Phase
  BY <1>1 DEF Phase
<1> QED
  BY <1>2, <1>3 DEF Phase, Promise!announcements

\* A task that calls Telegram calls one of the audience, in time.
LEMMA CallStep ==
  ASSUME TypeInv, HeardInv, SettledInv, AudienceInv, CancelledForGood',
         NEW r \in Rows, task[r] = "send", CallTelegram(r[1]), UNCHANGED campaign,
         Deliver(r) \/ UNCHANGED delivered
  PROVE  Promise!AnnouncementsNext
<1> DEFINE c == r[1]
           u == r[2]
<1>1. c \in Campaigns /\ u \in Users /\ r = <<c, u>>
  BY DEF Rows
<1>2. recipient[r] = "sending" /\ delivered[r] = 0
  BY DEF TypeInv, TypeOK, HeardInv, Heard
<1>3. u \in Audience[c]
  BY <1>2 DEF AudienceInv
<1>4. campaign[c] \in Active \cup {"cancelled"}
  BY <1>1, <1>2 DEF TypeInv, TypeOK, NoRows, SettledInv, Settled, Final
<1>5. UNCHANGED Phase /\ Phase[c] = IF campaign[c] = "cancelled" THEN "cancelled" ELSE "active"
  BY <1>1, <1>4 DEF Phase, Active
<1>6. IF campaign[c] = "cancelled"
      THEN late[c] < BatchSize /\ late' = [late EXCEPT ![c] = late[c] + 1]
      ELSE UNCHANGED late
  <2>1. late \in [Campaigns -> Nat] /\ BatchSize \in Nat /\ late'[c] <= BatchSize
    BY <1>1, LimitsAssumption DEF TypeInv, TypeOK, CancelledForGood
  <2>2. late' = [late EXCEPT ![c] = IF campaign[c] = "cancelled" THEN late[c] + 1 ELSE late[c]]
    BY DEF CallTelegram
  <2>3. CASE campaign[c] = "cancelled"
    <3>1. late' = [late EXCEPT ![c] = late[c] + 1]
      BY <2>2, <2>3
    <3>2. late'[c] = late[c] + 1 /\ late[c] \in Nat
      BY <1>1, <2>1, <3>1
    <3> QED
      BY <2>1, <2>3, <3>1, <3>2
  <2>4. CASE campaign[c] # "cancelled"
    <3>1. late' = late
      BY <1>1, <2>1, <2>2, <2>4
    <3> QED
      BY <2>4, <3>1
  <2> HIDE DEF c
  <2> QED
    BY <2>3, <2>4
<1>7. \/ delivered[<<c, u>>] = 0 /\ delivered' = [delivered EXCEPT ![<<c, u>>] = 1]
      \/ UNCHANGED delivered
  BY <1>1, <1>2 DEF Deliver
<1>8. Promise!Call(c, u)
  BY <1>3, <1>5, <1>6, <1>7 DEF Promise!Call
<1> QED
  BY <1>1, <1>8 DEF Promise!AnnouncementsNext

LEMMA PromiseStep ==
  TypeInv /\ HeardInv /\ SettledInv /\ AudienceInv /\ CancelledForGood' /\ [Next]_vars =>
    [Promise!AnnouncementsNext]_(Promise!announcements)
<1> SUFFICES ASSUME TypeInv, HeardInv, SettledInv, AudienceInv, CancelledForGood', [Next]_vars
             PROVE  [Promise!AnnouncementsNext]_(Promise!announcements)
  OBVIOUS
<1> USE DEF Promise!AnnouncementsNext, Promise!Goes, Active
<1>0. TypeOK
  BY DEF TypeInv
<1>1. ASSUME NEW c \in Campaigns, CreateDraft(c) PROVE Promise!Draft(c)
  BY <1>0, <1>1, PhaseGoes DEF CreateDraft, Drafted, Promise!Draft
<1>2. ASSUME NEW c \in Campaigns, CommitConfirm(c)
      PROVE  Promise!Announce(c) \/ UNCHANGED Promise!announcements
  <2>1. CASE IndexAllows
    <3>1. campaign[c] = "draft" /\ \A d \in Campaigns : Phase[d] # "active"
      BY <1>0, <1>2, <2>1 DEF CommitConfirm, IndexAllows, NoneActive, Phase, TypeOK
    <3> QED
      BY <1>0, <1>2, <2>1, <3>1, PhaseGoes DEF CommitConfirm, Promise!Announce
  <2>2. CASE ~IndexAllows
    BY <1>2, <2>2 DEF CommitConfirm, Phase, Promise!announcements
  <2> QED
    BY <2>1, <2>2
<1>3. ASSUME NEW c \in Campaigns, Cancel(c) PROVE Promise!CallOff(c)
  BY <1>0, <1>3, PhaseGoes DEF Cancel, Promise!CallOff
<1>4. ASSUME NEW c \in Campaigns, BeginRun(c) PROVE UNCHANGED Promise!announcements
  BY <1>0, <1>4, PhaseGoes DEF BeginRun
<1>5. ASSUME NEW c \in Campaigns, Complete(c)
      PROVE  Promise!Finish(c) \/ UNCHANGED Promise!announcements
  <2>1. CASE Over(c)
    BY <1>0, <1>5, <2>1, PhaseGoes DEF Complete, Promise!Finish
  <2>2. CASE ~Over(c)
    BY <1>5, <2>2 DEF Complete, Phase, Promise!announcements
  <2> QED
    BY <2>1, <2>2
<1>6. ASSUME NEW r \in Rows, Send(r) \/ HitFloodLimit(r) PROVE Promise!AnnouncementsNext
  BY <1>6, CallStep DEF Send, HitFloodLimit
<1>7. CASE UNCHANGED <<campaign, delivered, late>>
  BY <1>7 DEF Phase, Promise!announcements
<1> QED
  BY <1>1, <1>2, <1>3, <1>4, <1>5, <1>6, <1>7
  DEF Next, LoopStep, TaskStep, CountActive, SetBlocked, Restart, ClaimBatch, NothingToDo,
      Gathered, Poll, ComeDue, Read, Commit, FailTask, FailLoop, Crash, vars

\* The dispatcher and its administrators keep the promise of Announcements, for any audiences,
\* batch size, flood limits and faults (broadcast_service.py, broadcast_dispatcher.py).
THEOREM DispatcherKeepsAnnouncements == Spec => AnnouncementsKept
<1>1. Init => Promise!AnnouncementsInit
  BY DEF Init, Phase, Active, Rows, Promise!AnnouncementsInit
<1>2. Init => AudienceInv
  BY DEF Init, AudienceInv
<1>3. Spec => []AudienceInv
  BY <1>2, AudienceStep, TypeInvariant, PTL DEF Spec
<1> QED
  BY <1>1, <1>3, PromiseStep, TypeInvariant, HeardInvariant, SettledInvariant,
     CancelledCampaignStops, PTL DEF Spec, AnnouncementsKept, Promise!AnnouncementsSpec

===============================================================================
