---------------------------- MODULE BroadcastCampaign ----------------------------
(***************************************************************************)
(* Broadcast campaigns: bot/misc/services/broadcast_service.py, where an   *)
(* administrator drafts, confirms and cancels them, and                    *)
(* broadcast_dispatcher.py, whose loop claims a batch of recipients and    *)
(* sends to each of them from a task of its own.                           *)
(*                                                                         *)
(* A step is one database transaction, one answer of Telegram or one turn  *)
(* of the loop.  A task keeps its answer in memory until its commit.       *)
(***************************************************************************)
EXTENDS Integers, FiniteSets

CONSTANTS
  Campaigns,   \* broadcast_campaigns
  Users,       \* telegram ids
  Audience,    \* the users a campaign's locale selects
  BatchSize,   \* batch_size
  MaxFloods,   \* bound on Telegram's flood limits
  MaxFaults    \* bound on crashes and failed transactions

ASSUME AudienceAssumption ==
  /\ Audience \in [Campaigns -> SUBSET Users]
  /\ IsFiniteSet(Users)
ASSUME LimitsAssumption ==
  BatchSize \in Nat \ {0} /\ MaxFloods \in Nat /\ MaxFaults \in Nat

VARIABLES
  campaign,    \* status of each campaign, none before it exists
  recipient,   \* status of each of its recipients, none if there is no row
  due,         \* whether the recipient's next_attempt_at has come
  blocked,     \* users with is_blocked
  confirming,  \* campaigns whose confirmation has counted and not yet committed
  loop,        \* where _poll_broadcasts is
  task,        \* where _send_to_recipient is, for each recipient
  delivered,   \* how often a recipient got the message
  late,        \* calls to Telegram for a campaign after its cancellation
  floods,      \* flood limits so far
  faults       \* faults so far

vars == <<campaign, recipient, due, blocked, confirming, loop, task, delivered,
          late, floods, faults>>

Rows == Campaigns \X Users

Active == {"confirmed", "running"}

Final == {"sent", "failed", "blocked", "cancelled", "uncertain"}

Answers == {"sent", "pending", "blocked", "failed", "uncertain"}

TypeOK ==
  /\ campaign \in [Campaigns -> {"none", "draft", "completed", "cancelled"} \cup Active]
  /\ recipient \in [Rows -> {"none", "pending", "sending"} \cup Final]
  /\ due \in [Rows -> BOOLEAN]
  /\ blocked \subseteq Users
  /\ confirming \subseteq {c \in Campaigns : campaign[c] = "draft"}
  /\ loop \in {"start", "poll", "gather", "wait"}
  /\ task \in [Rows -> {"idle", "read", "send"} \cup Answers]
  /\ \A r \in Rows : task[r] # "idle" => recipient[r] = "sending" /\ loop = "gather"
  /\ delivered \in [Rows -> Nat]
  /\ late \in [Campaigns -> Nat]
  /\ floods \in 0..MaxFloods
  /\ faults \in 0..MaxFaults

Init ==
  /\ campaign = [c \in Campaigns |-> "none"]
  /\ recipient = [r \in Rows |-> "none"]
  /\ due = [r \in Rows |-> TRUE]
  /\ blocked = {}
  /\ confirming = {}
  /\ loop = "start"
  /\ task = [r \in Rows |-> "idle"]
  /\ delivered = [r \in Rows |-> 0]
  /\ late = [c \in Campaigns |-> 0]
  /\ floods = 0
  /\ faults = 0

-------------------------------------------------------------------------------
(* Administrators *)

\* create_draft.
Drafted(c) == [campaign EXCEPT ![c] = "draft"]

\* The form of the panel, when permission, token, photo and payload pass.
CreateDraft(c) ==
  /\ campaign[c] = "none"
  /\ campaign' = Drafted(c)
  /\ UNCHANGED <<recipient, due, blocked, confirming, loop, task, delivered, late,
                 floods, faults>>

NoneActive == \A c \in Campaigns : campaign[c] \notin Active

\* The confirm button: confirm_campaign locks its own campaign and counts the active ones ...
CountActive(c) ==
  /\ campaign[c] = "draft"
  /\ c \notin confirming
  /\ NoneActive
  /\ confirming' = confirming \cup {c}
  /\ UNCHANGED <<campaign, recipient, due, blocked, loop, task, delivered, late,
                 floods, faults>>

\* Fault: there is no unique index on the active campaigns.
NoIndex == TRUE

\* uq_broadcast_campaign_single_active.
IndexAllows == NoneActive

\* ... and commits the campaign with its recipients, unless another one has been
\* confirmed meanwhile.
CommitConfirm(c) ==
  /\ c \in confirming
  /\ confirming' = confirming \ {c}
  /\ IF IndexAllows
     THEN /\ campaign' = [campaign EXCEPT ![c] = "confirmed"]
          /\ recipient' = [r \in Rows |->
               IF r[1] = c /\ r[2] \in Audience[c] \ blocked THEN "pending"
               ELSE recipient[r]]
     ELSE UNCHANGED <<campaign, recipient>>
  /\ UNCHANGED <<due, blocked, loop, task, delivered, late, floods, faults>>

\* Fault: the recipients being sent to are cancelled too.
Unfinished == {"pending", "sending"}

Cancellable == {"pending"}

\* The cancel button and cancel_campaign: what is being sent goes on.
Cancel(c) ==
  /\ campaign[c] \in {"draft"} \cup Active
  /\ c \notin confirming
  /\ campaign' = [campaign EXCEPT ![c] = "cancelled"]
  /\ recipient' = [r \in Rows |->
       IF r[1] = c /\ recipient[r] \in Cancellable THEN "cancelled" ELSE recipient[r]]
  /\ UNCHANGED <<due, blocked, confirming, loop, task, delivered, late, floods, faults>>

\* set_user_blocked.
SetBlocked(u) ==
  /\ blocked' = IF u \in blocked THEN blocked \ {u} ELSE blocked \cup {u}
  /\ UNCHANGED <<campaign, recipient, due, confirming, loop, task, delivered, late,
                 floods, faults>>

-------------------------------------------------------------------------------
(* The loop *)

\* Fault: what a dead process was sending is sent again.
BackToPending == "pending"

AfterRestart == "uncertain"

\* _cleanup_stale_states_on_start.
Restart ==
  /\ loop = "start"
  /\ loop' = "poll"
  /\ recipient' = [r \in Rows |-> IF recipient[r] = "sending" THEN AfterRestart
                                  ELSE recipient[r]]
  /\ UNCHANGED <<campaign, due, blocked, confirming, task, delivered, late, floods, faults>>

\* The first batch of a confirmed campaign only starts its run.
BeginRun(c) ==
  /\ loop = "poll"
  /\ campaign[c] = "confirmed"
  /\ campaign' = [campaign EXCEPT ![c] = "running"]
  /\ UNCHANGED <<recipient, due, blocked, confirming, loop, task, delivered, late,
                 floods, faults>>

\* Fault: pending recipients are served whatever became of their campaign.
AnyCampaign(c) == campaign[c] \in {"running", "cancelled"}

Running(c) == campaign[c] = "running"

DueRows(c) == {r \in Rows : r[1] = c /\ recipient[r] = "pending" /\ due[r]}

\* A batch of the rows that are due, in any order.
ClaimBatch(c) ==
  /\ loop = "poll"
  /\ Running(c)
  /\ \E B \in SUBSET DueRows(c) :
       /\ B # {}
       /\ Cardinality(B) <= BatchSize
       /\ Cardinality(B) < BatchSize => B = DueRows(c)
       /\ recipient' = [r \in Rows |-> IF r \in B THEN "sending" ELSE recipient[r]]
       /\ task' = [r \in Rows |-> IF r \in B THEN "read" ELSE task[r]]
  /\ loop' = "gather"
  /\ UNCHANGED <<campaign, due, blocked, confirming, delivered, late, floods, faults>>

\* Fault: a campaign waits for its uncertain recipients too.
OpenOrUncertain == {"pending", "sending", "uncertain"}

Open == {"pending", "sending"}

\* Fault: only the recipients that are due keep a campaign open.
OverWhenNoneDue(c) == DueRows(c) = {}

Over(c) == \A r \in Rows : r[1] = c => recipient[r] \notin Open

Complete(c) ==
  /\ loop = "poll"
  /\ campaign[c] = "running"
  /\ DueRows(c) = {}
  /\ campaign' = IF Over(c) THEN [campaign EXCEPT ![c] = "completed"] ELSE campaign
  /\ loop' = "wait"
  /\ UNCHANGED <<recipient, due, blocked, confirming, task, delivered, late, floods, faults>>

NothingToDo ==
  /\ loop = "poll"
  /\ NoneActive
  /\ loop' = "wait"
  /\ UNCHANGED <<campaign, recipient, due, blocked, confirming, task, delivered, late,
                 floods, faults>>

Gathered ==
  /\ loop = "gather"
  /\ \A r \in Rows : task[r] = "idle"
  /\ loop' = "poll"
  /\ UNCHANGED <<campaign, recipient, due, blocked, confirming, task, delivered, late,
                 floods, faults>>

Poll ==
  /\ loop = "wait"
  /\ loop' = "poll"
  /\ UNCHANGED <<campaign, recipient, due, blocked, confirming, task, delivered, late,
                 floods, faults>>

\* next_attempt_at comes.
ComeDue(r) ==
  /\ ~due[r]
  /\ due' = [due EXCEPT ![r] = TRUE]
  /\ UNCHANGED <<campaign, recipient, blocked, confirming, loop, task, delivered, late,
                 floods, faults>>

-------------------------------------------------------------------------------
(* A task: _send_to_recipient *)

Read(r) ==
  /\ task[r] = "read"
  /\ task' = [task EXCEPT ![r] = IF recipient[r] # "sending" THEN "idle"
                                 ELSE IF r[2] \in blocked THEN "blocked" ELSE "send"]
  /\ UNCHANGED <<campaign, recipient, due, blocked, confirming, loop, delivered, late,
                 floods, faults>>

Deliver(r) == delivered' = [delivered EXCEPT ![r] = @ + 1]

CallTelegram(c) ==
  late' = [late EXCEPT ![c] = IF campaign[c] = "cancelled" THEN @ + 1 ELSE @]

\* Telegram accepts the message, refuses it for good, or its answer is lost.
Send(r) ==
  /\ task[r] = "send"
  /\ CallTelegram(r[1])
  /\ \/ Deliver(r) /\ task' = [task EXCEPT ![r] = "sent"]
     \/ /\ \E answer \in {"blocked", "failed"} : task' = [task EXCEPT ![r] = answer]
        /\ UNCHANGED delivered
     \/ /\ task' = [task EXCEPT ![r] = "uncertain"]
        /\ Deliver(r) \/ UNCHANGED delivered
  /\ UNCHANGED <<campaign, recipient, due, blocked, confirming, loop, floods, faults>>

\* TelegramRetryAfter.
HitFloodLimit(r) ==
  /\ task[r] = "send"
  /\ floods < MaxFloods
  /\ floods' = floods + 1
  /\ CallTelegram(r[1])
  /\ task' = [task EXCEPT ![r] = "pending"]
  /\ UNCHANGED <<campaign, recipient, due, blocked, confirming, loop, delivered, faults>>

\* The row is written by its key, whatever became of its campaign.
Commit(r) ==
  /\ task[r] \in Answers
  /\ recipient' = [recipient EXCEPT ![r] = task[r]]
  /\ due' = [due EXCEPT ![r] = task[r] # "pending"]
  /\ blocked' = IF task[r] = "blocked" THEN blocked \cup {r[2]} ELSE blocked
  /\ task' = [task EXCEPT ![r] = "idle"]
  /\ UNCHANGED <<campaign, confirming, loop, delivered, late, floods, faults>>

-------------------------------------------------------------------------------
(* What goes wrong *)

Blame == faults < MaxFaults /\ faults' = faults + 1

\* A task's transaction fails, and gather swallows its exception.
FailTask(r) ==
  /\ task[r] # "idle"
  /\ Blame
  /\ task' = [task EXCEPT ![r] = "idle"]
  /\ UNCHANGED <<campaign, recipient, due, blocked, confirming, loop, delivered, late,
                 floods>>

\* A transaction of the loop fails; the clean-up at the start is not tried again.
FailLoop ==
  /\ loop \in {"start", "poll"}
  /\ Blame
  /\ loop' = IF loop = "start" THEN "poll" ELSE "wait"
  /\ UNCHANGED <<campaign, recipient, due, blocked, confirming, task, delivered, late,
                 floods>>

Crash ==
  /\ Blame
  /\ loop' = "start"
  /\ task' = [r \in Rows |-> "idle"]
  /\ confirming' = {}
  /\ UNCHANGED <<campaign, recipient, due, blocked, delivered, late, floods>>

-------------------------------------------------------------------------------
LoopStep ==
  \/ Restart \/ NothingToDo \/ Gathered \/ Poll
  \/ \E c \in Campaigns : BeginRun(c) \/ ClaimBatch(c) \/ Complete(c)

TaskStep(r) == Read(r) \/ Send(r) \/ Commit(r)

Next ==
  \/ \E c \in Campaigns : CreateDraft(c) \/ CountActive(c) \/ CommitConfirm(c) \/ Cancel(c)
  \/ \E u \in Users : SetBlocked(u)
  \/ LoopStep
  \/ \E r \in Rows : TaskStep(r) \/ HitFloodLimit(r) \/ ComeDue(r) \/ FailTask(r)
  \/ FailLoop \/ Crash

\* The event loop runs what can go on, and clocks do not stop.
Fairness ==
  /\ WF_vars(LoopStep)
  /\ \A r \in Rows : WF_vars(TaskStep(r)) /\ WF_vars(ComeDue(r))

Spec == Init /\ [][Next]_vars /\ Fairness

-------------------------------------------------------------------------------
(* Properties *)

\* However the dispatcher fails and restarts, nobody gets a campaign twice: what is
\* not known to have failed is never sent again.
DeliveredOnce == \A r \in Rows : delivered[r] <= 1

\* One campaign is active at a time, whoever confirms what at the same moment.
OneActive ==
  \A c, d \in Campaigns : campaign[c] \in Active /\ campaign[d] \in Active => c = d

\* Nothing is owed to the recipients of a completed campaign, and whoever it counts
\* as sent got the message.
CompletedIsOver ==
  \A r \in Rows :
    /\ campaign[r[1]] = "completed" => recipient[r] \in Final \cup {"none"}
    /\ recipient[r] = "sent" => delivered[r] = 1

\* After its cancellation a campaign calls Telegram for the batch in flight at most,
\* also when a flood limit puts recipients back to pending.
CancelledForGood == \A c \in Campaigns : late[c] <= BatchSize

\* What an administrator sees of a campaign.
Phase == [c \in Campaigns |-> IF campaign[c] \in Active THEN "active" ELSE campaign[c]]

Promise == INSTANCE Announcements WITH phase <- Phase, copies <- delivered

\* The dispatcher keeps what Announcements promises: whatever is claimed, sent, lost or
\* written late, a campaign goes on only from one of its phases to the next, and calls only
\* its audience, and that while it is active or for a batch after its cancellation.
AnnouncementsKept == Promise!AnnouncementsSpec

\* An active campaign comes to its end, through crashes and flood limits, unless the
\* transaction of one of its tasks or the clean-up of a restart fails: then a
\* recipient stays sending until the next restart.
Orphan(r) == recipient[r] = "sending" /\ task[r] = "idle" /\ loop # "start"

CampaignEnds ==
  \A c \in Campaigns :
    campaign[c] \in Active ~>
      \/ campaign[c] \notin Active
      \/ \E r \in Rows : r[1] = c /\ Orphan(r)

===============================================================================
