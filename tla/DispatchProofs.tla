----------------------------- MODULE DispatchProofs -----------------------------
(***************************************************************************)
(* Theorems about the two loops that send messages: about Outbox, for any  *)
(* notifications, errors and faults, and any size of a batch, and about    *)
(* RestockDispatch, for any products, subscriptions, tasks in flight and   *)
(* faults, and any size of a batch.                                        *)
(***************************************************************************)
EXTENDS Outbox, RestockDispatch, FunctionTheorems, FiniteSetTheorems, TLAPS

-------------------------------------------------------------------------------
(* Outbox *)

\* Every step keeps the type of the state.
LEMMA TypeStep == TypeOK /\ [Next]_vars => TypeOK'
<1> SUFFICES ASSUME TypeOK, [Next]_vars PROVE TypeOK'
  OBVIOUS
<1> USE DEF TypeOK
<1>1. ASSUME NEW n \in Notes, Enqueue(n) PROVE TypeOK'
  BY <1>1 DEF Enqueue
<1>2. CASE ReadBatch
  BY <1>2 DEF ReadBatch, Pending
<1>3. CASE NothingPending
  BY <1>3 DEF NothingPending
<1>4. ASSUME NEW n \in Notes, Send(n) PROVE TypeOK'
  BY <1>4 DEF Send
<1>5. ASSUME NEW n \in Notes, Refuse(n) PROVE TypeOK'
  <2>1. CASE attempts[n] + 1 >= MaxAttempts
    BY <1>5, <2>1 DEF Refuse
  <2>2. CASE ~(attempts[n] + 1 >= MaxAttempts)
    BY <1>5, <2>2 DEF Refuse, RollBack, Undone, Nothing
  <2> QED BY <2>1, <2>2
<1>6. CASE Commit
  <2>1. /\ batch = {} /\ batch' = {} /\ loop' = "wait" /\ result' = Nothing
        /\ UNCHANGED <<delivered, refused, undone, faults>>
    BY <1>6 DEF Commit
  <2>2. status' \in [Notes -> {"none", "pending", "sent", "failed"}]
    BY <1>6 DEF Commit
  <2>3. attempts' \in [Notes -> Nat]
    BY <1>6 DEF Commit
  <2> QED BY <2>1, <2>2, <2>3 DEF Nothing
<1>7. CASE Poll
  BY <1>7 DEF Poll
<1>8. CASE Fail
  BY <1>8, LimitsAssumption DEF Fail, RollBack, Undone, Nothing
<1>9. CASE UNCHANGED vars
  BY <1>9 DEF vars
<1> QED
  BY <1>1, <1>2, <1>3, <1>4, <1>5, <1>6, <1>7, <1>8, <1>9 DEF Next, Dispatch

\* The state keeps its shape: a batch holds pending rows only, and nothing is in
\* memory outside of a batch (outbox_dispatcher.py:54-90).
THEOREM OutboxTypeCorrect == Spec => []TypeOK
<1>1. Init => TypeOK
  BY LimitsAssumption DEF Init, TypeOK, Nothing
<1> QED
  BY <1>1, TypeStep, PTL DEF Spec

-------------------------------------------------------------------------------
(* Copies *)

\* A row that is still to be sent has had no copy but those of batches undone.
CopiesOf(n) ==
  /\ delivered[n] <= 1 + undone
  /\ status[n] \in {"none", "pending"} /\ result[n] = "none" => delivered[n] <= undone
  /\ "sent" \in {status[n], result[n]} => delivered[n] >= 1

CopiesInv == \A n \in Notes : CopiesOf(n)

LEMMA CopiesStep == TypeOK /\ CopiesInv /\ [Next]_vars => CopiesInv'
<1> SUFFICES ASSUME TypeOK, CopiesInv, [Next]_vars, NEW m \in Notes
             PROVE  CopiesOf(m)'
  BY DEF CopiesInv
<1> USE DEF CopiesOf
<1>0. /\ CopiesOf(m)
      /\ delivered[m] \in Nat /\ undone \in Nat
      /\ delivered \in [Notes -> Nat] /\ status \in [Notes -> {"none", "pending", "sent", "failed"}]
      /\ result \in [Notes -> {"none", "sent", "failed"}]
      /\ result[m] \in {"none", "sent", "failed"}
      /\ status[m] \in {"none", "pending", "sent", "failed"}
      /\ m \in batch => status[m] = "pending" /\ result[m] = "none"
      /\ result[m] # "none" => status[m] = "pending"
  BY DEF TypeOK, CopiesInv
<1>1. ASSUME NEW n \in Notes, Enqueue(n) PROVE CopiesOf(m)'
  BY <1>0, <1>1 DEF Enqueue
<1>2. CASE ReadBatch
  BY <1>0, <1>2 DEF ReadBatch
<1>3. CASE NothingPending
  BY <1>0, <1>3 DEF NothingPending
<1>4. ASSUME NEW n \in Notes, Send(n) PROVE CopiesOf(m)'
  BY <1>0, <1>4 DEF Send
<1>5. ASSUME NEW n \in Notes, Refuse(n) PROVE CopiesOf(m)'
  <2>1. CASE attempts[n] + 1 >= MaxAttempts
    BY <1>0, <1>5, <2>1 DEF Refuse
  <2>2. CASE ~(attempts[n] + 1 >= MaxAttempts)
    BY <1>0, <1>5, <2>2 DEF Refuse, RollBack, Undone, Nothing
  <2> QED BY <2>1, <2>2
<1>6. CASE Commit
  BY <1>0, <1>6 DEF Commit, Nothing
<1>7. CASE Poll
  BY <1>0, <1>7 DEF Poll
<1>8. CASE Fail
  BY <1>0, <1>8 DEF Fail, RollBack, Undone, Nothing
<1>9. CASE UNCHANGED vars
  BY <1>0, <1>9 DEF vars
<1> QED
  BY <1>1, <1>2, <1>3, <1>4, <1>5, <1>6, <1>7, <1>8, <1>9 DEF Next, Dispatch

\* A row is sent only if its customer got the message, and each further copy is
\* the price of a batch rolled back (outbox_dispatcher.py:54-90).
THEOREM CopiesAreBounded == Spec => []CopiesBounded
<1>1. Init => CopiesInv
  BY DEF Init, CopiesInv, CopiesOf, Nothing
<1>2. CopiesInv => CopiesBounded
  BY DEF CopiesInv, CopiesOf, CopiesBounded
<1> QED
  BY <1>1, <1>2, CopiesStep, OutboxTypeCorrect, PTL DEF Spec

-------------------------------------------------------------------------------
(* Closed rows *)

Kept(n) == status'[n] = status[n] /\ delivered'[n] = delivered[n]

\* What the database holds as sent or failed is not sent again
\* (outbox_dispatcher.py:63).
THEOREM ClosedRowsAreFinal == Spec => ClosedIsFinal
<1> USE DEF Kept
<1>1. ASSUME TypeOK, [Next]_vars, NEW m \in Notes, status[m] \in {"sent", "failed"}
      PROVE  Kept(m)
  <2>0. /\ delivered \in [Notes -> Nat] /\ m \notin batch /\ result[m] = "none"
        /\ status[m] # "none"
        /\ status \in [Notes -> {"none", "pending", "sent", "failed"}]
    BY <1>1 DEF TypeOK
  <2>1. ASSUME NEW n \in Notes, Enqueue(n) PROVE Kept(m)
    BY <2>0, <2>1 DEF Enqueue
  <2> QED BY <1>1, <2>0, <2>1
        DEF Next, Dispatch, ReadBatch, NothingPending, Send, Refuse, RollBack, Undone,
            Commit, Poll, Fail, vars
<1>2. TypeOK /\ [Next]_vars => [ClosedKept]_vars
  BY <1>1 DEF ClosedKept
<1> QED
  BY <1>2, OutboxTypeCorrect, PTL DEF Spec, ClosedIsFinal

-------------------------------------------------------------------------------
(* Failed rows *)

\* No attempt is ever recorded.
Untried(n) == attempts[n] = 0 /\ result[n] # "failed" /\ status[n] # "failed"

NoneFailed == \A n \in Notes : Untried(n)

\* As long as more than one attempt is granted, no notification is ever given up:
\* the only code that could count an attempt raises (outbox_dispatcher.py:88).
THEOREM NeverGivenUp ==
  ASSUME MaxAttempts > 1
  PROVE  Spec => [](\A n \in Notes : status[n] # "failed")
<1>1. Init => NoneFailed
  BY DEF Init, NoneFailed, Untried, Nothing
<1>2. TypeOK /\ NoneFailed /\ [Next]_vars => NoneFailed'
  <2> SUFFICES ASSUME TypeOK, NoneFailed, [Next]_vars, NEW m \in Notes
               PROVE  Untried(m)'
    BY DEF NoneFailed
  <2> USE DEF Untried
  <2>0. /\ attempts \in [Notes -> Nat] /\ result \in [Notes -> {"none", "sent", "failed"}]
        /\ status \in [Notes -> {"none", "pending", "sent", "failed"}]
        /\ \A n \in Notes : attempts[n] = 0
        /\ attempts[m] = 0 /\ result[m] # "failed" /\ status[m] # "failed"
    BY DEF TypeOK, NoneFailed, Untried
  <2>1. ASSUME NEW n \in Notes, Refuse(n) PROVE Untried(m)'
    BY <2>0, <2>1, LimitsAssumption DEF Refuse, RollBack, Undone, Nothing
  <2>2. ASSUME NEW n \in Notes, Enqueue(n) \/ Send(n) PROVE Untried(m)'
    BY <2>0, <2>2 DEF Enqueue, Send
  <2>3. CASE Commit \/ Fail
    BY <2>0, <2>3 DEF Commit, Fail, RollBack, Undone, Nothing
  <2>4. CASE ReadBatch \/ NothingPending \/ Poll \/ UNCHANGED vars
    BY <2>0, <2>4 DEF ReadBatch, NothingPending, Poll, vars
  <2> QED BY <2>1, <2>2, <2>3, <2>4 DEF Next, Dispatch
<1>3. NoneFailed => \A n \in Notes : status[n] # "failed"
  BY DEF NoneFailed, Untried
<1> QED
  BY <1>1, <1>2, <1>3, OutboxTypeCorrect, PTL DEF Spec

-------------------------------------------------------------------------------
(* Refinement *)

\* Every step of the dispatcher and of the handlers that queue is a step of Mail or
\* leaves what Mail sees as it was.
LEMMA MailStep ==
  ASSUME TypeOK, CopiesInv, [Next]_vars
  PROVE  [Promise!MailNext]_(Promise!mail)
<1> USE DEF Promise!MailNext, Promise!mail
<1>0. /\ status \in [Notes -> {"none", "pending", "sent", "failed"}]
      /\ delivered \in [Notes -> Nat]
      /\ \A n \in Notes : n \in batch => status[n] = "pending"
      /\ \A n \in Notes : result[n] # "none" => status[n] = "pending"
      /\ \A n \in Notes : result[n] \in {"none", "sent", "failed"}
      /\ \A n \in Notes : result[n] = "sent" => delivered[n] > 0
  BY DEF TypeOK, CopiesInv, CopiesOf
<1>1. ASSUME NEW n \in Notes, Enqueue(n) PROVE Promise!Queue(n)
  BY <1>1 DEF Enqueue, Promise!Queue
<1>2. ASSUME NEW n \in Notes, Send(n) PROVE Promise!Copy(n)
  BY <1>0, <1>2 DEF Send, Promise!Copy
<1>3. ASSUME NEW n \in Notes, Refuse(n)
      PROVE  Promise!Copy(n) \/ UNCHANGED <<status, delivered>>
  BY <1>0, <1>3 DEF Refuse, RollBack, Undone, Promise!Copy
<1>4. CASE Commit
  <2>1. status' \in [Notes -> {"none", "pending", "sent", "failed"}] /\ delivered' = delivered
    BY <1>0, <1>4 DEF Commit
  <2>2. ASSUME NEW n \in Notes
        PROVE  \/ status'[n] = status[n]
               \/ status[n] = "pending" /\ status'[n] = "sent" /\ delivered[n] > 0
               \/ status[n] = "pending" /\ status'[n] = "failed"
    BY <1>0, <1>4, <2>2 DEF Commit
  <2>3. Promise!Close
    BY <2>1, <2>2 DEF Promise!Close
  <2> QED BY <2>3
<1>5. CASE ReadBatch \/ NothingPending \/ Poll \/ Fail \/ UNCHANGED vars
  BY <1>5 DEF ReadBatch, NothingPending, Poll, Fail, RollBack, Undone, vars
<1> QED
  BY <1>1, <1>2, <1>3, <1>4, <1>5 DEF Next, Dispatch

\* The loop with its batches, errors, rollbacks and crashes (outbox_dispatcher.py:39-90)
\* implements Mail, on which the model of the operators and the customer is built.
THEOREM OutboxImplementsMail == Spec => MailKept
<1>1. Init => Promise!MailInit
  BY DEF Init, Nothing, Promise!MailInit
<1>2. Init => CopiesInv
  BY DEF Init, CopiesInv, CopiesOf, Nothing
<1>3. TypeOK /\ CopiesInv /\ [Next]_vars => [Promise!MailNext]_(Promise!mail)
  BY MailStep
<1>4. Spec => []CopiesInv
  BY <1>2, CopiesStep, OutboxTypeCorrect, PTL DEF Spec
<1> QED
  BY <1>1, <1>3, <1>4, OutboxTypeCorrect, PTL DEF Spec, MailKept, Promise!MailSpec

-------------------------------------------------------------------------------
(* Restock alerts: the invariant *)

\* The tasks in flight about a subscription, and those that no batch waits for any more.
Live(s) == {t \in Slots : tasks[t] # NULL /\ tasks[t].sub = s}

Orphans(s) == Live(s) \ gathering

\* Those that may still send a message, or give their claim back for another task to send
\* one: a task that was claimed for an earlier subscription and is still awaited sends for
\* that one, and finds a row that is not its own.
Chances(s) ==
  {t \in Live(s) : /\ tasks[t].pc \in {"queued", "stock", "send", "return", "release"}
                   /\ t \in gathering => tasks[t].fresh}

\* Whether the row can be claimed, now or when its claim has become stale.
Claimable(s) ==
  IF \/ row[s].status = "active"
     \/ row[s].status = "processing" /\ Live(s) \cap gathering = {}
  THEN 1 ELSE 0

\* A batch has one task for a subscription.  A message and the chances of another are
\* together one, but for what went wrong; so are the attempts counted and those that a
\* task nobody waits for may count over again.
SubKept(s) ==
  /\ \A t, u \in Live(s) \cap gathering : t = u
  /\ Cardinality(Orphans(s)) <= mishaps
  /\ sent[s] + Cardinality(Chances(s)) + Claimable(s) <= 1 + mishaps
  /\ row[s].attempts + Cardinality(Orphans(s)) <= RestockMaxAttempts + mishaps
  /\ row[s].status = "notified" => sent[s] >= 1 \/ mishaps > 0

\* A task that marks its row has sent its message, one that releases it has attempts left,
\* and the row of a task that is awaited is its own or not claimed.
TaskKept(t) ==
  tasks[t] # NULL =>
    /\ tasks[t].fresh /\ tasks[t].pc = "mark" => sent[tasks[t].sub] >= 1
    /\ tasks[t].pc = "release" => tasks[t].tries < RestockMaxAttempts
    /\ t \in gathering /\ row[tasks[t].sub].status = "processing" =>
         /\ tasks[t].fresh
         /\ tasks[t].pc # "queued" => tasks[t].tries = row[tasks[t].sub].attempts

BatchAwaited == dispatcher # "gather" => gathering = {}

RestockInv ==
  /\ RestockTypeOK /\ BatchAwaited
  /\ \A s \in Subs : SubKept(s)
  /\ \A t \in Slots : TaskKept(t)

LEMMA CardLess ==
  ASSUME NEW S, IsFiniteSet(S), NEW T, T \subseteq S
  PROVE  Cardinality(T) \in Nat /\ Cardinality(S) \in Nat /\ Cardinality(T) <= Cardinality(S)
BY FS_Subset, FS_CardinalityType

LEMMA CardPlus ==
  ASSUME NEW S, IsFiniteSet(S), NEW x, NEW T, T \subseteq S \union {x}
  PROVE  Cardinality(T) \in Nat /\ Cardinality(S) \in Nat /\ Cardinality(T) <= Cardinality(S) + 1
<1>1. IsFiniteSet(S \union {x}) /\ Cardinality(S \union {x}) <= Cardinality(S) + 1
      /\ Cardinality(S) \in Nat
  BY FS_AddElement, FS_CardinalityType
<1>2. Cardinality(T) \in Nat /\ Cardinality(S \union {x}) \in Nat
      /\ Cardinality(T) <= Cardinality(S \union {x})
  BY <1>1, CardLess
<1> QED
  BY <1>1, <1>2

LEMMA CardMinus ==
  ASSUME NEW S, IsFiniteSet(S), NEW x \in S, NEW T, T \subseteq S \ {x}
  PROVE  Cardinality(T) \in Nat /\ Cardinality(S) \in Nat /\ Cardinality(T) + 1 <= Cardinality(S)
<1>1. IsFiniteSet(S \ {x}) /\ Cardinality(S \ {x}) = Cardinality(S) - 1 /\ Cardinality(S) \in Nat
  BY FS_RemoveElement, FS_CardinalityType
<1>2. Cardinality(T) \in Nat /\ Cardinality(T) <= Cardinality(S \ {x})
  BY <1>1, CardLess
<1> QED
  BY <1>1, <1>2

LEMMA TasksFinite ==
  ASSUME NEW s
  PROVE  /\ IsFiniteSet(Live(s)) /\ IsFiniteSet(Orphans(s)) /\ IsFiniteSet(Chances(s))
         /\ Cardinality(Orphans(s)) \in Nat /\ Cardinality(Chances(s)) \in Nat
         /\ Claimable(s) \in {0, 1}
<1>1. IsFiniteSet(Live(s))
  BY SubsAssumption, FS_Subset DEF Live
<1>2. IsFiniteSet(Orphans(s)) /\ IsFiniteSet(Chances(s))
  BY <1>1, FS_Subset DEF Orphans, Chances
<1> QED
  BY <1>1, <1>2, FS_CardinalityType DEF Claimable

LEMMA CandidatesPlaced ==
  ASSUME RestockTypeOK, Cardinality(Candidates) <= Cardinality(FreeSlots)
  PROVE  /\ SlotOf \in [Candidates -> FreeSlots]
         /\ \A r, s \in Candidates : SlotOf[r] = SlotOf[s] => r = s
<1> DEFINE n == Cardinality(Candidates)
           m == Cardinality(FreeSlots)
<1>1. IsFiniteSet(Candidates) /\ IsFiniteSet(FreeSlots)
  BY SubsAssumption, FS_Subset DEF Candidates, FreeSlots
<1>2. n \in Nat /\ m \in Nat /\ n <= m
  BY <1>1, FS_CardinalityType
<1>3. ExistsBijection(Candidates, 1..n) /\ ExistsBijection(1..m, FreeSlots)
  BY <1>1, FS_CardinalityType, Fun_ExistsBijSymmetric
<1>4. PICK f : f \in Bijection(Candidates, 1..n)
  BY <1>3 DEF ExistsBijection
<1>5. PICK g : g \in Bijection(1..m, FreeSlots)
  BY <1>3 DEF ExistsBijection
<1>6. /\ f \in [Candidates -> 1..n] /\ \A r, s \in Candidates : f[r] = f[s] => r = s
      /\ g \in [1..m -> FreeSlots] /\ \A i, j \in 1..m : g[i] = g[j] => i = j
  BY <1>4, <1>5 DEF Bijection, Injection, IsInjective
<1> DEFINE h == [s \in Candidates |-> g[f[s]]]
<1>7. \A s \in Candidates : f[s] \in 1..m
  BY <1>2, <1>6
<1> HIDE DEF n, m
<1>8. h \in [Candidates -> FreeSlots] /\ \A r, s \in Candidates : h[r] = h[s] => r = s
  BY <1>6, <1>7
<1> HIDE DEF h
<1>9. \E k \in [Candidates -> FreeSlots] : \A r, s \in Candidates : k[r] = k[s] => r = s
  BY <1>8
<1> QED
  BY <1>9, Zenon DEF SlotOf

\* What ClaimBatch does, slot by slot.
LEMMA ClaimsPlaced ==
  ASSUME RestockTypeOK, ClaimBatch
  PROVE  /\ gathering' \subseteq FreeSlots
         /\ \A t \in Slots \ gathering' : tasks'[t] = tasks[t]
         /\ \A t \in gathering' :
              /\ tasks'[t] \in Task /\ tasks'[t].sub \in Candidates
              /\ tasks'[t].pc = "queued" /\ tasks'[t].fresh
         /\ \A t, u \in gathering' : tasks'[t].sub = tasks'[u].sub => t = u
         /\ \A s \in Candidates : \E t \in gathering' : tasks'[t].sub = s
         /\ tasks' \in [Slots -> Task \union {NULL}]
<1>1. /\ SlotOf \in [Candidates -> FreeSlots]
      /\ \A r, s \in Candidates : SlotOf[r] = SlotOf[s] => r = s
  BY CandidatesPlaced DEF ClaimBatch
<1> DEFINE claimant(t) == CHOOSE s \in Candidates : SlotOf[s] = t
           new(t) == [sub |-> claimant(t), pc |-> "queued", tries |-> row[claimant(t)].attempts,
                      fresh |-> TRUE]
<1>2. /\ gathering' = {SlotOf[s] : s \in Candidates}
      /\ tasks' = [t \in Slots |-> IF \E s \in Candidates : SlotOf[s] = t THEN new(t)
                                   ELSE tasks[t]]
  BY DEF ClaimBatch
<1>3. \A s \in Candidates : claimant(SlotOf[s]) = s
  BY <1>1
<1>4. FreeSlots \subseteq Slots /\ Candidates \subseteq Subs
  BY DEF FreeSlots, Candidates
<1>5. \A s \in Subs : row[s].attempts \in Nat
  BY DEF RestockTypeOK, Row
<1> HIDE DEF claimant
<1>6. \A s \in Candidates : tasks'[SlotOf[s]] = new(SlotOf[s]) /\ SlotOf[s] \in Slots
  BY <1>1, <1>2, <1>4
<1>7. \A s \in Candidates :
        /\ new(SlotOf[s]) \in Task /\ new(SlotOf[s]).sub = s
        /\ new(SlotOf[s]).pc = "queued" /\ new(SlotOf[s]).fresh
  BY <1>3, <1>4, <1>5 DEF Task
<1> HIDE DEF new
<1>8. \A t \in Slots \ gathering' : tasks'[t] = tasks[t]
  BY <1>2
<1>9. tasks' \in [Slots -> Task \union {NULL}]
  BY <1>2, <1>7 DEF RestockTypeOK
<1>10. ASSUME NEW t \in gathering'
       PROVE  /\ tasks'[t] \in Task /\ tasks'[t].sub \in Candidates
              /\ tasks'[t].pc = "queued" /\ tasks'[t].fresh
              /\ t = SlotOf[tasks'[t].sub]
  <2>1. PICK s \in Candidates : t = SlotOf[s]
    BY <1>2
  <2> QED
    BY <1>6, <1>7, <2>1
<1>11. \A s \in Candidates : \E t \in gathering' : tasks'[t].sub = s
  BY <1>2, <1>6, <1>7
<1>12. gathering' \subseteq FreeSlots
  BY <1>1, <1>2
<1>13. \A t, u \in gathering' : tasks'[t].sub = tasks'[u].sub => t = u
  BY <1>10
<1> QED
  BY <1>8, <1>9, <1>10, <1>11, <1>12, <1>13

-------------------------------------------------------------------------------
(* Types *)

LEMMA TaskNow ==
  ASSUME RestockTypeOK, NEW t \in Slots, tasks[t] # NULL
  PROVE  /\ tasks[t] \in Task /\ tasks[t].sub \in Subs /\ tasks[t].tries \in Nat
         /\ tasks[t].fresh \in BOOLEAN
         /\ row[tasks[t].sub] \in Row
BY DEF RestockTypeOK, Task

LEMMA RestockTypeStep ==
  ASSUME RestockTypeOK, [RestockNext]_restockVars
  PROVE  RestockTypeOK'
<1> USE DEF RestockTypeOK
<1>1. ASSUME NEW s \in Subs, Subscribe(s) PROVE RestockTypeOK'
  <2> DEFINE age == IF row[s].created > 0 THEN row[s].created
                    ELSE Cardinality({r \in Subs : row[r].created > 0}) + 1
             new == [status |-> "active", due |-> TRUE, stale |-> FALSE, attempts |-> 0,
                     created |-> age]
  <2>1. row' = [row EXCEPT ![s] = new] /\ tasks' = Outdated(s) /\ sent' = [sent EXCEPT ![s] = 0]
        /\ UNCHANGED <<goods, stocked, cancelling, dispatcher, gathering, mishaps>>
    BY <1>1 DEF Subscribe
  <2>2. age \in Nat
    <3>1. IsFiniteSet({r \in Subs : row[r].created > 0})
      BY SubsAssumption, FS_Subset
    <3>2. Cardinality({r \in Subs : row[r].created > 0}) \in Nat
      BY <3>1, FS_CardinalityType
    <3> QED
      BY <3>2 DEF Row
  <2>3. new \in Row
    BY <2>2 DEF Row, Open
  <2>4. new.status = "active" /\ new.due /\ ~new.stale
    OBVIOUS
  <2> HIDE DEF new
  <2>5. row' \in [Subs -> Row] /\ \A r \in Subs : /\ row'[r].stale => row'[r].status = "processing"
                                                  /\ ~row'[r].due => row'[r].status = "active"
    BY <2>1, <2>3, <2>4
  <2>6. tasks' \in [Slots -> Task \union {NULL}]
    <3> SUFFICES ASSUME NEW t \in Slots PROVE tasks'[t] \in Task \union {NULL}
      BY <2>1 DEF Outdated
    <3>1. CASE tasks[t] # NULL /\ tasks[t].sub = s
      <4>1. tasks'[t] = [tasks[t] EXCEPT !.fresh = FALSE]
        BY <2>1, <3>1 DEF Outdated
      <4> QED
        BY <3>1, <4>1, TaskNow DEF Task
    <3>2. CASE ~(tasks[t] # NULL /\ tasks[t].sub = s)
      BY <2>1, <3>2 DEF Outdated
    <3> QED
      BY <3>1, <3>2
  <2>7. sent' \in [Subs -> Nat]
    BY <2>1
  <2> QED
    BY <2>1, <2>5, <2>6, <2>7
<1>2. ASSUME NEW s \in Subs, ReadToCancel(s) PROVE RestockTypeOK'
  BY <1>2 DEF ReadToCancel
<1>3. ASSUME NEW s \in Subs, WriteCancel(s) PROVE RestockTypeOK'
  <2> DEFINE r == [row[s] EXCEPT !.status = "cancelled", !.due = TRUE, !.stale = FALSE]
  <2>1. row[s] \in Row
    OBVIOUS
  <2>2. r \in Row /\ r.status = "cancelled" /\ r.due /\ ~r.stale
    BY <2>1 DEF Row
  <2>3. row' = row \/ row' = [row EXCEPT ![s] = r]
    BY <1>3, <2>1 DEF WriteCancel, Row
  <2> HIDE DEF r
  <2> QED
    BY <1>3, <2>2, <2>3 DEF WriteCancel
<1>4. ASSUME NEW i \in Items, Restock(i) \/ SellOut(i) \/ ToggleItem(i) PROVE RestockTypeOK'
  BY <1>4 DEF Restock, SellOut, ToggleItem
<1>5. ASSUME NEW i \in Items, DeleteItem(i) PROVE RestockTypeOK'
  BY <1>5 DEF DeleteItem, Row
<1>6. CASE RecoverStale
  BY <1>6 DEF RecoverStale, Row, Open
<1>7. CASE ClaimBatch
  <2>1. gathering' \subseteq Slots /\ tasks' \in [Slots -> Task \union {NULL}]
    BY <1>7, ClaimsPlaced DEF FreeSlots
  <2>2. \A s \in Candidates : row[s].status = "active" /\ row[s].due
    BY DEF Candidates, Ready
  <2>3. \A s \in Subs : /\ row'[s] \in Row
                        /\ row'[s].stale => row'[s].status = "processing"
                        /\ ~row'[s].due => row'[s].status = "active"
    <3> SUFFICES ASSUME NEW s \in Subs
                 PROVE  /\ row'[s] \in Row
                        /\ row'[s].stale => row'[s].status = "processing"
                        /\ ~row'[s].due => row'[s].status = "active"
      OBVIOUS
    <3>1. row[s] \in Row
      OBVIOUS
    <3>2. CASE s \in Candidates
      <4>1. row'[s] = [row[s] EXCEPT !.status = "processing", !.stale = FALSE]
        BY <1>7, <3>2 DEF ClaimBatch
      <4> QED
        BY <2>2, <3>1, <3>2, <4>1 DEF Row, Open
    <3>3. CASE s \notin Candidates
      BY <1>7, <3>1, <3>3 DEF ClaimBatch
    <3> QED
      BY <3>2, <3>3
  <2>4. row' = [s \in Subs |-> IF s \in Candidates
                                 THEN [row[s] EXCEPT !.status = "processing", !.stale = FALSE]
                                 ELSE row[s]]
        /\ dispatcher' = "gather"
        /\ UNCHANGED <<goods, stocked, cancelling, sent, mishaps>>
    BY <1>7 DEF ClaimBatch
  <2>5. DOMAIN row' = Subs /\ row' = [s \in Subs |-> row'[s]]
    BY <2>4
  <2>6. row' \in [Subs -> Row]
    <3>1. \A s \in Subs : row'[s] \in Row
      BY <2>3
    <3> QED
      BY <2>5, <3>1, Zenon
  <2>7. \A s \in Subs : /\ row'[s].stale => row'[s].status = "processing"
                        /\ ~row'[s].due => row'[s].status = "active"
    BY <2>3
  <2>8. /\ goods' \in [Items -> {"missing", "disabled", "enabled"}]
        /\ stocked' \in [Items -> BOOLEAN] /\ cancelling' \subseteq Subs
        /\ dispatcher' \in {"recover", "claim", "gather", "wait"}
        /\ sent' \in [Subs -> Nat] /\ mishaps' \in 0..RestockMaxFaults
    BY <2>4
  <2> QED
    BY <2>1, <2>6, <2>7, <2>8
<1>8. CASE ClaimNothing \/ Gathered \/ PollRestock
  BY <1>8 DEF ClaimNothing, Gathered, PollRestock
<1>9. ASSUME NEW s \in Subs, ComeDue(s) \/ GrowStale(s) PROVE RestockTypeOK'
  <2>1. row[s] \in Row
    OBVIOUS
  <2>2. CASE ComeDue(s)
    BY <2>1, <2>2 DEF ComeDue, Row
  <2>3. CASE GrowStale(s)
    BY <2>1, <2>3 DEF GrowStale, Row
  <2> QED
    BY <1>9, <2>2, <2>3
<1>10. ASSUME NEW t \in Slots, Start(t) PROVE RestockTypeOK'
  <2>1. tasks[t] # NULL /\ UNCHANGED <<goods, stocked, row, cancelling, dispatcher, gathering, sent, mishaps>>
    BY <1>10 DEF Start, At
  <2>2. tasks' \in [Slots -> Task \union {NULL}]
    BY <1>10, <2>1, TaskNow DEF Start, Done, Task, Row
  <2> QED
    BY <2>1, <2>2
<1>11. ASSUME NEW t \in Slots, CheckStock(t) PROVE RestockTypeOK'
  BY <1>11, TaskNow DEF CheckStock, At, Goto, Task
<1>12. ASSUME NEW t \in Slots, SendAlert(t) PROVE RestockTypeOK'
  <2>1. tasks[t] # NULL /\ UNCHANGED <<goods, stocked, row, cancelling, dispatcher, gathering, mishaps>>
    BY <1>12 DEF SendAlert, At
  <2>2. tasks' \in [Slots -> Task \union {NULL}]
    BY <1>12, <2>1, TaskNow DEF SendAlert, Goto, Handler, Task
  <2>3. sent' \in [Subs -> Nat]
    BY <1>12, <2>1, TaskNow DEF SendAlert, Delivered
  <2> QED
    BY <2>1, <2>2, <2>3
<1>13. ASSUME NEW t \in Slots, Write(t) PROVE RestockTypeOK'
  <2>1. tasks[t] # NULL /\ Done(t) /\ UNCHANGED <<goods, stocked, cancelling, dispatcher, gathering, sent, mishaps>>
    BY <1>13 DEF Write
  <2>2. tasks' \in [Slots -> Task \union {NULL}]
    BY <2>1 DEF Done
  <2>3. StillClaimed(t) => /\ Outcome(t) \in Row /\ ~Outcome(t).stale
                           /\ ~Outcome(t).due => Outcome(t).status = "active"
    <3> DEFINE r == row[tasks[t].sub]
    <3>1. r \in Row /\ (StillClaimed(t) => r.status = "processing" /\ r.due)
      BY <2>1, TaskNow DEF StillClaimed
    <3>2. Outcome(t) \in {Notified(t), [r EXCEPT !.status = "failed", !.stale = FALSE],
            [r EXCEPT !.status = "active", !.stale = FALSE],
            [r EXCEPT !.status = "active", !.stale = FALSE, !.due = FALSE,
                      !.attempts = r.attempts + 1]}
      BY Zenon DEF Outcome
    <3>3. StillClaimed(t) => r.attempts + 1 \in Nat
      BY <3>1 DEF Row
    <3>4. CASE Outcome(t) \in {Notified(t), [r EXCEPT !.status = "failed", !.stale = FALSE]}
      BY <3>1, <3>4 DEF Notified, Row, Open
    <3>5. CASE Outcome(t) = [r EXCEPT !.status = "active", !.stale = FALSE]
      BY <3>1, <3>5 DEF Row, Open
    <3>6. CASE Outcome(t) = [r EXCEPT !.status = "active", !.stale = FALSE, !.due = FALSE,
                                      !.attempts = r.attempts + 1]
      BY <3>1, <3>3, <3>6 DEF Row, Open
    <3> QED
      BY <3>2, <3>4, <3>5, <3>6
  <2>4. row' = IF StillClaimed(t) THEN [row EXCEPT ![tasks[t].sub] = Outcome(t)] ELSE row
    BY <1>13 DEF Write
  <2>5. row' \in [Subs -> Row] /\ \A r \in Subs : /\ row'[r].stale => row'[r].status = "processing"
                                                  /\ ~row'[r].due => row'[r].status = "active"
    BY <2>1, <2>3, <2>4, TaskNow
  <2> QED
    BY <2>1, <2>2, <2>5
<1>14. ASSUME NEW t \in Slots, LoseAnswer(t) PROVE RestockTypeOK'
  <2>1. tasks[t] # NULL /\ UNCHANGED <<goods, stocked, row, cancelling, dispatcher, gathering>>
        /\ mishaps' \in 0..RestockMaxFaults
    BY <1>14, RestockLimitsAssumption DEF LoseAnswer, At, Blame
  <2>2. tasks' \in [Slots -> Task \union {NULL}]
    BY <1>14, <2>1, TaskNow DEF LoseAnswer, Goto, Handler, Task
  <2>3. sent' \in [Subs -> Nat]
    BY <1>14, <2>1, TaskNow DEF LoseAnswer, Delivered
  <2> QED
    BY <2>1, <2>2, <2>3
<1>15. ASSUME NEW t \in Slots, FailInside(t) PROVE RestockTypeOK'
  <2>1. tasks[t] # NULL /\ UNCHANGED <<goods, stocked, row, cancelling, dispatcher, gathering, sent>>
        /\ mishaps' \in 0..RestockMaxFaults
    BY <1>15, RestockLimitsAssumption DEF FailInside, Blame
  <2>2. tasks' \in [Slots -> Task \union {NULL}]
    BY <1>15, <2>1, TaskNow DEF FailInside, Goto, Handler, Task
  <2> QED
    BY <2>1, <2>2
<1>16. ASSUME NEW t \in Slots, FailInHandler(t) PROVE RestockTypeOK'
  BY <1>16, RestockLimitsAssumption DEF FailInHandler, Done, Blame
<1>17. CASE FailLoop \/ Crash
  BY <1>17, RestockLimitsAssumption DEF FailLoop, Crash, Blame
<1>18. CASE UNCHANGED restockVars
  BY <1>18 DEF restockVars
<1> QED
  BY <1>1, <1>2, <1>3, <1>4, <1>5, <1>6, <1>7, <1>8, <1>9, <1>10, <1>11, <1>12, <1>13, <1>14,
    <1>15, <1>16, <1>17, <1>18 DEF RestockNext, LoopStep, TaskStep

-------------------------------------------------------------------------------
(* Steps *)

\* What holds of the parts of the state, for the arithmetic.
LEMMA RestockNow ==
  ASSUME RestockInv, NEW s \in Subs
  PROVE  /\ SubKept(s) /\ sent[s] \in Nat /\ mishaps \in Nat /\ row[s] \in Row
         /\ row[s].attempts \in Nat
BY DEF RestockInv, RestockTypeOK, Row

\* The tasks and the batch stay as they are, or the batch has come to its end; rows change
\* that are in nobody's way.
LEMMA QuietStep ==
  ASSUME RestockInv, RestockTypeOK', BatchAwaited', UNCHANGED <<tasks, sent>>,
         mishaps' \in {mishaps, mishaps + 1},
         \A t \in Slots : tasks[t] # NULL => (t \in gathering' <=> t \in gathering),
         \A s \in Subs :
           /\ row'[s].attempts = row[s].attempts
           /\ row'[s].status \in {"none", "cancelled", row[s].status}
              \/ (row'[s].status = "active" /\ row[s].status = "processing"
                  /\ Live(s) \cap gathering = {})
  PROVE  RestockInv'
<1>1. ASSUME NEW s \in Subs PROVE SubKept(s)'
  <2>1. /\ Live(s)' = Live(s) /\ (Live(s) \cap gathering)' = Live(s) \cap gathering
        /\ Orphans(s)' = Orphans(s) /\ Chances(s)' = Chances(s)
    BY DEF Live, Orphans, Chances
  <2>2. Claimable(s)' <= Claimable(s) /\ Claimable(s)' \in {0, 1}
    BY <2>1 DEF Claimable
  <2>3. /\ SubKept(s) /\ sent[s] \in Nat /\ mishaps \in Nat /\ row[s].attempts \in Nat
        /\ Cardinality(Orphans(s)) \in Nat /\ Cardinality(Chances(s)) \in Nat
        /\ Claimable(s) \in {0, 1}
    BY RestockNow, TasksFinite
  <2>4. /\ Cardinality(Orphans(s)') = Cardinality(Orphans(s))
        /\ Cardinality(Chances(s)') = Cardinality(Chances(s))
    BY <2>1
  <2>5. row'[s].status = "notified" => row[s].status = "notified"
    OBVIOUS
  <2>6. row'[s].attempts = row[s].attempts
    OBVIOUS
  <2>7. RestockMaxAttempts \in Nat
    BY RestockLimitsAssumption
  <2> HIDE DEF Claimable, Chances, Orphans, Live
  <2>8. /\ Cardinality(Orphans(s)') <= mishaps'
        /\ sent'[s] + Cardinality(Chances(s)') + Claimable(s)' <= 1 + mishaps'
        /\ row'[s].attempts + Cardinality(Orphans(s)') <= RestockMaxAttempts + mishaps'
    BY <2>2, <2>3, <2>4, <2>6, <2>7 DEF SubKept
  <2>9. row'[s].status = "notified" => sent'[s] >= 1 \/ mishaps' > 0
    BY <2>3, <2>5 DEF SubKept
  <2>10. \A t, u \in (Live(s) \cap gathering)' : t = u
    BY <2>1, <2>3 DEF SubKept
  <2> QED
    BY <2>8, <2>9, <2>10 DEF SubKept
<1>2. ASSUME NEW t \in Slots PROVE TaskKept(t)'
  <2>1. TaskKept(t) /\ (tasks[t] # NULL => tasks[t].sub \in Subs)
    BY TaskNow DEF RestockInv
  <2> QED
    BY <2>1 DEF TaskKept
<1> QED
  BY <1>1, <1>2 DEF RestockInv

\* One task goes on: what it may cost is told by its messages and its chances.
LEMMA MoveStep ==
  ASSUME RestockInv, RestockTypeOK', UNCHANGED <<row, gathering, dispatcher>>,
         NEW t \in Slots, tasks[t] # NULL, NEW w \in Task, tasks' = [tasks EXCEPT ![t] = w],
         w.sub = tasks[t].sub, w.fresh = tasks[t].fresh,
         mishaps' \in {mishaps, mishaps + 1},
         \A s \in Subs : s # w.sub => sent'[s] = sent[s],
         sent'[w.sub] >= sent[w.sub],
         sent'[w.sub] + Cardinality(Chances(w.sub)') + mishaps
           <= sent[w.sub] + Cardinality(Chances(w.sub)) + mishaps',
         w.fresh /\ w.pc = "mark" => sent'[w.sub] >= 1,
         w.pc = "release" => w.tries < RestockMaxAttempts,
         t \in gathering /\ row[w.sub].status = "processing" => w.tries = row[w.sub].attempts
  PROVE  RestockInv'
<1>0. w # NULL /\ w.sub \in Subs
  BY NullAssumption DEF Task
<1>1. ASSUME NEW s \in Subs PROVE SubKept(s)'
  <2>1. tasks'[t] = w /\ \A u \in Slots : u # t => tasks'[u] = tasks[u]
    BY DEF RestockInv, RestockTypeOK
  <2>2. Live(s)' = Live(s)
    BY <1>0, <2>1 DEF Live
  <2>3. Orphans(s)' = Orphans(s) /\ Claimable(s)' = Claimable(s)
    BY <2>2 DEF Orphans, Claimable
  <2>4. s # w.sub => Chances(s)' = Chances(s)
    BY <2>1, <2>2 DEF Chances, Live
  <2>5. IsFiniteSet(Live(s)')
    BY <2>2, TasksFinite
  <2>6. Cardinality(Chances(s)') \in Nat
    BY <2>5, CardLess DEF Chances
  <2>7. sent'[s] \in Nat /\ sent'[s] >= sent[s]
    BY RestockNow DEF RestockTypeOK
  <2>8. sent'[s] + Cardinality(Chances(s)') + mishaps <= sent[s] + Cardinality(Chances(s)) + mishaps'
    <3>1. CASE s # w.sub
      BY <2>4, <3>1, RestockNow, TasksFinite
    <3>2. CASE s = w.sub
      BY <3>2
    <3> QED
      BY <3>1, <3>2
  <2>9. /\ SubKept(s) /\ sent[s] \in Nat /\ mishaps \in Nat /\ row[s].attempts \in Nat
        /\ Cardinality(Orphans(s)) \in Nat /\ Cardinality(Chances(s)) \in Nat
        /\ Claimable(s) \in {0, 1} /\ RestockMaxAttempts \in Nat
    BY RestockNow, TasksFinite, RestockLimitsAssumption
  <2>10. /\ Cardinality(Orphans(s)') <= mishaps'
         /\ sent'[s] + Cardinality(Chances(s)') + Claimable(s)' <= 1 + mishaps'
         /\ row'[s].attempts + Cardinality(Orphans(s)') <= RestockMaxAttempts + mishaps'
    <3>1. /\ Cardinality(Orphans(s)') = Cardinality(Orphans(s)) /\ Claimable(s)' = Claimable(s)
          /\ row'[s].attempts = row[s].attempts
      BY <2>3
    <3> QED
      BY <2>6, <2>7, <2>8, <2>9, <3>1 DEF SubKept
  <2>11. row'[s].status = "notified" => sent'[s] >= 1 \/ mishaps' > 0
    BY <2>7, <2>9 DEF SubKept
  <2>12. \A u, v \in (Live(s) \cap gathering)' : u = v
    BY <2>2, <2>9 DEF SubKept
  <2> QED
    BY <2>10, <2>11, <2>12 DEF SubKept
<1>2. ASSUME NEW u \in Slots PROVE TaskKept(u)'
  <2>1. TaskKept(u) /\ (tasks[u] # NULL => tasks[u].sub \in Subs)
    BY TaskNow DEF RestockInv
  <2>2. CASE u = t
    <3>1. tasks'[u] = w
      BY <2>2 DEF RestockInv, RestockTypeOK
    <3>2. w.fresh = tasks[t].fresh /\ w.sub = tasks[t].sub
      OBVIOUS
    <3> QED
      BY <2>1, <2>2, <3>1, <3>2 DEF TaskKept
  <2>3. CASE u # t
    <3>1. tasks'[u] = tasks[u]
      BY <2>3
    <3>2. tasks[u] # NULL => sent'[tasks[u].sub] >= sent[tasks[u].sub]
      BY <2>1, RestockNow
    <3>3. tasks[u] # NULL => sent'[tasks[u].sub] \in Nat /\ sent[tasks[u].sub] \in Nat
      BY <2>1, RestockNow DEF RestockTypeOK
    <3> QED
      BY <2>1, <3>1, <3>2, <3>3 DEF TaskKept
  <2> QED
    BY <2>2, <2>3
<1>3. BatchAwaited'
  BY DEF BatchAwaited, RestockInv
<1> QED
  BY <1>1, <1>2, <1>3 DEF RestockInv

\* A task comes to its end; its last write leaves the row to others or closes it.
LEMMA EndStep ==
  ASSUME RestockInv, RestockTypeOK', UNCHANGED <<sent, gathering, dispatcher>>,
         mishaps' \in {mishaps, mishaps + 1},
         NEW t \in Slots, tasks[t] # NULL, tasks' = [tasks EXCEPT ![t] = NULL],
         NEW s \in Subs, s = tasks[t].sub,
         \A r \in Subs : r # s => row'[r] = row[r],
         row'[s].status = "processing" => row'[s] = row[s],
         row'[s].status = "notified" => row[s].status = "notified" \/ sent[s] >= 1 \/ mishaps > 0,
         Cardinality(Chances(s)') + Claimable(s)' <= Cardinality(Chances(s)) + Claimable(s),
         row'[s].attempts + Cardinality(Orphans(s)') <= RestockMaxAttempts + mishaps
  PROVE  RestockInv'
<1>1. tasks'[t] = NULL /\ \A u \in Slots : u # t => tasks'[u] = tasks[u]
  BY DEF RestockInv, RestockTypeOK
<1>2. Live(s)' = Live(s) \ {t} /\ \A r \in Subs : r # s => Live(r)' = Live(r)
  BY <1>1 DEF Live
<1>3. ASSUME NEW r \in Subs PROVE SubKept(r)'
  <2>1. Live(r)' \subseteq Live(r) /\ Orphans(r)' \subseteq Orphans(r)
    BY <1>2 DEF Orphans
  <2>2. Cardinality(Orphans(r)') \in Nat /\ Cardinality(Orphans(r)') <= Cardinality(Orphans(r))
    BY <2>1, TasksFinite, CardLess
  <2>3. /\ SubKept(r) /\ sent[r] \in Nat /\ mishaps \in Nat /\ row[r].attempts \in Nat
        /\ Cardinality(Orphans(r)) \in Nat /\ Cardinality(Chances(r)) \in Nat
        /\ Claimable(r) \in {0, 1} /\ RestockMaxAttempts \in Nat
    BY RestockNow, TasksFinite, RestockLimitsAssumption
  <2>4. \A u, v \in (Live(r) \cap gathering)' : u = v
    BY <2>1, <2>3 DEF SubKept
  <2>5. Cardinality(Orphans(r)') <= mishaps'
    BY <2>2, <2>3 DEF SubKept
  <2>6. IsFiniteSet(Live(r)')
    BY <2>1, TasksFinite, FS_Subset
  <2>7. Cardinality(Chances(r)') \in Nat /\ Claimable(r)' \in {0, 1}
    BY <2>6, CardLess DEF Chances, Claimable
  <2>8. row'[r].attempts \in Nat
    BY DEF RestockTypeOK, Row
  <2>9. Cardinality(Chances(r)') + Claimable(r)' <= Cardinality(Chances(r)) + Claimable(r)
    <3>1. CASE r = s
      BY <3>1
    <3>2. CASE r # s
      <4>1. Chances(r)' = Chances(r) /\ Claimable(r)' = Claimable(r)
        BY <1>1, <1>2, <3>2 DEF Chances, Claimable, Live
      <4> QED
        BY <2>3, <4>1
    <3> QED
      BY <3>1, <3>2
  <2>10. sent'[r] + Cardinality(Chances(r)') + Claimable(r)' <= 1 + mishaps'
    BY <2>3, <2>7, <2>9 DEF SubKept
  <2>11. row'[r].attempts + Cardinality(Orphans(r)') <= RestockMaxAttempts + mishaps'
    <3>1. row'[r].attempts + Cardinality(Orphans(r)') <= RestockMaxAttempts + mishaps
      BY <2>2, <2>3 DEF SubKept
    <3> QED
      BY <2>2, <2>3, <2>8, <3>1
  <2>12. row'[r].status = "notified" => sent'[r] >= 1 \/ mishaps' > 0
    BY <2>3 DEF SubKept
  <2> QED
    BY <2>4, <2>5, <2>10, <2>11, <2>12 DEF SubKept
<1>4. ASSUME NEW u \in Slots PROVE TaskKept(u)'
  <2>1. TaskKept(u) /\ (tasks[u] # NULL => tasks[u].sub \in Subs)
    BY TaskNow DEF RestockInv
  <2>2. u = t \/ tasks'[u] = tasks[u]
    BY <1>1
  <2>3. \A r \in Subs : row'[r].status = "processing" => row'[r] = row[r]
    OBVIOUS
  <2> QED
    BY <1>1, <2>1, <2>2, <2>3 DEF TaskKept
<1>5. BatchAwaited'
  BY DEF BatchAwaited, RestockInv
<1> QED
  BY <1>3, <1>4, <1>5 DEF RestockInv

\* The loop stops waiting for its batch: whatever goes on is one mishap's doing.
LEMMA GiveUpStep ==
  ASSUME RestockInv, RestockTypeOK', UNCHANGED <<row, sent>>, mishaps' = mishaps + 1,
         gathering' = {}, \A t \in Slots : tasks'[t] \in {tasks[t], NULL}
  PROVE  RestockInv'
<1>1. ASSUME NEW s \in Subs PROVE SubKept(s)'
  <2>1. Live(s)' \subseteq Live(s)
    BY DEF Live
  <2>2. /\ SubKept(s) /\ sent[s] \in Nat /\ mishaps \in Nat /\ row[s].attempts \in Nat
        /\ Cardinality(Orphans(s)) \in Nat /\ Cardinality(Chances(s)) \in Nat
        /\ Claimable(s) \in {0, 1} /\ RestockMaxAttempts \in Nat
        /\ IsFiniteSet(Live(s)) /\ IsFiniteSet(Orphans(s)) /\ IsFiniteSet(Chances(s))
    BY RestockNow, TasksFinite, RestockLimitsAssumption
  <2>3. \A t \in Live(s)' : tasks'[t] = tasks[t]
    BY DEF Live
  <2>4. /\ Cardinality(Orphans(s)') \in Nat /\ Cardinality(Orphans(s)') <= Cardinality(Orphans(s)) + 1
        /\ Cardinality(Chances(s)') \in Nat /\ Claimable(s)' \in {0, 1}
        /\ Cardinality(Chances(s)') + Claimable(s)' <= Cardinality(Chances(s)) + Claimable(s) + 1
    <3>1. CASE Live(s) \cap gathering = {}
      <4>1. Orphans(s)' \subseteq Orphans(s) /\ Chances(s)' \subseteq Chances(s)
        BY <2>1, <2>3, <3>1 DEF Orphans, Chances
      <4>2. Claimable(s)' = Claimable(s)
        BY <3>1 DEF Claimable
      <4>3. /\ Cardinality(Orphans(s)') \in Nat /\ Cardinality(Orphans(s)') <= Cardinality(Orphans(s))
            /\ Cardinality(Chances(s)') \in Nat /\ Cardinality(Chances(s)') <= Cardinality(Chances(s))
        BY <2>2, <4>1, CardLess
      <4> QED
        BY <2>2, <4>2, <4>3
    <3>2. ASSUME NEW u \in Live(s) \cap gathering
          PROVE  /\ Cardinality(Orphans(s)') \in Nat
                 /\ Cardinality(Orphans(s)') <= Cardinality(Orphans(s)) + 1
                 /\ Cardinality(Chances(s)') \in Nat /\ Claimable(s)' \in {0, 1}
                 /\ Cardinality(Chances(s)') + Claimable(s)'
                      <= Cardinality(Chances(s)) + Claimable(s) + 1
      <4>1. Orphans(s)' \subseteq Orphans(s) \union {u}
        BY <2>1, <2>2 DEF Orphans, SubKept
      <4>2. Cardinality(Orphans(s)') \in Nat /\ Cardinality(Orphans(s)') <= Cardinality(Orphans(s)) + 1
        BY <2>2, <4>1, CardPlus
      <4>3. CASE row[s].status = "processing"
        <5>1. tasks[u].fresh
          BY <4>3 DEF RestockInv, TaskKept, Live
        <5>2. Chances(s)' \subseteq Chances(s)
          BY <2>1, <2>2, <2>3, <5>1 DEF Chances, SubKept
        <5>3. Cardinality(Chances(s)') \in Nat /\ Cardinality(Chances(s)') <= Cardinality(Chances(s))
          BY <2>2, <5>2, CardLess
        <5>4. Claimable(s)' \in {0, 1}
          BY DEF Claimable
        <5> QED
          BY <2>2, <4>2, <5>3, <5>4
      <4>4. CASE row[s].status # "processing"
        <5>1. Chances(s)' \subseteq Chances(s) \union {u}
          BY <2>1, <2>2, <2>3 DEF Chances, SubKept
        <5>2. Cardinality(Chances(s)') \in Nat /\ Cardinality(Chances(s)') <= Cardinality(Chances(s)) + 1
          BY <2>2, <5>1, CardPlus
        <5>3. Claimable(s)' = Claimable(s)
          BY <4>4 DEF Claimable
        <5> QED
          BY <2>2, <4>2, <5>2, <5>3
      <4> QED
        BY <4>3, <4>4
    <3> QED
      BY <3>1, <3>2
  <2>5. /\ Cardinality(Orphans(s)') <= mishaps'
        /\ sent'[s] + Cardinality(Chances(s)') + Claimable(s)' <= 1 + mishaps'
        /\ row'[s].attempts + Cardinality(Orphans(s)') <= RestockMaxAttempts + mishaps'
    <3>1. sent'[s] = sent[s] /\ row'[s].attempts = row[s].attempts
      OBVIOUS
    <3> QED
      BY <2>2, <2>4, <3>1 DEF SubKept
  <2>6. row'[s].status = "notified" => sent'[s] >= 1 \/ mishaps' > 0
    BY <2>2
  <2>7. \A t, u \in (Live(s) \cap gathering)' : t = u
    OBVIOUS
  <2> QED
    BY <2>5, <2>6, <2>7 DEF SubKept
<1>2. ASSUME NEW t \in Slots PROVE TaskKept(t)'
  <2>1. TaskKept(t) /\ tasks'[t] \in {tasks[t], NULL}
    BY DEF RestockInv
  <2> QED
    BY <2>1 DEF TaskKept
<1>3. BatchAwaited'
  BY DEF BatchAwaited
<1> QED
  BY <1>1, <1>2, <1>3 DEF RestockInv

\* A new subscription: the tasks of the one before may write its row, and the batch's own
\* task will not.
LEMMA SubscribeStep ==
  ASSUME RestockInv, RestockTypeOK', NEW s \in Subs, Subscribe(s)
  PROVE  RestockInv'
<1>1. /\ row'[s].status = "active" /\ row'[s].attempts = 0 /\ sent'[s] = 0
      /\ \A r \in Subs : r # s => row'[r] = row[r] /\ sent'[r] = sent[r]
      /\ UNCHANGED <<dispatcher, gathering, mishaps>>
  BY DEF Subscribe, RestockInv, RestockTypeOK
<1>2. \A t \in Slots :
        IF tasks[t] # NULL /\ tasks[t].sub = s
        THEN /\ tasks'[t] = [tasks[t] EXCEPT !.fresh = FALSE]
             /\ tasks'[t] # NULL /\ tasks'[t].sub = s /\ ~tasks'[t].fresh
             /\ tasks'[t].pc = tasks[t].pc /\ tasks'[t].tries = tasks[t].tries
        ELSE tasks'[t] = tasks[t]
  <2> SUFFICES ASSUME NEW t \in Slots, tasks[t] # NULL, tasks[t].sub = s
               PROVE  /\ tasks'[t] = [tasks[t] EXCEPT !.fresh = FALSE]
                      /\ tasks'[t] # NULL /\ tasks'[t].sub = s /\ ~tasks'[t].fresh
                      /\ tasks'[t].pc = tasks[t].pc /\ tasks'[t].tries = tasks[t].tries
    BY DEF Subscribe, Outdated
  <2>1. tasks'[t] = [tasks[t] EXCEPT !.fresh = FALSE]
    BY DEF Subscribe, Outdated
  <2>2. tasks[t] \in Task
    BY TaskNow DEF RestockInv
  <2>3. [tasks[t] EXCEPT !.fresh = FALSE] \in Task
    BY <2>2 DEF Task
  <2> QED
    BY <2>1, <2>2, <2>3, NullAssumption DEF Task
<1>3. \A r \in Subs : Live(r)' = Live(r)
  BY <1>2 DEF Live
<1>4. \A r \in Subs : Orphans(r)' = Orphans(r)
  BY <1>1, <1>3 DEF Orphans
<1>5. ASSUME NEW r \in Subs PROVE SubKept(r)'
  <2>1. /\ SubKept(r) /\ sent[r] \in Nat /\ mishaps \in Nat /\ row[r].attempts \in Nat
        /\ Cardinality(Orphans(r)) \in Nat /\ Cardinality(Chances(r)) \in Nat
        /\ Claimable(r) \in {0, 1} /\ RestockMaxAttempts \in Nat /\ IsFiniteSet(Orphans(r))
    BY RestockNow, TasksFinite, RestockLimitsAssumption DEF RestockInv
  <2>2. CASE r = s
    <3>1. Chances(r)' \subseteq Orphans(r)
      BY <1>1, <1>2, <1>3, <2>2 DEF Chances, Orphans, Live
    <3>2. Cardinality(Chances(r)') \in Nat /\ Cardinality(Chances(r)') <= Cardinality(Orphans(r))
      BY <2>1, <3>1, CardLess
    <3>3. Claimable(r)' = 1
      BY <1>1, <2>2 DEF Claimable
    <3>4. Cardinality(Orphans(r)') = Cardinality(Orphans(r))
      BY <1>4
    <3>5. /\ Cardinality(Orphans(r)') <= mishaps'
          /\ sent'[r] + Cardinality(Chances(r)') + Claimable(r)' <= 1 + mishaps'
          /\ row'[r].attempts + Cardinality(Orphans(r)') <= RestockMaxAttempts + mishaps'
      BY <1>1, <2>1, <2>2, <3>2, <3>3, <3>4 DEF SubKept
    <3>6. \A t, u \in (Live(r) \cap gathering)' : t = u
      BY <1>1, <1>3, <2>1 DEF SubKept
    <3> QED
      BY <1>1, <2>2, <3>5, <3>6 DEF SubKept
  <2>3. CASE r # s
    <3>1. /\ \A t \in Live(r) : tasks'[t] = tasks[t]
          /\ Live(r)' = Live(r) /\ gathering' = gathering /\ row'[r] = row[r]
      BY <1>1, <1>2, <1>3, <2>3 DEF Live
    <3>1a. Chances(r)' = Chances(r)
      BY <3>1 DEF Chances
    <3>1b. Claimable(r)' = Claimable(r)
      BY <3>1 DEF Claimable
    <3>2. row'[r] = row[r] /\ sent'[r] = sent[r] /\ mishaps' = mishaps
      BY <1>1, <2>3
    <3>3. (Live(r) \cap gathering)' = Live(r) \cap gathering
      BY <1>1, <1>3
    <3> QED
      BY <1>4, <2>1, <3>1a, <3>1b, <3>2, <3>3 DEF SubKept
  <2> QED
    BY <2>2, <2>3
<1>6. ASSUME NEW t \in Slots PROVE TaskKept(t)'
  <2>1. TaskKept(t) /\ (tasks[t] # NULL => tasks[t].sub \in Subs)
    BY TaskNow DEF RestockInv
  <2>2. CASE tasks[t] # NULL /\ tasks[t].sub = s
    <3>1. /\ tasks'[t].sub = s /\ ~tasks'[t].fresh /\ tasks'[t].pc = tasks[t].pc
          /\ tasks'[t].tries = tasks[t].tries
      BY <1>2, <2>2
    <3> QED
      BY <1>1, <2>1, <2>2, <3>1 DEF TaskKept
  <2>3. CASE ~(tasks[t] # NULL /\ tasks[t].sub = s)
    <3>1. tasks'[t] = tasks[t]
      BY <1>2, <2>3
    <3> QED
      BY <1>1, <2>1, <2>3, <3>1 DEF TaskKept
  <2> QED
    BY <2>2, <2>3
<1>7. BatchAwaited'
  BY <1>1 DEF BatchAwaited, RestockInv
<1> QED
  BY <1>5, <1>6, <1>7 DEF RestockInv

\* What could be claimed becomes the chance of a task.
LEMMA ClaimStep ==
  ASSUME RestockInv, RestockTypeOK', ClaimBatch
  PROVE  RestockInv'
<1>1. RestockTypeOK /\ gathering = {} /\ dispatcher' = "gather"
      /\ UNCHANGED <<sent, mishaps>>
  BY DEF RestockInv, BatchAwaited, ClaimBatch
<1>2. /\ gathering' \subseteq FreeSlots
      /\ \A t \in Slots \ gathering' : tasks'[t] = tasks[t]
      /\ \A t \in gathering' :
           /\ tasks'[t] \in Task /\ tasks'[t].sub \in Candidates
           /\ tasks'[t].pc = "queued" /\ tasks'[t].fresh
      /\ \A t, u \in gathering' : tasks'[t].sub = tasks'[u].sub => t = u
      /\ \A s \in Candidates : \E t \in gathering' : tasks'[t].sub = s
  BY <1>1, ClaimsPlaced
<1>3. \A s \in Subs :
        /\ s \in Candidates => /\ row[s].status = "active"
                               /\ row'[s].status = "processing"
                               /\ row'[s].attempts = row[s].attempts
        /\ s \notin Candidates => row'[s] = row[s]
  <2> SUFFICES ASSUME NEW s \in Subs
               PROVE  /\ s \in Candidates => /\ row[s].status = "active"
                                             /\ row'[s].status = "processing"
                                             /\ row'[s].attempts = row[s].attempts
                      /\ s \notin Candidates => row'[s] = row[s]
    OBVIOUS
  <2>1. row[s] \in Row
    BY <1>1 DEF RestockTypeOK
  <2>2. CASE s \in Candidates
    <3>1. row[s].status = "active"
      BY <2>2 DEF Candidates, Ready
    <3>2. row'[s] = [row[s] EXCEPT !.status = "processing", !.stale = FALSE]
      BY <2>2 DEF ClaimBatch
    <3> QED
      BY <2>1, <2>2, <3>1, <3>2 DEF Row
  <2>3. CASE s \notin Candidates
    BY <2>3 DEF ClaimBatch
  <2> QED
    BY <2>2, <2>3
<1>4. gathering' \subseteq Slots /\ \A t \in gathering' : tasks[t] = NULL /\ tasks'[t] # NULL
  BY <1>2, NullAssumption DEF FreeSlots
<1>5. \A s : Live(s)' \ gathering' = Live(s)
  BY <1>2, <1>4 DEF Live
<1>6. \A s \in Subs : Orphans(s)' = Orphans(s)
  BY <1>1, <1>5 DEF Orphans
<1>7. ASSUME NEW s \in Subs PROVE SubKept(s)'
  <2>1. /\ SubKept(s) /\ sent[s] \in Nat /\ mishaps \in Nat /\ row[s].attempts \in Nat
        /\ Cardinality(Orphans(s)) \in Nat /\ Cardinality(Chances(s)) \in Nat
        /\ Claimable(s) \in {0, 1} /\ RestockMaxAttempts \in Nat /\ IsFiniteSet(Chances(s))
    BY RestockNow, TasksFinite, RestockLimitsAssumption DEF RestockInv
  <2>2. \A t, u \in (Live(s) \cap gathering)' : t = u
    BY <1>2 DEF Live
  <2>3. /\ Cardinality(Chances(s)') \in Nat /\ Claimable(s)' \in {0, 1}
        /\ Cardinality(Chances(s)') + Claimable(s)' <= Cardinality(Chances(s)) + Claimable(s)
    <3>1. CASE s \in Candidates
      <4>1. PICK t \in gathering' : tasks'[t].sub = s
        BY <1>2, <3>1
      <4>2. Live(s)' = Live(s) \union {t}
        BY <1>2, <1>4, <4>1 DEF Live
      <4>3. Chances(s)' \subseteq Chances(s) \union {t}
        BY <1>1, <1>2, <1>4, <4>1, <4>2 DEF Chances, Live
      <4>4. /\ Cardinality(Chances(s)') \in Nat
            /\ Cardinality(Chances(s)') <= Cardinality(Chances(s)) + 1
        BY <2>1, <4>3, CardPlus
      <4>5. t \in Live(s)' \cap gathering'
        BY <4>1, <4>2
      <4>6. Claimable(s) = 1 /\ Claimable(s)' = 0
        BY <1>3, <3>1, <4>5 DEF Claimable
      <4> QED
        BY <2>1, <4>4, <4>6
    <3>2. CASE s \notin Candidates
      <4>1. Live(s)' \cap gathering' = {} /\ Live(s) \cap gathering = {}
        BY <1>1, <1>2, <3>2 DEF Live
      <4>2. Live(s)' = Live(s) /\ Claimable(s)' = Claimable(s)
        BY <1>3, <1>5, <3>2, <4>1 DEF Claimable
      <4>3. Chances(s)' = Chances(s)
        BY <1>2, <4>1, <4>2 DEF Chances, Live
      <4> QED
        BY <2>1, <4>2, <4>3
    <3> QED
      BY <3>1, <3>2
  <2>4. /\ row'[s].attempts = row[s].attempts /\ sent'[s] = sent[s] /\ mishaps' = mishaps
        /\ row'[s].status = "notified" => row[s].status = "notified"
        /\ Cardinality(Orphans(s)') = Cardinality(Orphans(s))
    BY <1>1, <1>3, <1>6
  <2>5. /\ Cardinality(Orphans(s)') <= mishaps'
        /\ sent'[s] + Cardinality(Chances(s)') + Claimable(s)' <= 1 + mishaps'
        /\ row'[s].attempts + Cardinality(Orphans(s)') <= RestockMaxAttempts + mishaps'
    BY <2>1, <2>3, <2>4 DEF SubKept
  <2>6. row'[s].status = "notified" => sent'[s] >= 1 \/ mishaps' > 0
    BY <2>1, <2>4 DEF SubKept
  <2> QED
    BY <2>2, <2>5, <2>6 DEF SubKept
<1>8. ASSUME NEW t \in Slots PROVE TaskKept(t)'
  <2>1. CASE t \in gathering'
    BY <1>2, <2>1 DEF TaskKept
  <2>2. CASE t \notin gathering'
    <3>1. tasks'[t] = tasks[t] /\ TaskKept(t)
      BY <1>2, <2>2 DEF RestockInv
    <3> QED
      BY <1>1, <2>2, <3>1 DEF TaskKept
  <2> QED
    BY <2>1, <2>2
<1>9. BatchAwaited'
  BY <1>1 DEF BatchAwaited
<1> QED
  BY <1>7, <1>8, <1>9 DEF RestockInv

\* The writes of a task: it sends once, or leaves the row for another to send, or closes it.
LEMMA WriteStep ==
  ASSUME RestockInv, RestockTypeOK', NEW t \in Slots, Write(t)
  PROVE  RestockInv'
<1>0. tasks[t] # NULL
  BY DEF Write
<1> PICK s \in Subs : s = tasks[t].sub
  BY <1>0, TaskNow DEF RestockInv
<1>1. /\ tasks[t] # NULL /\ tasks' = [tasks EXCEPT ![t] = NULL]
      /\ UNCHANGED <<sent, gathering, dispatcher, mishaps>>
      /\ tasks[t].pc \in {"mark", "fail", "return", "release"}
  BY DEF Write, Done
<1>2. row[s] \in Row /\ row[s].attempts \in Nat /\ tasks[t].tries \in Nat
      /\ tasks[t].fresh \in BOOLEAN
  BY <1>1, TaskNow DEF RestockInv, Row
<1>3. row' = IF row[s].status = "processing" THEN [row EXCEPT ![s] = Outcome(t)] ELSE row
  BY DEF Write, StillClaimed
<1>4. (\A r \in Subs : r # s => row'[r] = row[r])
  BY <1>3 DEF RestockInv, RestockTypeOK
<1>5. tasks'[t] = NULL /\ \A u \in Slots : u # t => tasks'[u] = tasks[u]
  BY <1>1 DEF RestockInv, RestockTypeOK
<1>6. t \in Live(s) /\ Live(s)' = Live(s) \ {t} /\ TaskKept(t)
  BY <1>1, <1>5 DEF Live, RestockInv
<1>7. Orphans(s)' = Orphans(s) \ {t} /\ Chances(s)' = Chances(s) \ {t}
  BY <1>1, <1>5, <1>6 DEF Orphans, Chances
<1>8. /\ SubKept(s) /\ sent[s] \in Nat /\ mishaps \in Nat
      /\ Cardinality(Orphans(s)) \in Nat /\ Cardinality(Chances(s)) \in Nat
      /\ Claimable(s) \in {0, 1} /\ RestockMaxAttempts \in Nat
      /\ IsFiniteSet(Orphans(s)) /\ IsFiniteSet(Chances(s))
  BY <1>2, RestockNow, TasksFinite, RestockLimitsAssumption
<1>9. /\ Cardinality(Orphans(s)') \in Nat /\ Cardinality(Orphans(s)') <= Cardinality(Orphans(s))
      /\ Cardinality(Chances(s)') \in Nat /\ Cardinality(Chances(s)') <= Cardinality(Chances(s))
      /\ Claimable(s)' \in {0, 1}
  BY <1>7, <1>8, CardLess DEF Claimable
<1>10. t \notin gathering => /\ Cardinality(Orphans(s)') + 1 <= Cardinality(Orphans(s))
                             /\ mishaps > 0
  <2> SUFFICES ASSUME t \notin gathering
               PROVE  /\ Cardinality(Orphans(s)') + 1 <= Cardinality(Orphans(s))
                      /\ mishaps > 0
    OBVIOUS
  <2>1. t \in Orphans(s)
    BY <1>6 DEF Orphans
  <2>2. Cardinality(Orphans(s)') + 1 <= Cardinality(Orphans(s))
    BY <1>7, <1>8, <2>1, CardMinus
  <2> QED
    BY <1>8, <1>9, <2>2 DEF SubKept
<1>11. t \in Chances(s) => Cardinality(Chances(s)') + 1 <= Cardinality(Chances(s))
  BY <1>7, <1>8, CardMinus
<1>12. t \in gathering /\ row[s].status = "processing" =>
         tasks[t].fresh /\ tasks[t].tries = row[s].attempts
  BY <1>1, <1>6 DEF TaskKept
<1>13. t \in gathering => (row[s].status = "processing" => Claimable(s) = 0)
  BY <1>6 DEF Claimable
<1> DEFINE Goal ==
      /\ row'[s].status = "processing" => row'[s] = row[s]
      /\ row'[s].status = "notified" => row[s].status = "notified" \/ sent[s] >= 1 \/ mishaps > 0
      /\ Cardinality(Chances(s)') + Claimable(s)' <= Cardinality(Chances(s)) + Claimable(s)
      /\ row'[s].attempts + Cardinality(Orphans(s)') <= RestockMaxAttempts + mishaps
<1>14. Goal
  <2>1. CASE row[s].status # "processing"
    <3>1. row'[s] = row[s]
      BY <1>3, <2>1
    <3>2. Claimable(s)' = Claimable(s)
      BY <2>1, <3>1 DEF Claimable
    <3>3. Cardinality(Chances(s)') + Claimable(s)' <= Cardinality(Chances(s)) + Claimable(s)
      BY <1>8, <1>9, <3>2
    <3>4. row'[s].attempts + Cardinality(Orphans(s)') <= RestockMaxAttempts + mishaps
      BY <1>2, <1>8, <1>9, <3>1 DEF SubKept
    <3> QED
      BY <3>1, <3>3, <3>4
  <2>2. CASE row[s].status = "processing" /\ tasks[t].pc \in {"mark", "fail"}
    <3>1. row'[s] = Outcome(t)
      BY <1>2, <1>3, <2>2 DEF RestockInv, RestockTypeOK
    <3>2. Outcome(t) = IF tasks[t].pc = "mark" THEN [row[s] EXCEPT !.status = "notified", !.stale = FALSE]
                       ELSE [row[s] EXCEPT !.status = "failed", !.stale = FALSE]
      BY <2>2 DEF Outcome, Notified
    <3>3. /\ row'[s].status = (IF tasks[t].pc = "mark" THEN "notified" ELSE "failed")
          /\ row'[s].attempts = row[s].attempts
      BY <1>2, <3>1, <3>2 DEF Row
    <3>4. Claimable(s)' = 0
      BY <3>3 DEF Claimable
    <3>5. Cardinality(Chances(s)') + Claimable(s)' <= Cardinality(Chances(s)) + Claimable(s)
      BY <1>8, <1>9, <3>4
    <3>6. row'[s].attempts + Cardinality(Orphans(s)') <= RestockMaxAttempts + mishaps
      BY <1>2, <1>8, <1>9, <3>3 DEF SubKept
    <3>7. tasks[t].pc = "mark" => sent[s] >= 1 \/ mishaps > 0
      BY <1>1, <1>6, <1>10, <1>12, <2>2 DEF TaskKept
    <3> QED
      BY <3>3, <3>5, <3>6, <3>7
  <2>3. CASE row[s].status = "processing" /\ tasks[t].pc \in {"return", "release"}
    <3>1. row'[s] = Outcome(t)
      BY <1>2, <1>3, <2>3 DEF RestockInv, RestockTypeOK
    <3>2. Outcome(t) = IF tasks[t].pc = "return" THEN [row[s] EXCEPT !.status = "active", !.stale = FALSE]
                       ELSE [row[s] EXCEPT !.status = "active", !.stale = FALSE, !.due = FALSE,
                                           !.attempts = @ + 1]
      BY <2>3 DEF Outcome
    <3>3. /\ row'[s].status = "active"
          /\ row'[s].attempts = IF tasks[t].pc = "return" THEN row[s].attempts
                                ELSE row[s].attempts + 1
      BY <1>2, <3>1, <3>2 DEF Row
    <3>4. t \in Chances(s)
      BY <1>6, <1>12, <2>3 DEF Chances
    <3>5. Claimable(s)' = 1
      BY <3>3 DEF Claimable
    <3>6. Cardinality(Chances(s)') + Claimable(s)' <= Cardinality(Chances(s)) + Claimable(s)
      BY <1>8, <1>9, <1>11, <3>4, <3>5
    <3>7. row'[s].attempts + Cardinality(Orphans(s)') <= RestockMaxAttempts + mishaps
      <4>1. CASE tasks[t].pc = "return"
        BY <1>2, <1>8, <1>9, <3>3, <4>1 DEF SubKept
      <4>2. CASE tasks[t].pc = "release" /\ t \in gathering
        <5>1. row[s].attempts < RestockMaxAttempts
          BY <1>1, <1>6, <1>12, <2>3, <4>2 DEF TaskKept
        <5>2. row'[s].attempts = row[s].attempts + 1
          BY <3>3, <4>2
        <5> QED
          BY <1>2, <1>8, <1>9, <5>1, <5>2 DEF SubKept
      <4>3. CASE tasks[t].pc = "release" /\ t \notin gathering
        <5>1. row'[s].attempts = row[s].attempts + 1
          BY <3>3, <4>3
        <5> QED
          BY <1>2, <1>8, <1>9, <1>10, <4>3, <5>1 DEF SubKept
      <4> QED
        BY <2>3, <4>1, <4>2, <4>3
    <3> QED
      BY <3>3, <3>6, <3>7
  <2> QED
    BY <1>1, <2>1, <2>2, <2>3
<1>15. mishaps' \in {mishaps, mishaps + 1}
  BY <1>1
<1> QED
  BY <1>1, <1>2, <1>4, <1>14, <1>15, EndStep

\* A message spends the chance that its task was; an error may give one back.
LEMMA ChancesSpent ==
  ASSUME RestockTypeOK, UNCHANGED gathering, NEW t \in Slots, NEW s \in Subs, tasks[t] # NULL,
         s = tasks[t].sub, NEW w \in Task, tasks' = [tasks EXCEPT ![t] = w],
         w.sub = s, w.fresh = tasks[t].fresh,
         sent' \in [Subs -> Nat], mishaps \in Nat,
         \/ /\ t \in Chances(s)' => t \in Chances(s)
            /\ sent'[s] = sent[s] /\ mishaps' = mishaps
         \/ t \notin Chances(s)' /\ t \in Chances(s) /\ sent'[s] = sent[s] + 1 /\ mishaps' = mishaps
         \/ /\ t \in Chances(s)' => t \in Chances(s)
            /\ sent'[s] <= sent[s] + 1 /\ mishaps' = mishaps + 1
         \/ sent'[s] = sent[s] /\ mishaps' = mishaps + 1
  PROVE  sent'[s] + Cardinality(Chances(s)') + mishaps <= sent[s] + Cardinality(Chances(s)) + mishaps'
<1>1. tasks'[t] = w /\ \A u \in Slots : u # t => tasks'[u] = tasks[u]
  BY DEF RestockTypeOK
<1>2. \A u \in Slots : u # t => (u \in Chances(s)' <=> u \in Chances(s))
  BY <1>1 DEF Chances, Live
<1>3. Chances(s) \subseteq Slots /\ Chances(s)' \subseteq Slots
  BY DEF Chances, Live
<1>4. IsFiniteSet(Chances(s)) /\ Cardinality(Chances(s)) \in Nat /\ sent[s] \in Nat
      /\ sent'[s] \in Nat
  BY TasksFinite DEF RestockTypeOK
<1>5. Cardinality(Chances(s)') \in Nat /\ Cardinality(Chances(s)') <= Cardinality(Chances(s)) + 1
  <2>1. Chances(s)' \subseteq Chances(s) \union {t}
    BY <1>2, <1>3
  <2> QED
    BY <1>4, <2>1, CardPlus
<1>6. (t \in Chances(s)' => t \in Chances(s)) => Cardinality(Chances(s)') <= Cardinality(Chances(s))
  <2> SUFFICES ASSUME t \in Chances(s)' => t \in Chances(s)
               PROVE  Cardinality(Chances(s)') <= Cardinality(Chances(s))
    OBVIOUS
  <2>1. Chances(s)' \subseteq Chances(s)
    BY <1>2, <1>3
  <2> QED
    BY <1>4, <2>1, CardLess
<1>7. t \notin Chances(s)' /\ t \in Chances(s) =>
        Cardinality(Chances(s)') + 1 <= Cardinality(Chances(s))
  <2> SUFFICES ASSUME t \notin Chances(s)', t \in Chances(s)
               PROVE  Cardinality(Chances(s)') + 1 <= Cardinality(Chances(s))
    OBVIOUS
  <2>1. Chances(s)' \subseteq Chances(s) \ {t}
    BY <1>2, <1>3
  <2> QED
    BY <1>4, <2>1, CardMinus
<1> QED
  BY <1>4, <1>5, <1>6, <1>7

\* The steps of a task before its write.
LEMMA GoOnStep ==
  ASSUME RestockInv, RestockTypeOK', NEW t \in Slots,
         Start(t) \/ CheckStock(t) \/ SendAlert(t) \/ LoseAnswer(t) \/ FailInside(t)
  PROVE  RestockInv'
<1>1. tasks[t] # NULL /\ UNCHANGED <<row, gathering, dispatcher>>
  BY DEF Start, CheckStock, SendAlert, LoseAnswer, FailInside, At
<1> PICK s \in Subs : s = tasks[t].sub
  BY <1>1, TaskNow DEF RestockInv
<1>2. tasks[t] \in Task /\ row[s] \in Row /\ row[s].attempts \in Nat /\ tasks[t].tries \in Nat
      /\ tasks[t].fresh \in BOOLEAN
  BY <1>1, TaskNow DEF RestockInv, Row
<1>3. /\ RestockTypeOK /\ SubKept(s) /\ sent[s] \in Nat /\ mishaps \in Nat
      /\ Cardinality(Orphans(s)) \in Nat /\ Cardinality(Chances(s)) \in Nat
      /\ Claimable(s) \in {0, 1} /\ RestockMaxAttempts \in Nat
      /\ IsFiniteSet(Orphans(s)) /\ IsFiniteSet(Chances(s)) /\ sent' \in [Subs -> Nat]
  BY <1>2, RestockNow, TasksFinite, RestockLimitsAssumption DEF RestockInv, RestockTypeOK
<1>4. t \in Live(s) /\ TaskKept(t)
  BY <1>1 DEF Live, RestockInv
<1>5. ASSUME NEW w \in Task, tasks' = [tasks EXCEPT ![t] = w], w.sub = s, w.fresh = tasks[t].fresh,
             \/ tasks[t].pc # "queued" /\ w.tries = tasks[t].tries
             \/ w.tries = row[s].attempts,
             \/ sent' = sent /\ mishaps' = mishaps /\ (t \in Chances(s)' => t \in Chances(s))
                /\ w.pc # "mark"
             \/ /\ sent' = Delivered(t) /\ tasks[t].pc = "send" /\ w.pc = "mark" /\ mishaps' = mishaps
             \/ /\ sent' = Delivered(t) /\ tasks[t].pc = "send" /\ w.pc \in {"fail", "release"}
                /\ mishaps' = mishaps + 1
             \/ sent' = sent /\ mishaps' = mishaps + 1 /\ w.pc # "mark",
             w.pc = "release" => w.tries < RestockMaxAttempts
      PROVE  RestockInv'
  <2>1. tasks'[t] = w
    BY <1>3, <1>5 DEF RestockTypeOK
  <2>2. t \in Live(s)'
    BY <1>5, <2>1, NullAssumption DEF Live, Task
  <2>3. t \in Chances(s)' <=> w.pc \in {"queued", "stock", "send", "return", "release"}
                              /\ (t \in gathering => w.fresh)
    BY <1>1, <2>1, <2>2 DEF Chances
  <2>4. tasks[t].pc = "send" => (t \in Chances(s) <=> (t \in gathering => tasks[t].fresh))
    BY <1>4 DEF Chances
  <2>5. sent' = Delivered(t) => /\ \A r \in Subs : r # s => sent'[r] = sent[r]
                                /\ sent'[s] = IF tasks[t].fresh THEN sent[s] + 1 ELSE sent[s]
    BY <1>3 DEF Delivered, RestockTypeOK
  <2>6. /\ \A r \in Subs : r # s => sent'[r] = sent[r]
        /\ sent'[s] >= sent[s]
    BY <1>3, <1>5, <2>5
  <2>7. sent'[s] + Cardinality(Chances(s)') + mishaps
          <= sent[s] + Cardinality(Chances(s)) + mishaps'
    <3>1. \/ /\ t \in Chances(s)' => t \in Chances(s)
             /\ sent'[s] = sent[s] /\ mishaps' = mishaps
          \/ t \notin Chances(s)' /\ t \in Chances(s) /\ sent'[s] = sent[s] + 1 /\ mishaps' = mishaps
          \/ /\ t \in Chances(s)' => t \in Chances(s)
             /\ sent'[s] <= sent[s] + 1 /\ mishaps' = mishaps + 1
          \/ sent'[s] = sent[s] /\ mishaps' = mishaps + 1
      <4>1. CASE sent' = sent
        BY <1>5, <2>3, <2>4, <2>5, <4>1, <1>3
      <4>2. CASE sent' = Delivered(t) /\ tasks[t].fresh
        <5>1. t \in Chances(s) \/ tasks[t].pc # "send"
          BY <2>4, <4>2
        <5>2. sent'[s] = sent[s] + 1
          BY <2>5, <4>2
        <5> QED
          BY <1>3, <1>5, <2>3, <5>1, <5>2
      <4>3. CASE sent' = Delivered(t) /\ ~tasks[t].fresh
        <5>1. sent'[s] = sent[s]
          BY <2>5, <4>3
        <5> QED
          BY <1>3, <1>5, <2>3, <2>4, <5>1
      <4> QED
        BY <1>5, <4>1, <4>2, <4>3
    <3> QED
      BY <1>1, <1>3, <1>5, <3>1, ChancesSpent
  <2>8. w.fresh /\ w.pc = "mark" => sent'[s] >= 1
    BY <1>3, <1>5, <2>5
  <2>9. t \in gathering /\ row[s].status = "processing" => w.tries = row[s].attempts
    BY <1>1, <1>4, <1>5 DEF TaskKept
  <2>10. mishaps' \in {mishaps, mishaps + 1}
    BY <1>5
  <2> QED
    BY <1>1, <1>5, <2>6, <2>7, <2>8, <2>9, <2>10, MoveStep
<1>6. CASE Start(t)
  <2>1. UNCHANGED <<sent, mishaps>> /\ tasks[t].pc = "queued"
    BY <1>6 DEF Start, At
  <2>2. CASE row[s].status # "processing"
    <3>1. tasks' = [tasks EXCEPT ![t] = NULL]
      BY <1>6, <2>2 DEF Start, Done
    <3>2. tasks'[t] = NULL /\ \A u \in Slots : u # t => tasks'[u] = tasks[u]
      BY <1>3, <3>1 DEF RestockTypeOK
    <3>3. Orphans(s)' \subseteq Orphans(s) /\ Chances(s)' \subseteq Chances(s)
      BY <1>1, <3>2 DEF Orphans, Chances, Live
    <3>4. Claimable(s)' = Claimable(s)
      BY <1>1, <2>2 DEF Claimable
    <3>5. /\ Cardinality(Orphans(s)') \in Nat /\ Cardinality(Orphans(s)') <= Cardinality(Orphans(s))
          /\ Cardinality(Chances(s)') \in Nat /\ Cardinality(Chances(s)') <= Cardinality(Chances(s))
      BY <1>3, <3>3, CardLess
    <3>6. Cardinality(Chances(s)') + Claimable(s)' <= Cardinality(Chances(s)) + Claimable(s)
      BY <1>3, <3>4, <3>5
    <3>7. row'[s].attempts + Cardinality(Orphans(s)') <= RestockMaxAttempts + mishaps
      <4>1. row'[s].attempts = row[s].attempts
        BY <1>1
      <4> QED
        BY <1>2, <1>3, <3>5, <4>1 DEF SubKept
    <3> QED
      BY <1>1, <2>1, <3>1, <3>6, <3>7, EndStep
  <2>3. CASE row[s].status = "processing"
    <3> DEFINE pc == IF goods[ItemOf[s]] = "enabled" THEN "stock" ELSE "return"
               w == [tasks[t] EXCEPT !.pc = pc, !.tries = row[s].attempts]
    <3>1. pc \in {"stock", "return"}
      OBVIOUS
    <3>2. tasks' = [tasks EXCEPT ![t].pc = pc, ![t].tries = row[s].attempts]
      BY <1>6, <2>3 DEF Start
    <3> HIDE DEF pc
    <3>3. w \in Task
      BY <1>2, <3>1 DEF Task
    <3>4. \A u \in Slots : tasks'[u] = IF u = t THEN w ELSE tasks[u]
      BY <1>2, <1>3, <3>2, Zenon DEF RestockTypeOK
    <3>5. tasks' = [tasks EXCEPT ![t] = w]
      <4>1. tasks' \in [Slots -> Task \union {NULL}] /\ tasks \in [Slots -> Task \union {NULL}]
        BY <1>3 DEF RestockTypeOK
      <4> HIDE DEF w
      <4> QED
        BY <3>4, <4>1
    <3>6. t \in Chances(s)
      BY <1>1, <1>4, <2>1, <2>3 DEF Chances, TaskKept
    <3>7. w.sub = s /\ w.fresh = tasks[t].fresh /\ w.tries = row[s].attempts
          /\ w.pc \in {"stock", "return"}
      BY <1>2, <3>1 DEF Task
    <3> HIDE DEF w
    <3> QED
      BY <1>5, <2>1, <3>3, <3>5, <3>6, <3>7
  <2> QED
    BY <2>2, <2>3
<1>7. ASSUME NEW pc \in {"send", "return", "mark", "release", "fail"}, Goto(t, pc),
             pc = "release" => tasks[t].tries < RestockMaxAttempts, tasks[t].pc # "queued",
             \/ sent' = sent /\ mishaps' = mishaps /\ pc \in {"fail", "release"} /\ tasks[t].pc = "send"
             \/ sent' = sent /\ mishaps' = mishaps /\ pc \in {"send", "return"} /\ tasks[t].pc = "stock"
             \/ sent' = Delivered(t) /\ tasks[t].pc = "send" /\ pc = "mark" /\ mishaps' = mishaps
             \/ /\ sent' = Delivered(t) /\ tasks[t].pc = "send" /\ pc \in {"fail", "release"}
                /\ mishaps' = mishaps + 1
             \/ sent' = sent /\ mishaps' = mishaps + 1 /\ pc # "mark"
      PROVE  RestockInv'
  <2> DEFINE w == [tasks[t] EXCEPT !.pc = pc]
  <2>1. w \in Task /\ w.sub = s /\ w.fresh = tasks[t].fresh /\ w.tries = tasks[t].tries /\ w.pc = pc
    BY <1>2 DEF Task
  <2>2. tasks' = [tasks EXCEPT ![t] = w]
    BY <1>7 DEF Goto
  <2> HIDE DEF w
  <2>3. tasks'[t] = w
    BY <1>3, <2>2 DEF RestockTypeOK
  <2>4. tasks[t].pc \in {"send", "stock"} => (t \in Chances(s)' => t \in Chances(s))
    BY <1>1, <1>4, <2>1, <2>3 DEF Chances
  <2> QED
    BY <1>5, <1>7, <2>1, <2>2, <2>4
<1>8. Handler(t) \in {"fail", "release"} /\ (Handler(t) = "release" => tasks[t].tries < RestockMaxAttempts)
  BY <1>2, <1>3 DEF Handler, Exhausted
<1>9. CASE CheckStock(t)
  <2>1. /\ tasks[t].pc = "stock" /\ UNCHANGED <<sent, mishaps>>
        /\ Goto(t, "send") \/ Goto(t, "return")
    BY <1>9 DEF CheckStock, At
  <2> QED
    BY <1>7, <2>1
<1>10. CASE SendAlert(t)
  <2>1. /\ tasks[t].pc = "send" /\ UNCHANGED mishaps
        /\ \/ Goto(t, "mark") /\ sent' = Delivered(t)
           \/ Goto(t, "fail") /\ sent' = sent
           \/ Goto(t, Handler(t)) /\ sent' = sent
    BY <1>10 DEF SendAlert, At
  <2> QED
    BY <1>7, <1>8, <2>1
<1>11. CASE LoseAnswer(t)
  <2>1. /\ tasks[t].pc = "send" /\ mishaps' = mishaps + 1
        /\ Goto(t, Handler(t)) /\ sent' = Delivered(t)
    BY <1>11 DEF LoseAnswer, At, Blame
  <2> QED
    BY <1>7, <1>8, <2>1
<1>12. CASE FailInside(t)
  <2>1. /\ tasks[t].pc # "queued" /\ mishaps' = mishaps + 1
        /\ Goto(t, Handler(t)) /\ sent' = sent
    BY <1>12 DEF FailInside, Blame
  <2> QED
    BY <1>7, <1>8, <2>1
<1> QED
  BY <1>6, <1>9, <1>10, <1>11, <1>12

LEMMA RestockInvStep ==
  ASSUME RestockInv, [RestockNext]_restockVars
  PROVE  RestockInv'
<1>1. RestockTypeOK /\ RestockTypeOK'
  BY RestockTypeStep DEF RestockInv
<1>2. mishaps \in Nat /\ \A s \in Subs : row[s] \in Row
  BY <1>1 DEF RestockTypeOK
<1>3. ASSUME NEW s \in Subs, Subscribe(s) PROVE RestockInv'
  BY <1>1, <1>3, SubscribeStep
<1>4. ASSUME UNCHANGED <<tasks, sent, gathering, dispatcher, mishaps>>,
             \A s \in Subs :
               /\ row'[s].attempts = row[s].attempts
               /\ row'[s].status \in {"none", "cancelled", row[s].status}
      PROVE  RestockInv'
  BY <1>1, <1>4, QuietStep DEF RestockInv, BatchAwaited
<1>5. ASSUME NEW s \in Subs, ReadToCancel(s) \/ WriteCancel(s) \/ ComeDue(s) \/ GrowStale(s)
      PROVE  RestockInv'
  <2>1. UNCHANGED <<tasks, sent, gathering, dispatcher, mishaps>>
    BY <1>5 DEF ReadToCancel, WriteCancel, ComeDue, GrowStale
  <2>2. ASSUME NEW r \in Subs
        PROVE  /\ row'[r].attempts = row[r].attempts
               /\ row'[r].status \in {"none", "cancelled", row[r].status}
    <3>1. row \in [Subs -> Row] /\ row[s] \in Row
      BY <1>1 DEF RestockTypeOK
    <3>2. CASE ReadToCancel(s)
      BY <3>2 DEF ReadToCancel
    <3>3. CASE WriteCancel(s)
      BY <3>1, <3>3 DEF WriteCancel, Row
    <3>4. CASE ComeDue(s)
      BY <3>1, <3>4 DEF ComeDue, Row
    <3>5. CASE GrowStale(s)
      BY <3>1, <3>5 DEF GrowStale, Row
    <3> QED
      BY <1>5, <3>2, <3>3, <3>4, <3>5
  <2> QED
    BY <1>4, <2>1, <2>2
<1>6. ASSUME NEW i \in Items, Restock(i) \/ SellOut(i) \/ ToggleItem(i) \/ DeleteItem(i)
      PROVE  RestockInv'
  <2>1. CASE Restock(i) \/ SellOut(i) \/ ToggleItem(i)
    BY <1>4, <2>1 DEF Restock, SellOut, ToggleItem
  <2>2. CASE DeleteItem(i)
    BY <1>2, <1>4, <2>2 DEF DeleteItem, Row
  <2> QED
    BY <1>6, <2>1, <2>2
<1>7. CASE RecoverStale
  <2>1. gathering = {} /\ gathering' = {}
    BY <1>7 DEF RecoverStale, RestockInv, BatchAwaited
  <2>2. UNCHANGED <<tasks, sent, mishaps>>
    BY <1>7 DEF RecoverStale
  <2>3. ASSUME NEW s \in Subs
        PROVE  /\ row'[s].attempts = row[s].attempts
               /\ row'[s].status \in {"none", "cancelled", row[s].status}
                  \/ (row'[s].status = "active" /\ row[s].status = "processing"
                      /\ Live(s) \cap gathering = {})
    BY <1>2, <1>7, <2>1 DEF RecoverStale, Recoverable, Row
  <2> QED
    BY <1>1, <2>1, <2>2, <2>3, QuietStep DEF BatchAwaited
<1>8. CASE ClaimBatch
  BY <1>1, <1>8, ClaimStep
<1>9. CASE ClaimNothing \/ Gathered \/ PollRestock \/ FailLoop
  <2>1. UNCHANGED <<tasks, sent, row>> /\ mishaps' \in {mishaps, mishaps + 1}
    BY <1>9 DEF ClaimNothing, Gathered, PollRestock, FailLoop, Blame
  <2>2. \A t \in Slots : tasks[t] # NULL => (t \in gathering' <=> t \in gathering)
    BY <1>9 DEF ClaimNothing, Gathered, PollRestock, FailLoop, Finished
  <2>3. BatchAwaited'
    BY <1>9 DEF ClaimNothing, Gathered, PollRestock, FailLoop, BatchAwaited, RestockInv
  <2> QED
    BY <1>1, <2>1, <2>2, <2>3, QuietStep
<1>10. ASSUME NEW t \in Slots,
              Start(t) \/ CheckStock(t) \/ SendAlert(t) \/ LoseAnswer(t) \/ FailInside(t)
       PROVE  RestockInv'
  BY <1>1, <1>10, GoOnStep
<1>11. ASSUME NEW t \in Slots, Write(t) PROVE RestockInv'
  BY <1>1, <1>11, WriteStep
<1>12. ASSUME NEW t \in Slots, FailInHandler(t) PROVE RestockInv'
  <2>1. /\ tasks[t] # NULL /\ tasks' = [tasks EXCEPT ![t] = NULL]
        /\ UNCHANGED <<row, sent>> /\ mishaps' = mishaps + 1
    BY <1>12 DEF FailInHandler, Done, Blame
  <2>2. tasks'[t] = NULL /\ \A u \in Slots : u # t => tasks'[u] = tasks[u]
    BY <1>1, <2>1 DEF RestockTypeOK
  <2>3. CASE t \in gathering
    <3>1. gathering' = {}
      BY <1>12, <2>3 DEF FailInHandler
    <3>2. \A u \in Slots : tasks'[u] \in {tasks[u], NULL}
      BY <2>2
    <3> QED
      BY <1>1, <2>1, <3>1, <3>2, GiveUpStep
  <2>4. CASE t \notin gathering
    <3>1. UNCHANGED <<gathering, dispatcher>>
      BY <1>12, <2>4 DEF FailInHandler
    <3> PICK s \in Subs : s = tasks[t].sub
      BY <1>1, <2>1, TaskNow
    <3>2. Orphans(s)' \subseteq Orphans(s) /\ Chances(s)' \subseteq Chances(s)
      BY <2>2, <3>1 DEF Orphans, Chances, Live
    <3>3. (Live(s) \cap gathering)' = Live(s) \cap gathering
      BY <2>2, <2>4, <3>1 DEF Live
    <3>4. Claimable(s)' = Claimable(s)
      BY <2>1, <3>3 DEF Claimable
    <3>5. /\ IsFiniteSet(Orphans(s)) /\ IsFiniteSet(Chances(s)) /\ Claimable(s) \in {0, 1}
          /\ SubKept(s) /\ row[s].attempts \in Nat /\ RestockMaxAttempts \in Nat
      BY RestockNow, TasksFinite, RestockLimitsAssumption
    <3>6. /\ Cardinality(Orphans(s)') \in Nat /\ Cardinality(Orphans(s)') <= Cardinality(Orphans(s))
          /\ Cardinality(Chances(s)') \in Nat /\ Cardinality(Chances(s)') <= Cardinality(Chances(s))
          /\ Cardinality(Orphans(s)) \in Nat /\ Cardinality(Chances(s)) \in Nat
      BY <3>2, <3>5, CardLess
    <3>7. Cardinality(Chances(s)') + Claimable(s)' <= Cardinality(Chances(s)) + Claimable(s)
      BY <3>4, <3>5, <3>6
    <3>8. row'[s].attempts + Cardinality(Orphans(s)') <= RestockMaxAttempts + mishaps
      <4>1. row'[s].attempts = row[s].attempts
        BY <2>1
      <4> QED
        BY <1>2, <3>5, <3>6, <4>1 DEF SubKept
    <3>9. mishaps' \in {mishaps, mishaps + 1}
      BY <2>1
    <3> QED
      BY <1>1, <2>1, <3>1, <3>7, <3>8, <3>9, EndStep
  <2> QED
    BY <2>3, <2>4
<1>13. CASE Crash
  <2>1. /\ UNCHANGED <<row, sent>> /\ mishaps' = mishaps + 1 /\ gathering' = {}
        /\ \A t \in Slots : tasks'[t] \in {tasks[t], NULL}
    BY <1>13 DEF Crash, Blame
  <2> QED
    BY <1>1, <2>1, GiveUpStep
<1>14. CASE UNCHANGED restockVars
  BY <1>4, <1>14 DEF restockVars
<1> QED
  BY <1>3, <1>5, <1>6, <1>7, <1>8, <1>9, <1>10, <1>11, <1>12, <1>13, <1>14
  DEF RestockNext, LoopStep, TaskStep

LEMMA RestockStarts == RestockInit => RestockInv
<1> SUFFICES ASSUME RestockInit PROVE RestockInv
  OBVIOUS
<1> USE DEF RestockInit
<1>1. RestockTypeOK
  BY RestockLimitsAssumption DEF RestockTypeOK, Row
<1>2. \A s : Live(s) = {}
  BY DEF Live
<1>3. \A s : Orphans(s) = {} /\ Chances(s) = {}
  BY <1>2 DEF Orphans, Chances
<1>4. Cardinality({}) = 0
  BY FS_EmptySet
<1>5. ASSUME NEW s \in Subs PROVE SubKept(s)
  <2>1. Claimable(s) = 0
    BY DEF Claimable
  <2>2. Cardinality(Orphans(s)) = 0 /\ Cardinality(Chances(s)) = 0
    BY <1>3, <1>4
  <2> QED
    BY <1>2, <2>1, <2>2, RestockLimitsAssumption DEF SubKept
<1> QED
  BY <1>1, <1>5 DEF RestockInv, TaskKept, BatchAwaited

LEMMA RestockInvariant == RestockSpec => []RestockInv
BY RestockStarts, RestockInvStep, PTL DEF RestockSpec

\* The tables, the tasks and the loop keep their types: a stale row is one that is
\* processing, and only an active one waits for a later time.
THEOREM RestockTypeCorrect == RestockSpec => []RestockTypeOK
<1>1. RestockInv => RestockTypeOK
  BY DEF RestockInv
<1> QED
  BY <1>1, RestockInvariant, PTL

\* A subscription is answered with one message; every further one is paid for by a crash,
\* a database error or a lost answer.
THEOREM AnsweredOnce == RestockSpec => []NotifiedOnce
<1>1. RestockInv => NotifiedOnce
  <2> SUFFICES ASSUME RestockInv, NEW s \in Subs PROVE sent[s] <= 1 + mishaps
    BY DEF NotifiedOnce
  <2> QED
    BY RestockNow, TasksFinite DEF SubKept
<1> QED
  BY <1>1, RestockInvariant, PTL

\* A row is closed as notified only when its customer was told, once, as long as nothing
\* went wrong.
THEOREM ClosedWhenTold == RestockSpec => []NotifiedHeard
<1>1. RestockInv => NotifiedHeard
  <2> SUFFICES ASSUME RestockInv, NEW s \in Subs, row[s].status = "notified", mishaps = 0
               PROVE  sent[s] = 1
    BY DEF NotifiedHeard
  <2> QED
    BY RestockNow, TasksFinite DEF SubKept
<1> QED
  BY <1>1, RestockInvariant, PTL

\* No subscription is retried more often than RESTOCK_MAX_ATTEMPTS, but for the tasks that
\* outlived their batch.
THEOREM RetriesBounded == RestockSpec => []AttemptsBounded
<1>1. RestockInv => AttemptsBounded
  <2> SUFFICES ASSUME RestockInv, NEW s \in Subs
               PROVE  row[s].attempts <= RestockMaxAttempts + mishaps
    BY DEF AttemptsBounded
  <2> QED
    BY RestockNow, TasksFinite, RestockLimitsAssumption DEF SubKept
<1> QED
  BY <1>1, RestockInvariant, PTL

\* A cancelled subscription stays cancelled, whatever tasks are in flight, until its
\* customer subscribes again: every write of a task looks at the row first.
THEOREM CancellationSticks == RestockSpec => CancelSticks
<1>1. ASSUME RestockTypeOK, [RestockNext]_restockVars, NEW s \in Subs,
             row[s].status = "cancelled", ~Subscribe(s)
      PROVE  row'[s].status \in {"cancelled", "none"}
  <2>1. row \in [Subs -> Row] /\ row[s] \in Row
    BY <1>1 DEF RestockTypeOK
  <2>2. ASSUME NEW r \in Subs, Subscribe(r) PROVE row'[s].status \in {"cancelled", "none"}
    <3>1. r # s
      BY <1>1, <2>2
    <3> QED
      BY <1>1, <2>1, <2>2, <3>1 DEF Subscribe
  <2>3. ASSUME NEW r \in Subs, ReadToCancel(r) \/ WriteCancel(r) \/ ComeDue(r) \/ GrowStale(r)
        PROVE  row'[s].status \in {"cancelled", "none"}
    <3>1. CASE ReadToCancel(r)
      BY <1>1, <3>1 DEF ReadToCancel
    <3>2. CASE WriteCancel(r)
      BY <1>1, <2>1, <3>2 DEF WriteCancel, Row
    <3>3. CASE ComeDue(r) \/ GrowStale(r)
      BY <1>1, <2>1, <3>3 DEF ComeDue, GrowStale, Row
    <3> QED
      BY <2>3, <3>1, <3>2, <3>3
  <2>4. ASSUME NEW i \in Items, Restock(i) \/ SellOut(i) \/ ToggleItem(i) \/ DeleteItem(i)
        PROVE  row'[s].status \in {"cancelled", "none"}
    <3>1. CASE Restock(i) \/ SellOut(i) \/ ToggleItem(i)
      BY <1>1, <3>1 DEF Restock, SellOut, ToggleItem
    <3>2. CASE DeleteItem(i)
      BY <1>1, <2>1, <3>2 DEF DeleteItem, Row
    <3> QED
      BY <2>4, <3>1, <3>2
  <2>5. CASE RecoverStale
    BY <1>1, <2>1, <2>5 DEF RecoverStale, Recoverable
  <2>6. CASE ClaimBatch
    BY <1>1, <2>1, <2>6 DEF ClaimBatch, Candidates, Ready
  <2>7. ASSUME NEW t \in Slots, Write(t) PROVE row'[s].status \in {"cancelled", "none"}
    <3>1. row' = IF StillClaimed(t) THEN [row EXCEPT ![tasks[t].sub] = Outcome(t)] ELSE row
      BY <2>7 DEF Write
    <3>2. StillClaimed(t) => tasks[t].sub # s
      BY <1>1 DEF StillClaimed
    <3> QED
      BY <1>1, <2>1, <3>1, <3>2
  <2>8. CASE row' = row
    BY <1>1, <2>8
  <2> QED
    BY <1>1, <2>2, <2>3, <2>4, <2>5, <2>6, <2>7, <2>8
    DEF RestockNext, LoopStep, TaskStep, ClaimNothing, Gathered, PollRestock, Start, CheckStock,
      SendAlert, LoseAnswer, FailInside, FailInHandler, FailLoop, Crash, restockVars
<1>2. RestockTypeOK /\ [RestockNext]_restockVars =>
        [\A s \in Subs : row[s].status = "cancelled" =>
           \/ row'[s].status \in {"cancelled", "none"}
           \/ Subscribe(s)]_restockVars
  BY <1>1
<1> QED
  BY <1>2, RestockTypeCorrect, PTL DEF RestockSpec, CancelSticks

===============================================================================
