------------------------- MODULE AdministrationProofs -------------------------
(***************************************************************************)
(* What administrators do, for any users, roles, permissions, products,    *)
(* categories and image files, and as many edits, requests, dialogs and    *)
(* restarts as may be.                                                     *)
(*                                                                         *)
(* Access: nobody ends up with a permission that was neither there at      *)
(* first nor given by the panel, and who is blocked is not heard.          *)
(*                                                                         *)
(* Catalogue and Reviews: foreign keys and unique names hold, no row names *)
(* an image that is gone, and a review is stored as it was last shown.     *)
(***************************************************************************)
EXTENDS Access, Catalogue, TLAPS

-------------------------------------------------------------------------------
(* Access: the ceiling *)

\* The rows, the caches and the reads under way have their types.
Shape ==
  /\ role \in [Users -> Roles \union {Nothing}]
  /\ perms \in [Roles -> Entry]
  /\ cache \in [Caches -> [Users -> Entry]]
  /\ \A f \in fills : f.in \in Caches /\ f.user \in Users /\ f.perms \in SUBSET Perms

\* A user's role exists and is within the ceiling.
RolesInv ==
  \A u \in Users : role[u] # Nothing => /\ perms[role[u]] # Nothing
                                        /\ perms[role[u]] \subseteq allowed

\* So is everything that was read from such a role, however long ago.
ReadInv ==
  /\ \A k \in Caches, u \in Users : cache[k][u] # Nothing => cache[k][u] \subseteq allowed
  /\ \A f \in fills : f.perms \subseteq allowed

\* A dialog goes on with permissions that were seen, and asks for permissions.
DialogInv ==
  IsDialog => /\ DOMAIN session = {"role", "perms", "caller"}
              /\ session.role \in Roles \union {Nothing}
              /\ session.perms \in SUBSET Perms /\ session.caller \in SUBSET Perms
              /\ session.caller \subseteq allowed

IsAssignment == ~Free /\ ~IsDeletion

\* An assignment under way was checked against permissions that were seen; its
\* role has changed within the ceiling since, or is gone.
AssignInv ==
  IsAssignment => /\ session.user \in Users /\ session.role \in Roles
                  /\ \/ perms[session.role] = Nothing
                     \/ perms[session.role] \subseteq allowed

NamingInv == IsNaming => session.naming \in Users
DeletionInv == IsDeletion => session.deleting \in Roles

SessionInv == DialogInv /\ AssignInv /\ NamingInv /\ DeletionInv

Ceiling == Shape /\ RolesInv /\ ReadInv /\ SessionInv

-------------------------------------------------------------------------------
\* What a read of the rows gives is a set of permissions within the ceiling.
LEMMA HeldFits ==
  ASSUME Ceiling, NEW u \in Users
  PROVE  Held(u) \in SUBSET Perms /\ Held(u) \subseteq allowed
  BY DEF Ceiling, Shape, RolesInv, Held, Entry

\* And so is what check_role_cached answers.
LEMMA SeenFits ==
  ASSUME Ceiling, NEW u \in Users
  PROVE  Seen(u) \in SUBSET Perms /\ Seen(u) \subseteq allowed
<1>1. CASE usable /\ cache["redis"][u] # Nothing
  BY <1>1 DEF Seen, Ceiling, Shape, ReadInv, Caches, Entry
<1>2. CASE ~(usable /\ cache["redis"][u] # Nothing)
  BY <1>2, HeldFits DEF Seen
<1> QED BY <1>1, <1>2

\* The rows, the caches and the session of a step that touches none of them.
LEMMA RowsKept ==
  ASSUME Ceiling, UNCHANGED <<roleRows, allowed>>
  PROVE  role' \in [Users -> Roles \union {Nothing}] /\ perms' \in [Roles -> Entry] /\ RolesInv'
  BY DEF Ceiling, Shape, RolesInv, roleRows

LEMMA SessionKept ==
  ASSUME Ceiling, UNCHANGED <<roleRows, session, allowed>>
  PROVE  SessionInv'
  BY DEF Ceiling, SessionInv, DialogInv, AssignInv, NamingInv, DeletionInv, IsAssignment,
         Free, IsDialog, IsNaming, IsDeletion, roleRows

ReadShape ==
  /\ cache \in [Caches -> [Users -> Entry]]
  /\ \A f \in fills : f.in \in Caches /\ f.user \in Users /\ f.perms \in SUBSET Perms

\* The steps of the caches.
LEMMA CachingKeeps ==
  ASSUME Ceiling, Readers \subseteq Users, Caching
  PROVE  Ceiling'
<1> USE DEF Ceiling
<1>0. /\ UNCHANGED <<roleRows, session, allowed>>
      /\ ReadShape' /\ ReadInv' => Ceiling'
  <2>1. UNCHANGED <<roleRows, session, allowed>>
    BY DEF Caching, StartFill, StoreFill, Expire, Drop, LoseRedis, RestoreRedis, gate
  <2> QED BY <2>1, RowsKept, SessionKept DEF Shape, ReadShape
<1>1. ASSUME NEW k \in Caches, NEW u \in Readers, StartFill(k, u)
      PROVE  ReadShape' /\ ReadInv'
  BY <1>1, HeldFits DEF StartFill, ReadShape, ReadInv, Shape
<1>2. ASSUME NEW k \in Caches, NEW u \in Readers, Expire(k, u)
      PROVE  ReadShape' /\ ReadInv'
  BY <1>2 DEF Expire, ReadShape, ReadInv, Shape, Entry
<1>3. ASSUME NEW f \in fills, StoreFill(f)
      PROVE  ReadShape' /\ ReadInv'
  BY <1>3 DEF StoreFill, ReadShape, ReadInv, Shape, Entry
<1>4. ASSUME NEW u \in Users, Drop(u)
      PROVE  ReadShape' /\ ReadInv'
  BY <1>4 DEF Drop, ReadShape, ReadInv, Shape, Entry, Caches
<1>5. CASE LoseRedis \/ RestoreRedis
  BY <1>0, <1>5 DEF LoseRedis, RestoreRedis, ReadShape, ReadInv, Shape
<1> QED BY <1>0, <1>1, <1>2, <1>3, <1>4, <1>5 DEF Caching

\* The steps that leave the cached permissions, and the reads under way, alone or
\* drop some of the entries.
LEMMA ReadsKept ==
  ASSUME Ceiling, allowed \subseteq allowed', fills' \subseteq fills,
         cache' \in [Caches -> [Users -> Entry]],
         \A k \in Caches, u \in Users : cache'[k][u] \in {Nothing, cache[k][u]}
  PROVE  ReadShape' /\ ReadInv'
  BY DEF Ceiling, Shape, ReadShape, ReadInv

\* A dialog is opened, goes on, or ends, and the rows stay.
LEMMA DialogsKeep ==
  ASSUME Ceiling,
         \/ \E a \in Users : \/ CreateStart(a)
                             \/ \E r \in Roles : EditStart(a, r) \/ DeleteRole(a, r)
                             \/ \E u \in Users, r \in Roles : Assign(a, u, r)
         \/ \E p \in Perms : Toggle(p)
         \/ CreateName \/ LeaveDialog
  PROVE  Ceiling'
<1> USE DEF Ceiling
<1>0. /\ UNCHANGED <<roleRows, reads, allowed>>
      /\ SessionInv' => Ceiling'
  <2>1. UNCHANGED <<roleRows, reads, allowed>>
    BY DEF CreateStart, EditStart, DeleteRole, Assign, Toggle, CreateName, LeaveDialog
  <2> QED BY <2>1, RowsKept, ReadsKept DEF Shape, ReadShape, ReadInv, reads
<1>1. ASSUME NEW a \in Users, CreateStart(a) PROVE Ceiling'
  <2>1. session' = [naming |-> a]  BY <1>1 DEF CreateStart
  <2>2. DOMAIN session' = {"naming"} /\ session'.naming = a  BY <2>1
  <2> QED BY <1>0, <2>2 DEF SessionInv, DialogInv, AssignInv, NamingInv, DeletionInv,
                            IsAssignment, Free, IsDialog, IsNaming, IsDeletion
<1>2. ASSUME NEW a \in Users, NEW r \in Roles, EditStart(a, r) PROVE Ceiling'
  <2>1. /\ session' = [role |-> r, perms |-> perms[r], caller |-> Seen(a)]
        /\ perms[r] # Nothing
    BY <1>2 DEF EditStart, Grantable
  <2>2. /\ DOMAIN session' = {"role", "perms", "caller"}
        /\ session'.role = r /\ session'.perms = perms[r] /\ session'.caller = Seen(a)
    BY <2>1
  <2>3. perms[r] \in SUBSET Perms  BY <2>1 DEF Shape, Entry
  <2> QED BY <1>0, <2>2, <2>3, SeenFits DEF SessionInv, DialogInv, AssignInv, NamingInv,
             DeletionInv, IsAssignment, Free, IsDialog, IsNaming, IsDeletion
<1>3. ASSUME NEW a \in Users, NEW r \in Roles, DeleteRole(a, r) PROVE Ceiling'
  <2>1. DOMAIN session' = {"deleting"} /\ session'.deleting = r  BY <1>3 DEF DeleteRole
  <2> QED BY <1>0, <2>1 DEF SessionInv, DialogInv, AssignInv, NamingInv, DeletionInv,
                            IsAssignment, Free, IsDialog, IsNaming, IsDeletion
<1>4. ASSUME NEW a \in Users, NEW u \in Users, NEW r \in Roles, Assign(a, u, r) PROVE Ceiling'
  <2>1. /\ DOMAIN session' = {"user", "role"} /\ session'.user = u /\ session'.role = r
        /\ perms[r] \subseteq Seen(a)
    BY <1>4 DEF Assign, Grantable
  <2>2. perms'[r] \subseteq allowed'  BY <1>0, <2>1, SeenFits DEF roleRows
  <2> QED BY <1>0, <2>1, <2>2 DEF SessionInv, DialogInv, AssignInv, NamingInv, DeletionInv,
                                  IsAssignment, Free, IsDialog, IsNaming, IsDeletion
<1>5. ASSUME NEW p \in Perms, Toggle(p) PROVE Ceiling'
  <2>1. IsDialog /\ session' = [session EXCEPT !.perms = (@ \ {p}) \union ({p} \ @)]
    BY <1>5 DEF Toggle
  <2>2. DialogInv  BY DEF SessionInv
  <2>3. /\ DOMAIN session' = DOMAIN session
        /\ session'.role = session.role /\ session'.caller = session.caller
        /\ session'.perms = (session.perms \ {p}) \union ({p} \ session.perms)
    BY <2>1, <2>2 DEF DialogInv
  <2> QED BY <1>0, <2>1, <2>2, <2>3 DEF SessionInv, DialogInv, AssignInv, NamingInv,
             DeletionInv, IsAssignment, Free, IsDialog, IsNaming, IsDeletion
<1>6. CASE CreateName
  <2>1. /\ IsNaming
        /\ session' = [role |-> Nothing, perms |-> {}, caller |-> Seen(session.naming)]
    BY <1>6 DEF CreateName
  <2>2. session.naming \in Users  BY <2>1 DEF SessionInv, NamingInv
  <2>3. /\ DOMAIN session' = {"role", "perms", "caller"}
        /\ session'.role = Nothing /\ session'.perms = {}
        /\ session'.caller = Seen(session.naming)
    BY <2>1
  <2> QED BY <1>0, <2>2, <2>3, SeenFits DEF SessionInv, DialogInv, AssignInv, NamingInv,
             DeletionInv, IsAssignment, Free, IsDialog, IsNaming, IsDeletion
<1>7. CASE LeaveDialog
  BY <1>0, <1>7 DEF LeaveDialog, SessionInv, DialogInv, AssignInv, NamingInv, DeletionInv,
     IsAssignment, Free, IsDialog, IsNaming, IsDeletion
<1> QED BY <1>1, <1>2, <1>3, <1>4, <1>5, <1>6, <1>7

\* A session that ends leaves nothing to know.
LEMMA NoSession ==
  ASSUME session' = Nothing
  PROVE  SessionInv'
  BY DEF SessionInv, DialogInv, AssignInv, NamingInv, DeletionInv, IsAssignment, Free,
         IsDialog, IsNaming, IsDeletion

\* A role is deleted, by the bot or by the panel.
LEMMA DeletedKeeps ==
  ASSUME Ceiling, NEW r \in Roles, Deleted(r)
  PROVE  role' \in [Users -> Roles \union {Nothing}] /\ perms' \in [Roles -> Entry] /\ RolesInv'
  BY DEF Ceiling, Deleted, Shape, Entry, RolesInv

\* The commits of the bot.
LEMMA CommitsKeep ==
  ASSUME Ceiling, AccessAssumption, Done \/ CommitAssign \/ CommitDelete
  PROVE  Ceiling'
<1> USE DEF Ceiling
<1>0. session' = Nothing /\ allowed' = allowed /\ SessionInv'
  <2>1. session' = Nothing /\ allowed' = allowed
    BY DEF Done, CommitAssign, CommitDelete, Deleted
  <2> QED BY <2>1, NoSession
<1>1. CASE Done
  <2>1. UNCHANGED <<role, reads>>  BY <1>1 DEF Done
  <2>2. ReadShape' /\ ReadInv'  BY <1>0, <2>1, ReadsKept DEF Shape, reads
  <2>3. CASE UNCHANGED perms
    BY <1>0, <2>1, <2>2, <2>3, RowsKept DEF Shape, ReadShape, RolesInv
  <2>4. CASE ~ UNCHANGED perms
    <3>1. IsDialog /\ session.perms \subseteq session.caller  BY <1>1 DEF Done
    <3>2. session.perms \in SUBSET Perms /\ session.perms \subseteq allowed
      BY <3>1 DEF SessionInv, DialogInv
    <3>3. PICK r \in Roles : perms' = [perms EXCEPT ![r] = session.perms]
      BY <1>1, <2>4 DEF Done
    <3>4. session.perms # Nothing  BY <3>2 DEF AccessAssumption
    <3>5. perms' \in [Roles -> Entry] /\ RolesInv'
      BY <1>0, <2>1, <3>2, <3>3, <3>4 DEF Shape, RolesInv, Entry
    <3> QED BY <1>0, <2>1, <2>2, <3>5 DEF Shape, ReadShape
  <2> QED BY <2>3, <2>4
<1>2. CASE CommitAssign
  <2>0. IsAssignment /\ UNCHANGED <<perms, fills>>  BY <1>2 DEF CommitAssign, IsAssignment
  <2>1. CASE UNCHANGED <<role, cache>>
    BY <1>0, <2>0, <2>1, ReadsKept DEF Shape, ReadShape, RolesInv
  <2>2. CASE ~ UNCHANGED <<role, cache>>
    <3> DEFINE u == session.user
    <3>1. /\ perms[session.role] # Nothing
          /\ role' = [role EXCEPT ![u] = session.role]
          /\ cache' = [cache EXCEPT !["auth"][u] = Nothing]
      BY <1>2, <2>2 DEF CommitAssign
    <3>2. u \in Users /\ session.role \in Roles /\ perms[session.role] \subseteq allowed
      BY <2>0, <3>1 DEF SessionInv, AssignInv
    <3>3. role' \in [Users -> Roles \union {Nothing}] /\ RolesInv'
      BY <1>0, <2>0, <3>1, <3>2 DEF Shape, RolesInv
    <3>4. ReadShape' /\ ReadInv'
      <4>1. cache' \in [Caches -> [Users -> Entry]]
        BY <3>1, <3>2 DEF Shape, Entry
      <4>2. \A k \in Caches, v \in Users : cache'[k][v] \in {Nothing, cache[k][v]}
        BY <3>1, <3>2 DEF Shape
      <4> QED BY <1>0, <2>0, <4>1, <4>2, ReadsKept
    <3> QED BY <1>0, <2>0, <3>3, <3>4 DEF Shape, ReadShape
  <2> QED BY <2>1, <2>2
<1>3. CASE CommitDelete
  <2>0. IsDeletion /\ UNCHANGED reads  BY <1>3 DEF CommitDelete, Deleted
  <2>1. ReadShape' /\ ReadInv'  BY <1>0, <2>0, ReadsKept DEF Shape, reads
  <2>2. CASE UNCHANGED roleRows
    BY <1>0, <2>1, <2>2, RowsKept DEF Shape, ReadShape
  <2>3. CASE ~ UNCHANGED roleRows
    <3>1. Deleted(session.deleting)  BY <1>3, <2>3 DEF CommitDelete
    <3>2. session.deleting \in Roles  BY <2>0 DEF SessionInv, DeletionInv
    <3> QED BY <1>0, <2>1, <3>1, <3>2, DeletedKeeps DEF Shape, ReadShape
  <2> QED BY <2>2, <2>3
<1> QED BY <1>1, <1>2, <1>3

\* The panel's writes: what it gives raises the ceiling.
LEMMA PanelKeeps ==
  ASSUME Ceiling, AccessAssumption, Panel
  PROVE  Ceiling'
<1> USE DEF Ceiling
<1>0. /\ UNCHANGED <<reads, session>> /\ allowed \subseteq allowed'
      /\ ReadShape' /\ ReadInv'
  <2>1. UNCHANGED <<reads, session>> /\ allowed \subseteq allowed'
    BY DEF Panel, WebDeleteRole, Deleted, WebRole, WebUser, gate
  <2> QED BY <2>1, ReadsKept DEF Shape, reads
<1>1. SUFFICES /\ role' \in [Users -> Roles \union {Nothing}] /\ perms' \in [Roles -> Entry]
               /\ RolesInv'
               /\ \A r \in Roles : \/ perms'[r] = perms[r] \/ perms'[r] = Nothing
                                   \/ perms'[r] \subseteq allowed'
  <2>1. SessionInv'
    BY <1>0, <1>1 DEF SessionInv, DialogInv, AssignInv, NamingInv, DeletionInv, IsAssignment,
       Free, IsDialog, IsNaming, IsDeletion
  <2> QED BY <1>0, <1>1, <2>1 DEF Shape, ReadShape
<1>2. ASSUME NEW r \in Roles, WebDeleteRole(r)
      PROVE  /\ role' \in [Users -> Roles \union {Nothing}] /\ perms' \in [Roles -> Entry]
             /\ RolesInv'
             /\ \A q \in Roles : perms'[q] = perms[q] \/ perms'[q] = Nothing
  <2>1. Deleted(r)  BY <1>2 DEF WebDeleteRole
  <2> QED BY <2>1, DeletedKeeps DEF Deleted, Shape
<1>3. ASSUME NEW r \in Roles, NEW to \in PanelPerms, WebRole(r, to)
      PROVE  /\ role' \in [Users -> Roles \union {Nothing}] /\ perms' \in [Roles -> Entry]
             /\ RolesInv'
             /\ \A q \in Roles : perms'[q] = perms[q] \/ perms'[q] \subseteq allowed'
  <2>1. to \in SUBSET Perms /\ to # Nothing  BY DEF AccessAssumption
  <2>2. perms' = [perms EXCEPT ![r] = to] /\ allowed' = allowed \union to /\ role' = role
    BY <1>3 DEF WebRole
  <2> QED BY <2>1, <2>2 DEF Shape, RolesInv, Entry
<1>4. ASSUME NEW u \in Users, NEW r \in Roles, NEW block \in BOOLEAN, WebUser(u, r, block)
      PROVE  /\ role' \in [Users -> Roles \union {Nothing}] /\ perms' \in [Roles -> Entry]
             /\ RolesInv' /\ perms' = perms
  <2>1. /\ perms[r] # Nothing /\ role' = [role EXCEPT ![u] = r]
        /\ allowed' = allowed \union perms[r] /\ perms' = perms
    BY <1>4 DEF WebUser
  <2> QED BY <2>1 DEF Shape, RolesInv
<1> QED BY <1>2, <1>3, <1>4 DEF Panel

\* Blocks, updates and a restart.
LEMMA OthersKeep ==
  ASSUME Ceiling, Blocking \/ Restart
  PROVE  Ceiling'
<1> USE DEF Ceiling
<1>1. CASE Blocking
  <2>1. UNCHANGED <<roleRows, cache, fills, session, allowed>>
    BY <1>1 DEF Blocking, BlockUser, UnblockUser, Arrive, Authenticate, Remember, reads
  <2>2. ReadShape' /\ ReadInv'  BY <2>1, ReadsKept DEF Shape
  <2> QED BY <2>1, <2>2, RowsKept, SessionKept DEF Shape, ReadShape
<1>2. CASE Restart
  <2>1. /\ UNCHANGED <<roleRows, allowed>> /\ fills' = {}
        /\ cache' = [cache EXCEPT !["auth"] = [u \in Users |-> Nothing]]
        /\ session' = session \/ session' = Nothing
    BY <1>2 DEF Restart
  <2>2. ReadShape' /\ ReadInv'
    <3>1. /\ cache' \in [Caches -> [Users -> Entry]]
          /\ \A k \in Caches, u \in Users : cache'[k][u] \in {Nothing, cache[k][u]}
      BY <2>1 DEF Shape, Entry
    <3> QED BY <2>1, <3>1, ReadsKept
  <2>3. SessionInv'  BY <2>1, SessionKept, NoSession
  <2> QED BY <2>1, <2>2, <2>3, RowsKept DEF Shape, ReadShape
<1> QED BY <1>1, <1>2

LEMMA StartsBelow ==
  ASSUME Init, AccessAssumption
  PROVE  Ceiling
<1>1. Shape  BY DEF Init, Shape, Entry, AccessAssumption, Caches
<1>2. RolesInv
  <2> SUFFICES ASSUME NEW u \in Users
               PROVE  perms[role[u]] # Nothing /\ perms[role[u]] \subseteq allowed
    BY DEF RolesInv
  <2> QED BY DEF Init, AccessAssumption
<1>3. ReadInv  BY DEF Init, ReadInv, Caches
<1>4. SessionInv
  BY DEF Init, SessionInv, DialogInv, AssignInv, NamingInv, DeletionInv, IsAssignment, Free,
     IsDialog, IsNaming, IsDeletion
<1> QED BY <1>1, <1>2, <1>3, <1>4 DEF Ceiling

LEMMA StepsBelow ==
  ASSUME Ceiling, AccessAssumption, [Next]_vars
  PROVE  Ceiling'
<1>1. CASE UNCHANGED vars
  <2>1. UNCHANGED <<roleRows, cache, fills, session, allowed>>  BY <1>1 DEF vars, reads
  <2>2. ReadShape' /\ ReadInv'  BY <2>1, ReadsKept DEF Ceiling, Shape
  <2> QED BY <2>1, <2>2, RowsKept, SessionKept DEF Ceiling, Shape, ReadShape
<1>2. CASE Caching
  BY <1>2, CachingKeeps DEF AccessAssumption
<1>3. CASE Administration
  <2>1. Readers \subseteq Users  BY DEF AccessAssumption
  <2> QED BY <1>3, <2>1, DialogsKeep, CommitsKeep DEF Administration
<1>4. CASE Panel
  BY <1>4, PanelKeeps
<1>5. CASE Blocking \/ Restart
  BY <1>5, OthersKeep
<1> QED BY <1>1, <1>2, <1>3, <1>4, <1>5 DEF Next

\* Administrators cannot grow (handlers/admin/role_management_states.py): whatever
\* roles they create, edit, assign and delete, at whatever time they were checked,
\* nobody holds a permission that nobody had at first and the panel never gave.
THEOREM NobodyGrows == Spec => []NoEscalation
<1>1. Init => Ceiling  BY StartsBelow, AccessAssumption
<1>2. Ceiling /\ [Next]_vars => Ceiling'  BY StepsBelow, AccessAssumption
<1>3. Ceiling => NoEscalation  BY HeldFits DEF NoEscalation
<1> QED BY <1>1, <1>2, <1>3, PTL DEF Spec

-------------------------------------------------------------------------------
(* Blocked users *)

\* An update that came after a block is of a user who is still blocked.
GateInv ==
  /\ heard = FALSE
  /\ update \in {Nothing} \union [user : Users, at : {"auth", "refused"}, late : BOOLEAN]
  /\ update # Nothing /\ update.late => update.user \in blocked

LEMMA GateKept ==
  ASSUME GateInv, Visitors \subseteq Users, [Next]_vars
  PROVE  GateInv'
<1> DEFINE Update == [user : Users, at : {"auth", "refused"}, late : BOOLEAN]
<1>1. CASE UNCHANGED gate
  BY <1>1 DEF GateInv, gate
<1>2. ASSUME NEW u \in Users, Lift(u), heard' = heard
      PROVE  GateInv'
  <2>1. CASE update # Nothing /\ update.user = u
    <3>1. update \in Update /\ update' = [update EXCEPT !.late = FALSE]
      BY <1>2, <2>1 DEF Lift, GateInv
    <3>2. update' \in Update /\ update'.late = FALSE  BY <3>1
    <3> QED BY <1>2, <3>2 DEF GateInv
  <2>2. CASE ~(update # Nothing /\ update.user = u)
    BY <1>2, <2>2 DEF Lift, GateInv
  <2> QED BY <2>1, <2>2
<1>3. ASSUME heard' = heard, update' = update, blocked \subseteq blocked'
      PROVE  GateInv'
  BY <1>3 DEF GateInv
<1>4. ASSUME NEW u \in Visitors, Arrive(u) PROVE GateInv'
  <2>1. update' = [user |-> u, at |-> "auth", late |-> u \in blocked] /\ UNCHANGED <<heard, blocked>>
    BY <1>4 DEF Arrive
  <2>2. update' \in Update /\ update'.user = u /\ update'.late = (u \in blocked)  BY <2>1
  <2> QED BY <2>1, <2>2 DEF GateInv
<1>5. CASE Authenticate
  <2>1. /\ update \in Update /\ UNCHANGED blocked
        /\ update' = IF Refused(update.user) THEN [update EXCEPT !.at = "refused"] ELSE Nothing
        /\ heard' = (heard \/ (~Refused(update.user) /\ update.late))
    BY <1>5 DEF Authenticate, GateInv
  <2>2. CASE Refused(update.user)
    <3>1. /\ update' \in Update /\ update'.user = update.user /\ update'.late = update.late
      BY <2>1, <2>2
    <3> QED BY <1>5, <2>1, <2>2, <3>1 DEF GateInv, Authenticate
  <2>3. CASE ~Refused(update.user)
    <3>1. ~update.late  BY <1>5, <2>3 DEF Authenticate, GateInv, Refused
    <3>2. update' = Nothing /\ heard' = FALSE  BY <2>1, <2>3, <3>1 DEF GateInv
    <3> QED BY <3>2 DEF GateInv
  <2> QED BY <2>2, <2>3
<1>6. CASE Remember \/ Restart
  BY <1>6 DEF Remember, Restart, GateInv
<1>7. CASE Caching \/ Administration
  BY <1>1, <1>7 DEF Caching, StartFill, StoreFill, Expire, Drop, LoseRedis, RestoreRedis,
     Administration, CreateStart, EditStart, DeleteRole, Assign, Toggle, CreateName, Done,
     LeaveDialog, CommitAssign, CommitDelete, Deleted
<1>8. CASE Panel
  <2>1. ASSUME NEW u \in Users, NEW r \in Roles, NEW block \in BOOLEAN, WebUser(u, r, block)
        PROVE  GateInv'
    BY <1>2, <1>3, <2>1 DEF WebUser
  <2>2. ASSUME NEW r \in Roles, WebDeleteRole(r) \/ \E to \in PanelPerms : WebRole(r, to)
        PROVE  GateInv'
    BY <1>1, <2>2 DEF WebDeleteRole, Deleted, WebRole
  <2> QED BY <1>8, <2>1, <2>2 DEF Panel
<1>9. ASSUME NEW a \in Readers, NEW u \in Users, BlockUser(a, u) \/ UnblockUser(a, u)
      PROVE  GateInv'
  BY <1>2, <1>3, <1>9 DEF BlockUser, UnblockUser
<1>10. CASE UNCHANGED vars
  BY <1>1, <1>10 DEF vars
<1> QED BY <1>4, <1>5, <1>6, <1>7, <1>8, <1>9, <1>10 DEF Next, Blocking

\* An update that comes after its user was blocked reaches no handler as long as
\* the block stands, whatever the middleware remembers, forgets in a restart or
\* learns late (middleware/security.py).
THEOREM BlockedNeverHeard == Spec => []BlockedUnheard
<1>1. Init => GateInv  BY DEF Init, GateInv
<1>2. GateInv /\ [Next]_vars => GateInv'  BY GateKept, AccessAssumption DEF AccessAssumption
<1>3. GateInv => BlockedUnheard  BY DEF GateInv, BlockedUnheard
<1> QED BY <1>1, <1>2, <1>3, PTL DEF Spec

-------------------------------------------------------------------------------
(* Types *)

\* What the ceiling and the gate leave open: sets of users and roles, the
\* counters, and the forms a session may have.
SetsFit ==
  /\ unused \subseteq Roles /\ allowed \subseteq Perms
  /\ blocked \subseteq Users /\ memory \subseteq Users /\ drops \subseteq Users
CountersFit == usable \in BOOLEAN /\ edits \in 0..MaxEdits /\ outages \in 0..MaxOutages
SessionFits ==
  session \in {Nothing} \union [naming : Users] \union [deleting : Roles]
    \union [user : Users, role : Roles]
    \union [role : Roles \union {Nothing}, perms : SUBSET Perms, caller : SUBSET Perms]

LEMMA CountersKept ==
  ASSUME CountersFit, AccessAssumption, [Next]_vars
  PROVE  CountersFit'
<1>1. CASE usable' \in BOOLEAN /\ (edits' = edits \/ Edit) /\ outages' = outages
  BY <1>1 DEF CountersFit, Edit, AccessAssumption
<1>2. CASE LoseRedis
  <2>1. /\ outages < MaxOutages /\ outages' = outages + 1
        /\ usable' = FALSE /\ edits' = edits
    BY <1>2 DEF LoseRedis
  <2>2. MaxOutages \in Nat /\ outages \in 0..MaxOutages
    BY DEF AccessAssumption, CountersFit
  <2>3. outages' \in 0..MaxOutages
    BY <2>1, <2>2
  <2> QED BY <2>1, <2>3 DEF CountersFit
<1>3. CASE Caching
  <2>1. CASE LoseRedis \/ RestoreRedis
    BY <1>1, <1>2, <2>1 DEF RestoreRedis
  <2>2. CASE ~(LoseRedis \/ RestoreRedis)
    <3>1. UNCHANGED <<usable, edits, outages>>
      BY <1>3, <2>2 DEF Caching, StartFill, StoreFill, Expire, Drop
    <3> QED BY <3>1 DEF CountersFit
  <2> QED BY <2>1, <2>2
<1>4. CASE Administration
  <2>1. UNCHANGED <<usable, outages>> /\ (edits' = edits \/ Edit)
    <3>1. CASE Done
      BY <3>1 DEF Done, reads
    <3>2. CASE CommitDelete
      BY <3>2 DEF CommitDelete, Deleted, reads
    <3>3. CASE CommitAssign
      BY <3>3 DEF CommitAssign, reads
    <3>4. CASE ~(Done \/ CommitDelete \/ CommitAssign)
      BY <1>4, <3>4 DEF Administration, CreateStart, EditStart, DeleteRole, Assign, Toggle,
        CreateName, LeaveDialog, reads
    <3> QED BY <3>1, <3>2, <3>3, <3>4
  <2> QED BY <1>1, <2>1 DEF CountersFit
<1>5. CASE Panel \/ Blocking
  BY <1>1, <1>5 DEF CountersFit, Panel, WebDeleteRole, Deleted, WebRole, WebUser, Blocking,
    BlockUser, UnblockUser, Arrive, Authenticate, Remember, reads
<1>6. CASE Restart
  BY <1>1, <1>6 DEF Restart
<1>7. CASE UNCHANGED vars
  BY <1>7 DEF vars, reads, CountersFit
<1> QED BY <1>3, <1>4, <1>5, <1>6, <1>7 DEF Next

LEMMA SetsKept ==
  ASSUME SetsFit, Ceiling, GateInv, AccessAssumption, [Next]_vars
  PROVE  SetsFit'
<1> USE DEF SetsFit
<1>1. CASE Caching
  BY <1>1 DEF Caching, StartFill, StoreFill, Expire, Drop, LoseRedis, RestoreRedis, gate, roleRows
<1>2. CASE Administration
  <2>1. CASE Done
    BY <2>1 DEF Done, reads, gate
  <2>2. CASE CommitDelete
    BY <2>2 DEF CommitDelete, Deleted, reads, gate, roleRows
  <2>3. CASE CommitAssign
    <3>1. session.user \in Users
      BY <2>3 DEF CommitAssign, Ceiling, SessionInv, AssignInv, IsAssignment
    <3> QED BY <2>3, <3>1 DEF CommitAssign, gate
  <2>4. CASE ~(Done \/ CommitDelete \/ CommitAssign)
    BY <1>2, <2>4 DEF Administration, CreateStart, EditStart, DeleteRole, Assign, Toggle,
      CreateName, LeaveDialog, reads, roleRows, gate
  <2> QED BY <2>1, <2>2, <2>3, <2>4
<1>3. CASE Panel
  <2>1. ASSUME NEW r \in Roles, WebDeleteRole(r) PROVE SetsFit'
    BY <2>1 DEF WebDeleteRole, Deleted, reads, gate
  <2>2. ASSUME NEW r \in Roles, NEW to \in PanelPerms, WebRole(r, to) PROVE SetsFit'
    BY <2>2 DEF WebRole, reads, gate, AccessAssumption
  <2>3. ASSUME NEW u \in Users, NEW r \in Roles, NEW block \in BOOLEAN, WebUser(u, r, block)
        PROVE  SetsFit'
    <3>1. perms[r] \subseteq Perms
      BY <2>3 DEF WebUser, Ceiling, Shape, Entry
    <3> QED BY <2>3, <3>1 DEF WebUser, Lift, reads
  <2> QED BY <1>3, <2>1, <2>2, <2>3 DEF Panel
<1>4. CASE Blocking
  BY <1>4 DEF Blocking, BlockUser, UnblockUser, Lift, Arrive, Authenticate, Remember, roleRows,
    reads, GateInv
<1>5. CASE Restart
  BY <1>5 DEF Restart, roleRows
<1>6. CASE UNCHANGED vars
  BY <1>6 DEF vars, roleRows, reads, gate
<1> QED BY <1>1, <1>2, <1>3, <1>4, <1>5, <1>6 DEF Next

LEMMA SessionTyped ==
  ASSUME SessionFits, Ceiling, AccessAssumption, [Next]_vars
  PROVE  SessionFits'
<1>1. ASSUME session' \in {session, Nothing} PROVE SessionFits'
  BY <1>1 DEF SessionFits
<1>2. Readers \subseteq Users
  BY DEF AccessAssumption
<1>3. ASSUME NEW a \in Readers, CreateStart(a) PROVE SessionFits'
  BY <1>2, <1>3 DEF CreateStart, SessionFits
<1>4. ASSUME NEW a \in Readers, NEW r \in Roles, EditStart(a, r) PROVE SessionFits'
  <2>1. perms[r] \in SUBSET Perms
    BY <1>4 DEF EditStart, Grantable, Ceiling, Shape, Entry
  <2>2. session' = [role |-> r, perms |-> perms[r], caller |-> Seen(a)]
    BY <1>4 DEF EditStart
  <2>3. session' \in [role : Roles \union {Nothing}, perms : SUBSET Perms, caller : SUBSET Perms]
    BY <1>2, <2>1, <2>2, SeenFits
  <2> QED BY <2>3 DEF SessionFits
<1>5. ASSUME NEW a \in Readers, NEW r \in Roles, DeleteRole(a, r) PROVE SessionFits'
  BY <1>5 DEF DeleteRole, SessionFits
<1>6. ASSUME NEW a \in Readers, NEW u \in Users, NEW r \in Roles, Assign(a, u, r)
      PROVE  SessionFits'
  BY <1>6 DEF Assign, SessionFits
<1>7. ASSUME NEW p \in Perms, Toggle(p) PROVE SessionFits'
  <2>1. IsDialog /\ session' = [session EXCEPT !.perms = (session.perms \ {p}) \union ({p} \ session.perms)]
    BY <1>7 DEF Toggle
  <2>2. DOMAIN session = {"role", "perms", "caller"}
    BY <2>1 DEF Ceiling, SessionInv, DialogInv
  <2>3. session \in [role : Roles \union {Nothing}, perms : SUBSET Perms, caller : SUBSET Perms]
    BY <2>1, <2>2 DEF SessionFits, IsDialog
  <2>4. session' \in [role : Roles \union {Nothing}, perms : SUBSET Perms, caller : SUBSET Perms]
    BY <2>1, <2>3
  <2> QED BY <2>4 DEF SessionFits
<1>8. CASE CreateName
  <2>1. session.naming \in Users
    BY <1>8 DEF CreateName, Ceiling, SessionInv, NamingInv
  <2>2. session' = [role |-> Nothing, perms |-> {}, caller |-> Seen(session.naming)]
    BY <1>8 DEF CreateName
  <2>3. session' \in [role : Roles \union {Nothing}, perms : SUBSET Perms, caller : SUBSET Perms]
    BY <2>1, <2>2, SeenFits
  <2> QED BY <2>3 DEF SessionFits
<1>9. CASE Done \/ LeaveDialog \/ CommitAssign \/ CommitDelete
  BY <1>1, <1>9 DEF Done, LeaveDialog, CommitAssign, CommitDelete
<1>10. CASE Caching \/ Panel \/ Blocking
  BY <1>1, <1>10 DEF Caching, StartFill, StoreFill, Expire, Drop, LoseRedis, RestoreRedis,
    Panel, WebDeleteRole, WebRole, WebUser,
    Blocking, BlockUser, UnblockUser, Arrive, Authenticate, Remember
<1>11. CASE Restart
  BY <1>1, <1>11 DEF Restart
<1>12. CASE UNCHANGED vars
  BY <1>1, <1>12 DEF vars
<1> QED BY <1>3, <1>4, <1>5, <1>6, <1>7, <1>8, <1>9, <1>10, <1>11, <1>12 DEF Next, Administration

\* The rows, both caches, the reads and drops under way, the middleware's memory
\* and the dialogs keep their types, whichever handlers interleave
\* (handlers/admin/role_management_states.py, middleware/security.py).
THEOREM AccessTypeCorrect == Spec => []TypeOK
<1> DEFINE Typed == Ceiling /\ GateInv /\ SetsFit /\ CountersFit /\ SessionFits
<1>1. Init => Typed
  <2> SUFFICES ASSUME Init PROVE Typed
    OBVIOUS
  <2>1. Ceiling
    BY StartsBelow, AccessAssumption
  <2>2. GateInv /\ SessionFits
    BY DEF Init, GateInv, SessionFits
  <2>3. MaxEdits \in Nat /\ MaxOutages \in Nat
    BY AccessAssumption DEF AccessAssumption
  <2>4. CountersFit
    BY <2>3 DEF Init, CountersFit
  <2>5. SetsFit
    <3>1. \A u \in Users : FirstPerms[FirstRole[u]] \subseteq Perms
      BY AccessAssumption DEF AccessAssumption
    <3> QED BY <3>1 DEF Init, SetsFit
  <2> QED BY <2>1, <2>2, <2>4, <2>5
<1>2. Typed /\ [Next]_vars => Typed'
  BY StepsBelow, GateKept, SetsKept, CountersKept, SessionTyped, AccessAssumption
    DEF AccessAssumption
<1>3. Typed => TypeOK
  BY DEF Ceiling, Shape, GateInv, SetsFit, CountersFit, SessionFits, TypeOK
<1> QED BY <1>1, <1>2, <1>3, PTL DEF Spec

-------------------------------------------------------------------------------
(* The catalogue: rows and references *)

\* The tables, for the steps that change them.
Tables ==
  /\ rows \in [Ids -> Row \union {None}] /\ product \in [Items -> Goods \union {None}]
  /\ stock \subseteq Unit /\ References
  /\ reviews \in [Items -> Review \union {None}]

\* The dialog of a review, and the Submit under way.
Talking ==
  /\ talk \in Talk /\ Known(talk)
  /\ sending \in Talk \union {None}
  /\ sending # None => sending.state = "confirm" /\ Known(sending)
  /\ shown \in [item : Items, rating : Ratings, text : Texts] \union {None}

Asking ==
  /\ dialog \in Dialog /\ job \in (SUBSET Values) \union {None}
  /\ dialog.step \in {"category", "kind", "add values", "add one"} => dialog.name \in Names

\* The requests and the files.
Panelling ==
  /\ files \subseteq Files /\ fresh \subseteq Ids \union Files /\ saves \subseteq Save

LEMMA TypeParts ==
  CatalogueTypeOK <=> Tables /\ Talking /\ Asking /\ Panelling /\ begun \in 0..MaxBegun
BY DEF CatalogueTypeOK, ReviewsTypeOK, Tables, Talking, Asking, Panelling

LEMMA RowThere ==
  ASSUME Tables, NEW x \in Ids, Exists(x)
  PROVE  rows[x] \in Row /\ rows[x] # None
BY DEF Tables, Exists

\* A row that the database accepts is put in its place.
LEMMA PutRow ==
  ASSUME Tables, NEW x \in Ids, NEW r \in Row, Accepted(x, r),
         rows' = [rows EXCEPT ![x] = r], UNCHANGED <<product, stock, reviews>>
  PROVE  Tables'
<1>1. rows'[x] = r /\ \A y \in Ids : y # x => rows'[y] = rows[y]
  BY DEF Tables
<1>2. r # None
  BY CatalogueAssumption
<1>3. \A y : y \in Ids /\ Exists(y) => Exists(y)'
  BY <1>1, <1>2 DEF Exists
<1>5. ASSUME NEW y \in Ids, Exists(y)' PROVE Accepted(y, rows[y])'
  <2>1. CASE y = x
    <3>1. Called(r.name, Alike(x))' \subseteq {x}
      BY <1>1, <1>2 DEF Called, Accepted, Alike, Ids
    <3>2. r.up # None => Exists(r.up)'
      BY <1>3 DEF Accepted, Row, Ids
    <3> QED
      BY <1>1, <2>1, <3>1, <3>2 DEF Accepted, Alike
  <2>2. CASE y # x
    <3>1. Exists(y) /\ rows'[y] = rows[y] /\ Accepted(y, rows[y]) /\ rows[y] \in Row
      BY <1>1, <1>5, <2>2, RowThere DEF Exists, Tables, References
    <3>2. Called(rows[y].name, Alike(y))' \subseteq {y}
      <4> SUFFICES ASSUME NEW z \in Alike(y), rows'[z] # None, rows'[z].name = rows[y].name
                   PROVE  z = y
        BY <3>1 DEF Called, Alike
      <4>1. CASE z = x
        <5>1. Alike(z) = Alike(y)
          BY CatalogueAssumption DEF Alike, Ids
        <5>2. y \in Called(r.name, Alike(x))
          BY <1>1, <3>1, <4>1, <5>1 DEF Called, Exists, Alike, Ids
        <5> QED
          BY <2>2, <5>2 DEF Accepted
      <4>2. CASE z # x
        <5>1. z \in Ids
          BY DEF Alike, Ids
        <5>2. z \in Called(rows[y].name, Alike(y))
          BY <1>1, <4>2, <5>1 DEF Called
        <5> QED
          BY <3>1, <5>2 DEF Accepted
      <4> QED
        BY <4>1, <4>2
    <3>3. rows[y].up # None => Exists(rows[y].up)'
      BY <1>3, <3>1 DEF Accepted, Row, Ids
    <3> QED
      BY <3>1, <3>2, <3>3 DEF Accepted, Alike
  <2> QED
    BY <2>1, <2>2
<1>6. rows' \in [Ids -> Row \union {None}]
  BY DEF Tables
<1>7. \A v \in stock : Exists(v.item)'
  BY <1>3 DEF Tables, References, Unit, Ids
<1>8. \A i \in Items : /\ product[i] # None => Exists(product[i])'
                       /\ reviews[i] # None => Exists(reviews[i].product)'
  BY <1>3 DEF Tables, References, Review, Ids
<1> QED
  BY <1>5, <1>6, <1>7, <1>8 DEF Tables, References

\* A row goes, and what it held with it.
LEMMA DropRow ==
  ASSUME Tables, NEW x \in Ids, Gone(x)
  PROVE  Tables' /\ UNCHANGED <<talk, sending, shown>>
         /\ \A y \in Ids : Exists(y)' => Exists(y) /\ y # x /\ rows'[y].image = rows[y].image
<1> DEFINE bare(y) == [rows[y] EXCEPT !.up = None]
<1>1. \A y \in Ids : Exists(y) => bare(y) \in Row /\ bare(y).up = None /\ bare(y).name = rows[y].name
                                  /\ bare(y).image = rows[y].image /\ bare(y) # None
  <2> SUFFICES ASSUME NEW y \in Ids, Exists(y)
               PROVE  bare(y) \in Row /\ bare(y).up = None /\ bare(y).name = rows[y].name
                      /\ bare(y).image = rows[y].image
    BY CatalogueAssumption
  <2>1. rows[y] \in Row
    BY RowThere
  <2> QED
    BY <2>1 DEF Row
<1>2. rows' = [y \in Ids |-> IF y = x THEN None
                             ELSE IF Exists(y) /\ rows[y].up = x THEN bare(y) ELSE rows[y]]
  BY DEF Gone
<1> HIDE DEF bare
<1>3. ASSUME NEW y \in Ids, Exists(y)'
      PROVE  /\ Exists(y) /\ y # x /\ rows'[y] \in Row /\ rows'[y].name = rows[y].name
             /\ rows'[y].up \in {None, rows[y].up} \ {x}
             /\ rows'[y].image = rows[y].image
  <2>1. y # x
    BY <1>2, <1>3 DEF Exists
  <2>2. rows'[y] = IF Exists(y) /\ rows[y].up = x THEN bare(y) ELSE rows[y]
    BY <1>2, <2>1
  <2>3. Exists(y)
    BY <1>3, <2>2 DEF Exists
  <2>4. x # None
    BY CatalogueAssumption, ReviewsAssumption DEF Ids
  <2> QED
    BY <1>1, <2>1, <2>2, <2>3, <2>4, RowThere
<1>4. \A y \in Ids : Exists(y) /\ y # x => Exists(y)'
  BY <1>1, <1>2 DEF Exists
<1>5. ASSUME NEW y \in Ids, Exists(y)' PROVE Accepted(y, rows[y])'
  <2>1. Accepted(y, rows[y]) /\ rows[y] \in Row
    BY <1>3, <1>5, RowThere DEF Tables, References
  <2>2. Called(rows[y].name, Alike(y))' \subseteq {y}
    <3> SUFFICES ASSUME NEW z \in Alike(y), rows'[z] # None, rows'[z].name = rows'[y].name
                 PROVE  z = y
      BY DEF Called, Alike
    <3>1. z \in Ids /\ Exists(z)'
      BY DEF Alike, Ids, Exists
    <3>2. z \in Called(rows[y].name, Alike(y))
      BY <1>3, <1>5, <3>1 DEF Called, Exists
    <3> QED
      BY <2>1, <3>2 DEF Accepted
  <2>3. rows'[y].up # None => Exists(rows[y].up)'
    BY <1>3, <1>4, <1>5, <2>1 DEF Accepted, Row, Ids
  <2> QED
    BY <2>2, <2>3 DEF Accepted, Alike
<1>6. rows' \in [Ids -> Row \union {None}]
  <2> SUFFICES ASSUME NEW y \in Ids PROVE rows'[y] \in Row \union {None}
    BY <1>2
  <2> QED
    BY <1>3 DEF Exists
<1>7. stock' \subseteq Unit /\ \A v \in stock' : Exists(v.item)'
  BY <1>4 DEF Gone, Tables, References, Unit, Ids
<1>8. /\ product' \in [Items -> Goods \union {None}]
      /\ \A i \in Items : product'[i] # None => Exists(product[i])'
  BY <1>4 DEF Gone, Tables, References, Ids
<1>9. /\ reviews' \in [Items -> Review \union {None}]
      /\ \A i \in Items : reviews'[i] # None => Exists(reviews[i].product)'
  BY <1>4 DEF Gone, Tables, References, Review, Ids
<1>10. UNCHANGED <<talk, sending, shown>>
  BY DEF Gone
<1> QED
  BY <1>3, <1>5, <1>6, <1>7, <1>8, <1>9, <1>10 DEF Tables, References

\* Nothing else of the tables refers to what is sold, written or moderated.
LEMMA KeepRows ==
  ASSUME Tables, UNCHANGED rows,
         product' \in [Items -> Goods \union {None}], stock' \subseteq Unit,
         reviews' \in [Items -> Review \union {None}],
         \A v \in stock' : Exists(v.item),
         \A i \in Items : /\ product'[i] # None => Exists(product'[i])
                          /\ reviews'[i] # None => Exists(reviews'[i].product)
  PROVE  Tables'
BY DEF Tables, References, Exists, Accepted, Called, Alike

-------------------------------------------------------------------------------
(* The catalogue: reviews *)

\* The preview on the screen is the review that the dialog holds.
TalkShown ==
  talk.state = "confirm" =>
    shown = [item |-> talk.item, rating |-> talk.rating, text |-> talk.text]

TalkInv == Talking /\ TalkShown /\ SubmittedAsShown

LEMMA TalkKept ==
  ASSUME TalkInv, UNCHANGED <<talk, shown>>, sending' \in {sending, None}
  PROVE  TalkInv'
BY DEF TalkInv, Talking, TalkShown, SubmittedAsShown, Known

\* A dialog that goes on, or ends, before its preview.
LEMMA TalkMoves ==
  ASSUME TalkInv, sending = None, UNCHANGED <<sending, shown>>,
         talk' \in Talk, Known(talk)', talk'.state # "confirm"
  PROVE  TalkInv'
BY DEF TalkInv, Talking, TalkShown, SubmittedAsShown

LEMMA Previewed ==
  ASSUME TalkInv, sending = None, NEW data \in Talk, Preview(data),
         data.item \in Items, data.product \in Goods, data.rating \in Ratings, data.text \in Texts
  PROVE  TalkInv'
<1>1. /\ talk' = [data EXCEPT !.state = "confirm"] /\ sending' = None
      /\ shown' = [item |-> data.item, rating |-> data.rating, text |-> data.text]
  BY DEF Preview
<1>2. /\ talk' \in Talk /\ talk'.state = "confirm" /\ talk'.item = data.item
      /\ talk'.product = data.product /\ talk'.rating = data.rating /\ talk'.text = data.text
  BY <1>1 DEF Talk
<1>3. shown' \in [item : Items, rating : Ratings, text : Texts]
  BY <1>1
<1> QED
  BY <1>1, <1>2, <1>3 DEF TalkInv, Talking, Known, TalkShown, SubmittedAsShown

LEMMA NoTalkFits == NoTalk \in Talk /\ NoTalk.state = "none"
BY DEF NoTalk, Talk

LEMMA ReviewStep ==
  ASSUME Tables, TalkInv, UNCHANGED <<rows, product, stock>>,
         \/ Reviewing
         \/ \E i \in Items, origin \in {"p", "o"} : StartReview(i, origin)
         \/ \E i \in Items : DeleteReview(i)
  PROVE  Tables' /\ TalkInv'
<1>1. talk \in Talk /\ Known(talk) /\ sending \in Talk \union {None}
  BY DEF TalkInv, Talking
<1>2. ASSUME UNCHANGED reviews PROVE Tables'
  BY <1>2, KeepRows DEF Tables, References
<1>3. ASSUME NEW i \in Items, NEW origin \in {"p", "o"}, StartReview(i, origin)
      PROVE  Tables' /\ TalkInv'
  <2>1. /\ sending = None /\ product[i] \in Goods /\ UNCHANGED <<reviews, sending, shown>>
        /\ talk' = [talk EXCEPT !.item = i, !.product = product[i], !.origin = origin,
                                !.state = "rating"]
    BY <1>3 DEF StartReview, Eligible, Begun, Tables
  <2>2. talk' \in Talk /\ talk'.state = "rating" /\ talk'.item = i /\ talk'.product = product[i]
    BY <1>1, <2>1 DEF Talk
  <2>3. Known(talk)'
    BY <2>1, <2>2 DEF Known
  <2> QED
    BY <1>2, <2>1, <2>2, <2>3, TalkMoves
<1>4. ASSUME NEW r \in Ratings, Rate(r) PROVE Tables' /\ TalkInv'
  <2> DEFINE data == [talk EXCEPT !.rating = r]
  <2>1. sending = None /\ talk.state \in {"rating", "confirm"}
    BY <1>4 DEF Rate, Awaits
  <2>2. /\ data \in Talk /\ data.item = talk.item /\ data.product = talk.product
        /\ data.rating = r /\ data.text = talk.text
    BY <1>1 DEF Talk
  <2>3. CASE talk.state = "confirm"
    <3>1. Preview(data)
      BY <1>4, <2>3 DEF Rate
    <3>2. UNCHANGED reviews
      BY <3>1 DEF Preview
    <3>3. talk.item \in Items /\ talk.product \in Goods /\ talk.text \in Texts
      BY <1>1, <2>3 DEF Known
    <3> HIDE DEF data
    <3> QED
      BY <1>2, <2>1, <2>2, <3>1, <3>2, <3>3, Previewed
  <2>4. CASE talk.state = "rating"
    <3>1. /\ talk' = [talk EXCEPT !.rating = r, !.state = "text"]
          /\ UNCHANGED <<reviews, sending, shown>>
      BY <1>4, <2>4 DEF Rate
    <3>2. /\ talk' \in Talk /\ talk'.state = "text" /\ talk'.rating = r
          /\ talk'.item = talk.item /\ talk'.product = talk.product
      BY <1>1, <3>1 DEF Talk
    <3>3. Known(talk)'
      BY <1>1, <2>4, <3>2 DEF Known
    <3> QED
      BY <1>2, <2>1, <3>1, <3>2, <3>3, TalkMoves
  <2> QED
    BY <2>1, <2>3, <2>4
<1>5. ASSUME NEW t \in Texts, Comment(t) PROVE Tables' /\ TalkInv'
  <2> DEFINE data == [talk EXCEPT !.text = t]
  <2>1. sending = None /\ talk.state = "text" /\ Preview(data)
    BY <1>5 DEF Comment, Awaits
  <2>2. /\ data \in Talk /\ data.item = talk.item /\ data.product = talk.product
        /\ data.rating = talk.rating /\ data.text = t
    BY <1>1 DEF Talk
  <2>3. talk.item \in Items /\ talk.product \in Goods /\ talk.rating \in Ratings
    BY <1>1, <2>1 DEF Known
  <2>4. UNCHANGED reviews
    BY <2>1 DEF Preview
  <2> HIDE DEF data
  <2> QED
    BY <1>2, <2>1, <2>2, <2>3, <2>4, Previewed
<1>6. CASE EditText
  <2>1. /\ sending = None /\ talk.state = "confirm" /\ talk' = [talk EXCEPT !.state = "text"]
        /\ UNCHANGED <<reviews, sending, shown>>
    BY <1>6 DEF EditText, Awaits
  <2>2. /\ talk' \in Talk /\ talk'.state = "text" /\ talk'.rating = talk.rating
        /\ talk'.item = talk.item /\ talk'.product = talk.product
    BY <1>1, <2>1 DEF Talk
  <2>3. Known(talk)'
    BY <1>1, <2>1, <2>2 DEF Known
  <2> QED
    BY <1>2, <2>1, <2>2, <2>3, TalkMoves
<1>7. CASE Submit
  <2>1. /\ sending = None /\ talk.state = "confirm" /\ sending' = talk
        /\ UNCHANGED <<reviews, talk, shown>>
    BY <1>7 DEF Submit, Awaits
  <2>2. TalkInv'
    BY <2>1 DEF TalkInv, Talking, TalkShown, SubmittedAsShown, Known
  <2> QED
    BY <1>2, <2>1, <2>2
<1>8. ASSUME sending' = None, UNCHANGED shown, talk' \in {talk, NoTalk} PROVE TalkInv'
  <2>1. CASE talk' = talk
    BY <1>8, <2>1, TalkKept
  <2>2. CASE talk' = NoTalk
    BY <1>8, <2>2, NoTalkFits DEF TalkInv, Talking, TalkShown, SubmittedAsShown, Known
  <2> QED
    BY <1>8, <2>1, <2>2
<1>9. CASE Store
  <2>1. /\ sending # None /\ sending' = None /\ UNCHANGED shown
        /\ talk' \in {talk, NoTalk}
    BY <1>9 DEF Store, Left
  <2>2. Tables'
    <3>1. CASE rows[sending.product] = None
      BY <1>2, <1>9, <3>1 DEF Store
    <3>2. CASE rows[sending.product] # None
      <4> DEFINE r == [product |-> sending.product, rating |-> sending.rating,
                       text |-> sending.text, listed |-> FALSE]
      <4>1. reviews' = [reviews EXCEPT ![sending.item] = r]
        BY <1>9, <3>2 DEF Store
      <4>2. /\ sending.item \in Items /\ sending.product \in Goods
            /\ sending.rating \in Ratings /\ sending.text \in Texts
        BY <2>1 DEF TalkInv, Talking, Known
      <4>3. r \in Review /\ r.product = sending.product
        BY <4>2 DEF Review
      <4> HIDE DEF r
      <4>4. reviews' \in [Items -> Review \union {None}]
        BY <4>1, <4>3 DEF Tables
      <4>5. \A i \in Items : reviews'[i] # None => Exists(reviews'[i].product)
        BY <3>2, <4>1, <4>3 DEF Tables, References, Exists
      <4> QED
        BY <4>4, <4>5, KeepRows DEF Tables, References
    <3> QED
      BY <3>1, <3>2
  <2> QED
    BY <1>8, <2>1, <2>2
<1>10. CASE CancelReview
  <2>1. /\ sending = None /\ talk' \in {talk, NoTalk} /\ UNCHANGED <<reviews, sending, shown>>
    BY <1>10 DEF CancelReview, Awaits, Left
  <2> QED
    BY <1>2, <1>8, <2>1
<1>11. CASE Elsewhere
  <2>1. /\ sending = None /\ UNCHANGED <<reviews, sending, shown>>
        /\ talk' \in {NoTalk, [talk EXCEPT !.state = "none"]}
    BY <1>11 DEF Elsewhere
  <2>2. talk' \in Talk /\ talk'.state = "none"
    <3>1. [talk EXCEPT !.state = "none"] \in Talk
          /\ [talk EXCEPT !.state = "none"].state = "none"
      BY <1>1 DEF Talk
    <3> QED
      BY <2>1, <3>1, NoTalkFits
  <2>3. Known(talk)'
    BY <2>2 DEF Known
  <2> QED
    BY <1>2, <2>1, <2>2, <2>3, TalkMoves
<1>12. ASSUME NEW i \in Items, Moderate(i) \/ DeleteReview(i) PROVE Tables' /\ TalkInv'
  <2>1. UNCHANGED <<talk, sending, shown>> /\ reviews[i] \in Review
    BY <1>12 DEF Moderate, DeleteReview, Tables
  <2>2. CASE Moderate(i)
    <3> DEFINE r == [reviews[i] EXCEPT !.listed = ~reviews[i].listed]
    <3>1. reviews' = [reviews EXCEPT ![i] = r] /\ reviews[i] # None
      BY <2>2 DEF Moderate
    <3>2. r \in Review /\ r.product = reviews[i].product
      BY <2>1 DEF Review
    <3> HIDE DEF r
    <3>3. reviews' \in [Items -> Review \union {None}]
      BY <3>1, <3>2 DEF Tables
    <3>4. \A j \in Items : reviews'[j] # None => Exists(reviews'[j].product)
      BY <3>1, <3>2 DEF Tables, References
    <3> QED
      BY <2>1, <3>3, <3>4, KeepRows, TalkKept DEF Tables, References
  <2>3. CASE DeleteReview(i)
    <3>1. reviews' = [reviews EXCEPT ![i] = None]
      BY <2>3 DEF DeleteReview
    <3>2. reviews' \in [Items -> Review \union {None}]
      BY <3>1 DEF Tables
    <3>3. \A j \in Items : reviews'[j] # None => Exists(reviews'[j].product)
      BY <3>1 DEF Tables, References
    <3> QED
      BY <2>1, <3>2, <3>3, KeepRows, TalkKept DEF Tables, References
  <2> QED
    BY <1>12, <2>2, <2>3
<1> QED
  BY <1>3, <1>4, <1>5, <1>6, <1>7, <1>9, <1>10, <1>11, <1>12 DEF Reviewing

-------------------------------------------------------------------------------
(* The catalogue: the dialogs of an administrator *)

\* No row names an image that it did not name before.
Fewer ==
  \A x \in Ids : Exists(x)' /\ rows'[x].image # None =>
    Exists(x) /\ rows'[x].image = rows[x].image

LEMMA StockAdded ==
  ASSUME Tables, NEW g \in Goods, Exists(g), NEW v \in Values, NEW infinite \in BOOLEAN,
         Insert(g, v, infinite), UNCHANGED <<rows, product, reviews>>
  PROVE  Tables'
<1> DEFINE unit == [item |-> g, value |-> v, infinite |-> infinite]
<1>1. unit \in Unit /\ unit.item = g
  BY DEF Unit
<1>2. stock' = stock \/ stock' = stock \union {unit}
  BY DEF Insert
<1> HIDE DEF unit
<1>3. stock' \subseteq Unit /\ \A w \in stock' : Exists(w.item)
  BY <1>1, <1>2 DEF Tables, References
<1> QED
  BY <1>3, KeepRows DEF Tables, References

LEMMA StockDropped ==
  ASSUME Tables, stock' \subseteq stock, UNCHANGED <<rows, product, reviews>>
  PROVE  Tables'
BY KeepRows DEF Tables, References

\* A row that was never there has no image yet.
LEMMA NewRow ==
  ASSUME Tables, NEW x \in Ids, NEW n \in Names, NEW up \in Cats \union {None},
         Called(n, Alike(x)) = {}, up # None => Exists(up), UNCHANGED <<product, stock, reviews>>,
         rows' = [rows EXCEPT ![x] = [name |-> n, up |-> up, image |-> None]]
  PROVE  Tables' /\ Fewer
<1> DEFINE r == [name |-> n, up |-> up, image |-> None]
<1>1. r \in Row /\ r.name = n /\ r.up = up /\ r.image = None
  BY DEF Row
<1>2. rows' = [rows EXCEPT ![x] = r]
  OBVIOUS
<1> HIDE DEF r
<1>3. Accepted(x, r)
  BY <1>1 DEF Accepted
<1>4. Fewer
  BY <1>1, <1>2 DEF Fewer, Exists, Tables
<1> QED
  BY <1>1, <1>2, <1>3, <1>4, PutRow

LEMMA NoDialogFits == NoDialog \in Dialog /\ NoDialog.step = "none"
BY DEF NoDialog, Dialog

\* The first transaction of the handlers that create a product.
LEMMA CreateStep ==
  ASSUME Tables, Asking, UNCHANGED <<product, reviews>>, Create,
         dialog.step \in {"add values", "add one"}
  PROVE  Tables' /\ fresh' \subseteq fresh /\ Fewer
<1>1. CASE UNCHANGED <<rows, stock, fresh>>
  BY <1>1, StockDropped DEF Fewer, Exists
<1>2. ASSUME NEW g \in fresh \intersect Goods, NEW up \in Called(dialog.cat, Cats),
             Called(dialog.name, Goods) = {},
             fresh' = fresh \ {g}, UNCHANGED stock,
             rows' = [rows EXCEPT ![g] = [name |-> dialog.name, up |-> up, image |-> None]]
      PROVE  Tables' /\ fresh' \subseteq fresh /\ Fewer
  <2>1. up \in Cats /\ Exists(up) /\ dialog.name \in Names /\ g \in Ids
    BY DEF Called, Asking, Exists, Ids
  <2>2. Called(dialog.name, Alike(g)) = {}
    BY <1>2 DEF Alike
  <2> QED
    BY <1>2, <2>1, <2>2, NewRow
<1> QED
  BY <1>1, <1>2, Zenon DEF Create

LEMMA PurgeStep ==
  ASSUME Tables, UNCHANGED <<product, reviews>>, Purge
  PROVE  Tables' /\ fresh' \subseteq fresh /\ Fewer
<1>1. stock' \subseteq stock /\ UNCHANGED <<rows, fresh>>
  BY DEF Purge
<1> QED
  BY <1>1, StockDropped DEF Fewer, Exists

\* The steps of a dialog before its end.
LEMMA DialogMoves ==
  ASSUME Asking, UNCHANGED job,
         \/ Menu
         \/ \E step \in Openings : Open(step)
         \/ \E n \in Names : NameToAdd(n) \/ NameToRefill(n) \/ NameToUpdate(n) \/ PickCategory(n)
                             \/ NameToRename(n)
         \/ \E yes \in BOOLEAN : Kind(yes) \/ Switch(yes)
         \/ \E v \in Values : TypeValue(v)
  PROVE  Asking' /\ UNCHANGED <<shelf, aside>>
<1> USE DEF Asking
<1>1. ASSUME dialog' = NoDialog PROVE Asking'
  BY <1>1, NoDialogFits
<1>2. CASE Menu
  BY <1>1, <1>2 DEF Menu
<1>3. ASSUME NEW step \in Openings, Open(step) PROVE Asking' /\ UNCHANGED <<shelf, aside>>
  <2>1. dialog' = [dialog EXCEPT !.step = step] /\ UNCHANGED <<shelf, aside>>
    BY <1>3 DEF Open
  <2>2. dialog' \in Dialog /\ dialog'.step \in Openings
    BY <2>1 DEF Dialog
  <2> QED
    BY <2>1, <2>2 DEF Openings
<1>4. ASSUME NEW n \in Names, NEW step \in {"category", "refill values", "new name"}, Goto(step, n)
      PROVE  Asking'
  <2>1. dialog' = [dialog EXCEPT !.step = step, !.name = n]
    BY <1>4 DEF Goto
  <2>2. dialog' \in Dialog /\ dialog'.name = n
    BY <2>1 DEF Dialog, Collecting
  <2> QED
    BY <2>2
<1>5. ASSUME NEW n \in Names, NameToAdd(n) \/ NameToRefill(n) \/ NameToRename(n)
      PROVE  Asking' /\ UNCHANGED <<shelf, aside>>
  BY <1>4, <1>5 DEF NameToAdd, NameToRefill, NameToRename
<1>6. ASSUME NEW n \in Names, NameToUpdate(n) PROVE Asking' /\ UNCHANGED <<shelf, aside>>
  <2>1. UNCHANGED <<shelf, aside>>
        /\ \E yes \in BOOLEAN : dialog' = [dialog EXCEPT !.step = "switch", !.name = n, !.infinite = yes]
    BY <1>6 DEF NameToUpdate
  <2>2. dialog' \in Dialog /\ dialog'.name = n
    BY <2>1 DEF Dialog
  <2> QED
    BY <2>1, <2>2
<1>7. ASSUME NEW n \in Names, PickCategory(n) PROVE Asking' /\ UNCHANGED <<shelf, aside>>
  <2>1. dialog' = [dialog EXCEPT !.step = "kind", !.cat = n] /\ UNCHANGED <<shelf, aside>>
        /\ dialog.step = "category"
    BY <1>7 DEF PickCategory, Asked
  <2>2. dialog' \in Dialog /\ dialog'.name = dialog.name
    BY <2>1 DEF Dialog
  <2> QED
    BY <2>1, <2>2
<1>8. ASSUME NEW yes \in BOOLEAN, Kind(yes) PROVE Asking' /\ UNCHANGED <<shelf, aside>>
  <2>1. /\ dialog.step = "kind" /\ UNCHANGED <<shelf, aside>>
        /\ \E step \in {"add one", "add values"} :
             dialog' = [dialog EXCEPT !.infinite = yes, !.step = step]
    BY <1>8 DEF Kind, Asked
  <2>2. dialog' \in Dialog /\ dialog'.name = dialog.name
    BY <2>1 DEF Dialog, Collecting
  <2> QED
    BY <2>1, <2>2
<1>9. ASSUME NEW yes \in BOOLEAN, Switch(yes) PROVE Asking' /\ UNCHANGED <<shelf, aside>>
  <2>1. UNCHANGED <<shelf, aside>>
        /\ \/ dialog' = NoDialog
           \/ \E step \in {"switch one", "switch values"} : dialog' = [dialog EXCEPT !.step = step]
    BY <1>9 DEF Switch
  <2>2. CASE \E step \in {"switch one", "switch values"} : dialog' = [dialog EXCEPT !.step = step]
    <3>1. dialog' \in Dialog /\ dialog'.step \in {"switch one", "switch values"}
      BY <2>2 DEF Dialog, Collecting
    <3> QED
      BY <2>1, <3>1
  <2> QED
    BY <1>1, <2>1, <2>2
<1>10. ASSUME NEW v \in Values, TypeValue(v) PROVE Asking' /\ UNCHANGED <<shelf, aside>>
  <2>1. dialog' = [dialog EXCEPT !.values = dialog.values \union {v}] /\ UNCHANGED <<shelf, aside>>
    BY <1>10 DEF TypeValue
  <2>2. dialog' \in Dialog /\ dialog'.step = dialog.step /\ dialog'.name = dialog.name
    BY <2>1 DEF Dialog
  <2> QED
    BY <2>1, <2>2
<1> QED
  BY <1>2, <1>3, <1>5, <1>6, <1>7, <1>8, <1>9, <1>10 DEF Menu

\* Whatever the bot does, no request of the panel and no file is touched.
LEMMA BotStep ==
  ASSUME Tables, Asking, begun \in 0..MaxBegun, Bot
  PROVE  /\ Tables' /\ Asking' /\ begun' \in 0..MaxBegun
         /\ UNCHANGED <<files, saves, talk, sending, shown>>
         /\ fresh' \subseteq fresh /\ Fewer
<1> DEFINE Goal == /\ Tables' /\ Asking' /\ begun' \in 0..MaxBegun
                   /\ UNCHANGED <<files, saves, talk, sending, shown>>
                   /\ fresh' \subseteq fresh /\ Fewer
<1> SUFFICES Goal
  OBVIOUS
<1>1. ASSUME UNCHANGED <<shelf, aside>>, begun' \in {begun} \/ Begin, Asking' PROVE Goal
  <2>1. begun' \in 0..MaxBegun
    BY <1>1, CatalogueAssumption DEF Begin
  <2>2. Tables'
    BY <1>1, StockDropped DEF shelf, aside, reviewVars
  <2> QED
    BY <1>1, <2>1, <2>2 DEF shelf, aside, reviewVars, disk, Fewer, Exists
<1>2. ASSUME \/ Menu
             \/ \E step \in Openings : Open(step)
             \/ \E n \in Names : NameToAdd(n) \/ NameToRefill(n) \/ NameToUpdate(n) \/ PickCategory(n)
                                 \/ NameToRename(n)
             \/ \E yes \in BOOLEAN : Kind(yes) \/ Switch(yes)
             \/ \E v \in Values : TypeValue(v)
      PROVE  Goal
  <2>1. UNCHANGED job /\ (begun' = begun \/ Begin)
    BY <1>2 DEF Menu, Open, NameToAdd, NameToRefill, NameToUpdate, PickCategory, NameToRename,
      Kind, Switch, TypeValue
  <2> QED
    BY <1>1, <1>2, <2>1, DialogMoves
<1>3. ASSUME dialog' = NoDialog, job' \in {job, None} PROVE Asking'
  BY <1>3, NoDialogFits DEF Asking
<1>4. ASSUME NEW x \in Ids, Gone(x), dialog' = NoDialog, UNCHANGED <<disk, saves, job, begun>>
      PROVE  Goal
  BY <1>3, <1>4, DropRow DEF disk, Fewer
<1>5. ASSUME NEW g \in Goods, DeleteProduct(g) PROVE Goal
  BY <1>4, <1>5 DEF DeleteProduct, Ids
<1>6. ASSUME NEW n \in Names, DeleteCategory(n) PROVE Goal
  BY <1>4, <1>6 DEF DeleteCategory, Called, Ids
<1>7. ASSUME NEW n \in Names, NewCategory(n) PROVE Goal
  <2>1. PICK c \in fresh \intersect Cats :
          /\ fresh' = fresh \ {c}
          /\ rows' = [rows EXCEPT ![c] = [name |-> n, up |-> None, image |-> None]]
    BY <1>7 DEF NewCategory
  <2>2. Called(n, Alike(c)) = {} /\ c \in Ids
    BY <1>7, CatalogueAssumption DEF NewCategory, Alike, Ids
  <2>3. /\ UNCHANGED <<product, stock, reviewVars, files, saves, job, begun>>
        /\ dialog' = NoDialog
    BY <1>7 DEF NewCategory
  <2>4. Tables' /\ Fewer
    BY <2>1, <2>2, <2>3, NewRow DEF reviewVars
  <2> QED
    BY <1>3, <2>1, <2>3, <2>4 DEF reviewVars
<1>8. ASSUME NEW n \in Names, RenameCategory(n) PROVE Goal
  <2>1. PICK c \in Called(dialog.name, Cats) : rows' = [rows EXCEPT ![c].name = n]
    BY <1>8 DEF RenameCategory
  <2>2. /\ UNCHANGED <<product, stock, aside, job, begun>> /\ dialog' = NoDialog
        /\ Called(n, Cats) = {}
    BY <1>8 DEF RenameCategory
  <2>3. c \in Ids /\ c \in Cats /\ Exists(c) /\ rows[c] \in Row /\ Accepted(c, rows[c])
    BY RowThere DEF Called, Exists, Ids, Tables, References
  <2> DEFINE r == [rows[c] EXCEPT !.name = n]
  <2>4. r \in Row /\ r.name = n /\ r.up = rows[c].up /\ r.image = rows[c].image
    BY <2>3 DEF Row
  <2>5. rows' = [rows EXCEPT ![c] = r]
    BY <2>1
  <2> HIDE DEF r
  <2>6. Accepted(c, r)
    BY <2>2, <2>3, <2>4, CatalogueAssumption DEF Accepted, Alike
  <2>7. Tables'
    BY <2>2, <2>3, <2>4, <2>5, <2>6, PutRow DEF aside, reviewVars
  <2>8. Fewer
    BY <2>3, <2>4, <2>5 DEF Fewer, Exists, Tables
  <2> QED
    BY <1>3, <2>2, <2>7, <2>8 DEF aside, disk, reviewVars
<1>9. ASSUME NEW values, values \subseteq Values, Carry(values),
             Tables', fresh' \subseteq fresh, Fewer
      PROVE  Goal
  BY <1>9 DEF Carry, Asking, reviewVars
<1>10. CASE FinishNew
  <2>1. Carry(dialog.values) /\ Create /\ dialog.step = "add values"
    BY <1>10 DEF FinishNew, Asked
  <2>2. dialog.values \subseteq Values
    BY DEF Asking, Dialog
  <2>3. Tables' /\ fresh' \subseteq fresh /\ Fewer
    BY <2>1, CreateStep DEF Carry, reviewVars
  <2> QED
    BY <1>9, <2>1, <2>2, <2>3
<1>11. ASSUME NEW v \in Values, FinishNewUnlimited(v) PROVE Goal
  <2>1. Carry({v}) /\ Create /\ dialog.step = "add one"
    BY <1>11 DEF FinishNewUnlimited, Asked
  <2>2. Tables' /\ fresh' \subseteq fresh /\ Fewer
    BY <2>1, CreateStep DEF Carry, reviewVars
  <2> QED
    BY <1>9, <2>1, <2>2
<1>12. CASE FinishRefill
  <2>1. Carry(dialog.values) /\ UNCHANGED <<rows, stock, fresh>>
    BY <1>12 DEF FinishRefill
  <2>2. dialog.values \subseteq Values
    BY DEF Asking, Dialog
  <2>3. Tables' /\ Fewer
    BY <2>1, StockDropped DEF Carry, reviewVars, Fewer, Exists
  <2> QED
    BY <1>9, <2>1, <2>2, <2>3
<1>13. CASE FinishSwitch \/ \E v \in Values : SwitchToUnlimited(v)
  <2>1. PICK values : values \subseteq Values /\ Carry(values) /\ Purge
    BY <1>13 DEF FinishSwitch, SwitchToUnlimited, Asking, Dialog
  <2>2. Tables' /\ fresh' \subseteq fresh /\ Fewer
    BY <2>1, PurgeStep DEF Carry, reviewVars
  <2> QED
    BY <1>9, <2>1, <2>2
<1>14. ASSUME NEW v \in Values, AddValue(v) PROVE Goal
  <2>1. /\ job # None /\ job' = job \ {v} /\ UNCHANGED <<rows, product, aside, dialog, begun>>
        /\ \/ UNCHANGED stock
           \/ \E g \in Called(dialog.name, Goods) : Insert(g, v, AsUnlimited)
    BY <1>14 DEF AddValue
  <2>2. Tables'
    <3>1. CASE UNCHANGED stock
      BY <2>1, <3>1, StockDropped DEF aside, reviewVars
    <3>2. ASSUME NEW g \in Called(dialog.name, Goods), Insert(g, v, AsUnlimited) PROVE Tables'
      <4>1. g \in Goods /\ Exists(g) /\ AsUnlimited \in BOOLEAN
        BY DEF Called, Exists, AsUnlimited
      <4> QED
        BY <2>1, <3>2, <4>1, StockAdded DEF aside, reviewVars
    <3> QED
      BY <2>1, <3>1, <3>2
  <2>3. Asking'
    BY <2>1 DEF Asking
  <2> QED
    BY <2>1, <2>2, <2>3 DEF aside, disk, reviewVars, Fewer, Exists
<1>15. CASE Close
  BY <1>1, <1>3, <1>15 DEF Close
<1> QED
  BY <1>2, <1>5, <1>6, <1>7, <1>8, <1>10, <1>11, <1>12, <1>13, <1>14, <1>15 DEF Bot

-------------------------------------------------------------------------------
(* The catalogue: the requests of the panel *)

\* What a request writes over the row as it is now.
LEMMA MergedRow ==
  ASSUME NEW s \in Save, s.want # None, NEW now, s.seen # None => now \in Row
  PROVE  /\ Merged(now, s) \in Row
         /\ Merged(now, s).image = IF s.seen # None /\ s.want.image = s.seen.image
                                   THEN now.image ELSE s.want.image
<1>1. s.want \in Row /\ (s.seen # None => s.seen \in Row)
  BY DEF Save
<1>2. CASE s.seen = None
  BY <1>1, <1>2 DEF Merged
<1>3. CASE s.seen # None
  <2>1. /\ now \in Row /\ s.seen \in Row /\ s.want \in Row
    BY <1>1, <1>3
  <2>2. DOMAIN now = {"name", "up", "image"}
    BY <2>1 DEF Row
  <2>3. Merged(now, s) = [c \in {"name", "up", "image"} |->
                            IF s.want[c] = s.seen[c] THEN now[c] ELSE s.want[c]]
    BY <1>3, <2>2 DEF Merged
  <2>4. Merged(now, s) = [name |-> IF s.want.name = s.seen.name THEN now.name ELSE s.want.name,
                          up |-> IF s.want.up = s.seen.up THEN now.up ELSE s.want.up,
                          image |-> IF s.want.image = s.seen.image THEN now.image ELSE s.want.image]
    BY <2>3
  <2> QED
    BY <1>3, <2>1, <2>4 DEF Row
<1> QED
  BY <1>2, <1>3

\* A request begins with the row it reads.
LEMMA SubmitStep ==
  ASSUME Tables, Panelling, begun \in 0..MaxBegun, NEW x \in Ids,
         \/ Delete(x)
         \/ \E want \in Row : Submitted(x, want)
  PROVE  Panelling' /\ begun' \in 0..MaxBegun /\ Tables'
         /\ UNCHANGED <<shelf, reviewVars, dialog, job>>
<1>1. UNCHANGED <<shelf, reviewVars, dialog, job>> /\ begun' \in 0..MaxBegun
  BY CatalogueAssumption DEF Delete, Submitted, Begin
<1>2. Tables'
  BY <1>1, StockDropped DEF shelf, reviewVars
<1>3. ASSUME NEW want \in Row \union {None}
      PROVE  [row |-> x, seen |-> rows[x], want |-> want, done |-> FALSE] \in Save
  <2>1. rows[x] \in Row \union {None}
    BY DEF Tables
  <2> QED
    BY <2>1 DEF Save
<1>4. CASE Delete(x)
  <2>1. UNCHANGED disk
        /\ saves' = saves \union {[row |-> x, seen |-> rows[x], want |-> None, done |-> FALSE]}
    BY <1>4 DEF Delete
  <2>2. Panelling'
    BY <1>3, <2>1 DEF Panelling, disk
  <2> QED
    BY <1>1, <1>2, <2>2
<1>5. ASSUME NEW want \in Row, Submitted(x, want) PROVE Panelling'
  <2>1. /\ files' = files \union ({want.image} \ {None, ImageOf(rows[x])})
        /\ fresh' = fresh \ {x, want.image}
        /\ saves' = saves \union {[row |-> x, seen |-> rows[x], want |-> want, done |-> FALSE]}
    BY <1>5 DEF Submitted, Written
  <2>2. want.image \in Files \union {None}
    BY DEF Row
  <2> QED
    BY <1>3, <2>1, <2>2 DEF Panelling
<1> QED
  BY <1>1, <1>2, <1>4, <1>5

LEMMA CommitStep ==
  ASSUME Tables, Panelling, NEW s \in saves, Commit(s)
  PROVE  /\ Tables' /\ Panelling' /\ UNCHANGED <<talk, sending, shown>>
         /\ \A y \in Ids : Exists(y)' /\ rows'[y].image # None =>
              \/ Exists(y) /\ rows'[y].image = rows[y].image
              \/ y = s.row /\ s.want # None /\ rows'[y].image = s.want.image
                 /\ rows'[y].image # ImageOf(s.seen)
         /\ ImageOf(s.seen) # None /\ ImageOf(s.seen) # ImageOf(s.want) /\ Exists(s.row)' =>
              rows'[s.row].image # ImageOf(s.seen)
<1>1. s \in Save /\ s.row \in Ids
  BY DEF Panelling, Save
<1>2. Panelling'
  <2>1. /\ saves' = (saves \ {s}) \union {[s EXCEPT !.done = TRUE]} /\ UNCHANGED disk
    BY DEF Commit
  <2>2. [s EXCEPT !.done = TRUE] \in Save
    BY <1>1 DEF Save
  <2> QED
    BY <2>1, <2>2 DEF Panelling, disk
<1>3. CASE s.want = None /\ Gone(s.row)
  BY <1>1, <1>2, <1>3, DropRow
<1>4. CASE s.want # None /\ (Inserted(s) \/ Updated(s))
           /\ rows' = [rows EXCEPT ![s.row] = Merged(rows[s.row], s)]
           /\ UNCHANGED <<product, stock, reviewVars>>
  <2> DEFINE m == Merged(rows[s.row], s)
  <2>1. s.want \in Row /\ (s.seen # None => s.seen \in Row /\ Exists(s.row) /\ rows[s.row] \in Row)
    BY <1>1, <1>4, RowThere DEF Save, Inserted, Updated
  <2>2. /\ m \in Row
        /\ m.image = IF s.seen # None /\ s.want.image = s.seen.image
                     THEN rows[s.row].image ELSE s.want.image
    BY <1>1, <1>4, <2>1, MergedRow
  <2>3. Accepted(s.row, m)
    BY <1>4 DEF Inserted, Updated, Merged
  <2>4. rows' = [rows EXCEPT ![s.row] = m]
    BY <1>4
  <2> HIDE DEF m
  <2>5. Tables' /\ UNCHANGED <<talk, sending, shown>>
    BY <1>1, <1>4, <2>2, <2>3, <2>4, PutRow DEF reviewVars
  <2>6. rows'[s.row] = m /\ \A y \in Ids : y # s.row => rows'[y] = rows[y]
    BY <1>1, <2>4 DEF Tables
  <2>7. /\ ImageOf(s.want) = s.want.image
        /\ ImageOf(s.seen) = IF s.seen = None THEN None ELSE s.seen.image
    BY <1>4 DEF ImageOf
  <2> QED
    BY <1>2, <1>4, <2>1, <2>2, <2>5, <2>6, <2>7 DEF Exists
<1> QED
  BY <1>3, <1>4 DEF Commit

LEMMA TidyStep ==
  ASSUME Tables, Panelling, NEW s \in saves, Fail(s) \/ Tidy(s)
  PROVE  Tables' /\ Panelling' /\ UNCHANGED <<shelf, reviewVars, dialog, job, begun, fresh>>
         /\ saves' = saves \ {s}
         /\ \/ files' = files
            \/ ~s.done /\ ImageOf(s.want) # ImageOf(s.seen) /\ files' = files \ {ImageOf(s.want)}
            \/ s.done /\ ImageOf(s.want) # ImageOf(s.seen) /\ files' = files \ {ImageOf(s.seen)}
<1>1. UNCHANGED <<shelf, reviewVars, dialog, job, begun, fresh>> /\ saves' = saves \ {s}
  BY DEF Fail, Tidy
<1>2. \/ ~s.done /\ files' = Orphaned(ImageOf(s.want), s)
      \/ s.done /\ files' = Orphaned(ImageOf(s.seen), s)
  BY DEF Fail, Tidy
<1>3. \/ files' = files
      \/ ~s.done /\ ImageOf(s.want) # ImageOf(s.seen) /\ files' = files \ {ImageOf(s.want)}
      \/ s.done /\ ImageOf(s.want) # ImageOf(s.seen) /\ files' = files \ {ImageOf(s.seen)}
  BY <1>2 DEF Orphaned
<1>4. Tables'
  BY <1>1, StockDropped DEF shelf, reviewVars
<1>5. files' \subseteq files /\ fresh' = fresh /\ saves' \subseteq saves
  BY <1>1, <1>3
<1> QED
  BY <1>1, <1>3, <1>4, <1>5 DEF Panelling

-------------------------------------------------------------------------------
(* The catalogue: images *)

\* The image a request brought, the one it leaves behind, the two it holds.
Brought(s) == ImageOf(s.want) # None /\ ImageOf(s.want) # ImageOf(s.seen)
Dropped(s) == ImageOf(s.seen) # None /\ ImageOf(s.seen) # ImageOf(s.want)
Images(s) == {ImageOf(s.seen), ImageOf(s.want)}

Unnamed(f) == \A x \in Ids : Exists(x) => rows[x].image # f

OneRowEach ==
  \A x, y \in Ids : Exists(x) /\ Exists(y) /\ rows[x].image # None /\ rows[x].image = rows[y].image =>
    x = y

\* A new name is nobody's.
FreshUnnamed == \A f \in fresh \intersect Files : Unnamed(f) /\ \A s \in saves : f \notin Images(s)

\* What a request saw is its own row's, if it is a row's at all.
SeenInPlace ==
  \A s \in saves, x \in Ids :
    ImageOf(s.seen) # None /\ Exists(x) /\ rows[x].image = ImageOf(s.seen) => x = s.row

\* Until its commit a request alone holds the image it brought; afterwards no
\* row names the one it leaves behind.
BroughtHeld ==
  \A s \in saves : ~s.done /\ Brought(s) =>
    /\ ImageOf(s.want) \in files /\ Unnamed(ImageOf(s.want))
    /\ \A t \in saves : t # s => ImageOf(s.want) \notin Images(t)
DroppedUnnamed == \A s \in saves : s.done /\ Dropped(s) => Unnamed(ImageOf(s.seen))

ImagesKept ==
  ImageThere /\ OneRowEach /\ FreshUnnamed /\ SeenInPlace /\ BroughtHeld /\ DroppedUnnamed

\* A step that brings no image to a row, and touches no file.
LEMMA ImagesLeft ==
  ASSUME ImagesKept, Files \intersect Ids = {}, None \notin Files, Fewer, UNCHANGED files,
         saves' \subseteq saves, fresh' \subseteq fresh
  PROVE  ImagesKept'
<1>1. \A f : f # None /\ Unnamed(f) => Unnamed(f)'
  BY DEF Unnamed, Fewer
<1>2. ImageThere' /\ OneRowEach' /\ SeenInPlace'
  BY DEF ImagesKept, ImageThere, OneRowEach, SeenInPlace, Fewer
<1>3. FreshUnnamed'
  BY <1>1 DEF ImagesKept, FreshUnnamed
<1>4. BroughtHeld' /\ DroppedUnnamed'
  BY <1>1 DEF ImagesKept, BroughtHeld, DroppedUnnamed, Brought, Dropped
<1> QED
  BY <1>2, <1>3, <1>4 DEF ImagesKept

\* A request begins: what it brings is new, and is written first.
LEMMA ImagesBrought ==
  ASSUME ImagesKept, Tables, None \notin Files, NEW x \in Ids, NEW want \in Row \union {None},
         NEW s, s.row = x, s.seen = rows[x], s.want = want, s.done = FALSE,
         saves' = saves \union {s}, UNCHANGED rows,
         files \subseteq files', fresh' \subseteq fresh, ImageOf(want) \notin fresh',
         ImageOf(want) \in {None, ImageOf(rows[x])} \union (fresh \intersect Files),
         Brought(s) => ImageOf(want) \in files'
  PROVE  ImagesKept'
<1>1. ImageOf(rows[x]) # None => Exists(x) /\ rows[x].image = ImageOf(rows[x])
  BY DEF ImageOf, Exists
<1>2. \A f : Unnamed(f)' <=> Unnamed(f)
  BY DEF Unnamed, Exists
<1>3. ImageThere' /\ OneRowEach'
  BY DEF ImagesKept, ImageThere, OneRowEach, Exists
<1>4. \A f : f # None /\ Unnamed(f) => f # ImageOf(rows[x])
  BY <1>1 DEF Unnamed
<1>5. FreshUnnamed'
  <2> SUFFICES ASSUME NEW f \in fresh' \intersect Files
               PROVE  Unnamed(f) /\ \A t \in saves' : f \notin Images(t)
    BY <1>2 DEF FreshUnnamed
  <2>1. Unnamed(f) /\ f # None /\ \A t \in saves : f \notin Images(t)
    BY DEF ImagesKept, FreshUnnamed
  <2>2. f \notin Images(s)
    BY <1>4, <2>1 DEF Images
  <2> QED
    BY <2>1, <2>2
<1>6. SeenInPlace'
  <2>1. ASSUME NEW y \in Ids, ImageOf(s.seen) # None, Exists(y), rows[y].image = ImageOf(s.seen)
        PROVE  y = x
    BY <1>1, <2>1 DEF ImagesKept, OneRowEach
  <2> QED
    BY <2>1 DEF ImagesKept, SeenInPlace, Exists
<1>7. ASSUME Brought(s)
      PROVE  ImageOf(want) \in fresh \intersect Files
  BY <1>7 DEF Brought
<1>8. BroughtHeld'
  <2>1. ASSUME Brought(s)
        PROVE  /\ ImageOf(want) \in files' /\ Unnamed(ImageOf(want))
               /\ \A t \in saves : ImageOf(want) \notin Images(t)
    BY <1>7, <2>1 DEF ImagesKept, FreshUnnamed
  <2>2. ASSUME NEW t \in saves, ~t.done, Brought(t)
        PROVE  /\ ImageOf(t.want) \in files' /\ Unnamed(ImageOf(t.want))
               /\ \A u \in saves : u # t => ImageOf(t.want) \notin Images(u)
               /\ ImageOf(t.want) \notin Images(s)
    <3>1. /\ ImageOf(t.want) \in files /\ Unnamed(ImageOf(t.want))
          /\ \A u \in saves : u # t => ImageOf(t.want) \notin Images(u)
          /\ ImageOf(t.want) # None
      BY <2>2 DEF ImagesKept, BroughtHeld, Brought
    <3>2. ImageOf(t.want) # ImageOf(rows[x])
      BY <1>4, <3>1
    <3>3. ImageOf(t.want) # ImageOf(want)
      <4>1. ImageOf(t.want) \in Images(t)
        BY DEF Images
      <4> QED
        BY <3>1, <3>2, <4>1 DEF ImagesKept, FreshUnnamed
    <3> QED
      BY <3>1, <3>2, <3>3 DEF Images
  <2> QED
    BY <1>2, <2>1, <2>2 DEF BroughtHeld
<1>9. DroppedUnnamed'
  BY <1>2 DEF ImagesKept, DroppedUnnamed
<1> QED
  BY <1>3, <1>5, <1>6, <1>8, <1>9 DEF ImagesKept

\* A commit: the row names what the request brought, or what it named before.
LEMMA ImagesCommitted ==
  ASSUME ImagesKept, None \notin Files, NEW s \in saves, ~s.done, s.row \in Ids,
         NEW d, Images(d) = Images(s), d.row = s.row, d.seen = s.seen, d.want = s.want, d.done,
         saves' = (saves \ {s}) \union {d}, UNCHANGED disk,
         \A y \in Ids : Exists(y)' /\ rows'[y].image # None =>
              \/ Exists(y) /\ rows'[y].image = rows[y].image
              \/ y = s.row /\ Brought(s) /\ rows'[y].image = ImageOf(s.want),
         Dropped(s) /\ Exists(s.row)' => rows'[s.row].image # ImageOf(s.seen)
  PROVE  ImagesKept'
<1> DEFINE b == ImageOf(s.want)
<1>1. ASSUME Brought(s)
      PROVE  /\ b \in files /\ Unnamed(b) /\ b # None /\ b \in Images(s)
             /\ \A t \in saves : t # s => b \notin Images(t)
  BY <1>1 DEF ImagesKept, BroughtHeld, Brought, Images
<1>2. \A y \in Ids : Exists(y)' /\ rows'[y].image # None =>
        \/ Exists(y) /\ rows'[y].image = rows[y].image
        \/ y = s.row /\ Brought(s) /\ rows'[y].image = b
  OBVIOUS
<1> HIDE DEF b
<1>3. ASSUME NEW f, f # None, Unnamed(f), Brought(s) => f # b PROVE Unnamed(f)'
  BY <1>2, <1>3 DEF Unnamed
<1>4. ImageThere'
  BY <1>1, <1>2 DEF ImagesKept, ImageThere, disk
<1>5. OneRowEach'
  BY <1>1, <1>2 DEF ImagesKept, OneRowEach, Unnamed
<1>6. FreshUnnamed'
  <2> SUFFICES ASSUME NEW f \in fresh \intersect Files
               PROVE  Unnamed(f)' /\ \A t \in saves' : f \notin Images(t)
    BY DEF FreshUnnamed, disk
  <2>1. Unnamed(f) /\ f # None /\ \A t \in saves : f \notin Images(t)
    BY DEF ImagesKept, FreshUnnamed
  <2> QED
    BY <1>1, <1>3, <2>1
<1>7. SeenInPlace'
  <2> SUFFICES ASSUME NEW t \in saves', NEW y \in Ids, ImageOf(t.seen) # None, Exists(y)',
                      rows'[y].image = ImageOf(t.seen)
               PROVE  y = t.row
    BY DEF SeenInPlace
  <2>1. CASE t = d
    BY <1>2, <2>1 DEF ImagesKept, SeenInPlace
  <2>2. CASE t \in saves /\ t # s
    <3>1. ImageOf(t.seen) \in Images(t)
      BY DEF Images
    <3> QED
      BY <1>1, <1>2, <2>2, <3>1 DEF ImagesKept, SeenInPlace
  <2> QED
    BY <2>1, <2>2
<1>8. BroughtHeld'
  <2> SUFFICES ASSUME NEW t \in saves, t # s, ~t.done, Brought(t)
               PROVE  /\ ImageOf(t.want) \in files /\ Unnamed(ImageOf(t.want))'
                      /\ \A u \in saves' : u # t => ImageOf(t.want) \notin Images(u)
    BY DEF BroughtHeld, disk
  <2>1. /\ ImageOf(t.want) \in files /\ Unnamed(ImageOf(t.want)) /\ ImageOf(t.want) # None
        /\ \A u \in saves : u # t => ImageOf(t.want) \notin Images(u)
        /\ ImageOf(t.want) \in Images(t)
    BY DEF ImagesKept, BroughtHeld, Brought, Images
  <2>2. Unnamed(ImageOf(t.want))'
    BY <1>1, <1>3, <2>1
  <2> QED
    BY <2>1, <2>2
<1>9. DroppedUnnamed'
  <2> SUFFICES ASSUME NEW t \in saves', t.done, Dropped(t) PROVE Unnamed(ImageOf(t.seen))'
    BY DEF DroppedUnnamed
  <2>1. ImageOf(t.seen) # None /\ ImageOf(t.seen) \in Images(t)
    BY DEF Dropped, Images
  <2>2. CASE t = d
    <3> SUFFICES ASSUME NEW y \in Ids, Exists(y)', rows'[y].image = ImageOf(s.seen) PROVE FALSE
      BY <2>2 DEF Unnamed
    <3>1. Dropped(s)
      BY <2>2 DEF Dropped
    <3>2. y = s.row
      BY <1>2, <2>1, <2>2 DEF ImagesKept, SeenInPlace
    <3> QED
      BY <3>1, <3>2
  <2>3. CASE t \in saves /\ t # s
    <3>1. Unnamed(ImageOf(t.seen))
      BY <2>3 DEF ImagesKept, DroppedUnnamed
    <3> QED
      BY <1>1, <1>3, <2>1, <2>3, <3>1
  <2> QED
    BY <2>2, <2>3
<1> QED
  BY <1>4, <1>5, <1>6, <1>7, <1>8, <1>9 DEF ImagesKept

\* A request ends: the file it removes is named nowhere.
LEMMA ImagesTidied ==
  ASSUME ImagesKept, NEW s \in saves, saves' = saves \ {s}, UNCHANGED <<rows, fresh>>,
         \/ files' = files
         \/ ~s.done /\ ImageOf(s.want) # ImageOf(s.seen) /\ files' = files \ {ImageOf(s.want)}
         \/ s.done /\ ImageOf(s.want) # ImageOf(s.seen) /\ files' = files \ {ImageOf(s.seen)},
         None \notin files
  PROVE  ImagesKept'
<1>1. \A f : Unnamed(f)' <=> Unnamed(f)
  BY DEF Unnamed, Exists
<1>2. OneRowEach' /\ FreshUnnamed' /\ SeenInPlace' /\ DroppedUnnamed'
  BY <1>1 DEF ImagesKept, OneRowEach, FreshUnnamed, SeenInPlace, DroppedUnnamed, Exists
<1>3. PICK f : /\ files' = files \ {f}
               /\ f # None => Unnamed(f)
               /\ \A t \in saves : t # s /\ ~t.done /\ Brought(t) => ImageOf(t.want) # f
  <2>1. CASE files' = files
    <3>1. \A t \in saves : Brought(t) => ImageOf(t.want) # None
      BY DEF Brought
    <3>2. files' = files \ {None}
      BY <2>1
    <3> QED
      BY <3>1, <3>2
  <2>2. CASE ~s.done /\ ImageOf(s.want) # ImageOf(s.seen) /\ files' = files \ {ImageOf(s.want)}
    <3>1. ImageOf(s.want) # None => Unnamed(ImageOf(s.want))
      BY <2>2 DEF ImagesKept, BroughtHeld, Brought
    <3>2. \A t \in saves : t # s /\ ~t.done /\ Brought(t) => ImageOf(t.want) # ImageOf(s.want)
      BY DEF ImagesKept, BroughtHeld, Images
    <3> QED
      BY <2>2, <3>1, <3>2
  <2>3. CASE s.done /\ ImageOf(s.want) # ImageOf(s.seen) /\ files' = files \ {ImageOf(s.seen)}
    <3>1. ImageOf(s.seen) # None => Unnamed(ImageOf(s.seen))
      BY <2>3 DEF ImagesKept, DroppedUnnamed, Dropped
    <3>2. \A t \in saves : t # s /\ ~t.done /\ Brought(t) => ImageOf(t.want) # ImageOf(s.seen)
      BY DEF ImagesKept, BroughtHeld, Images
    <3> QED
      BY <2>3, <3>1, <3>2
  <2> QED
    BY <2>1, <2>2, <2>3
<1>4. ImageThere'
  BY <1>3 DEF ImagesKept, ImageThere, Exists, Unnamed
<1>5. BroughtHeld'
  BY <1>1, <1>3 DEF ImagesKept, BroughtHeld
<1> QED
  BY <1>2, <1>4, <1>5 DEF ImagesKept

-------------------------------------------------------------------------------
(* The catalogue: the theorems *)

CatalogueInv ==
  /\ Tables /\ Asking /\ Panelling /\ begun \in 0..MaxBegun
  /\ TalkInv /\ ImagesKept

\* None is no image, no row and no comment.
LEMMA NoneApart ==
  ASSUME Panelling
  PROVE  None \notin Files /\ None \notin files /\ None \notin fresh /\ Files \intersect Ids = {}
BY CatalogueAssumption, ReviewsAssumption DEF Panelling, Ids

LEMMA PanelInv ==
  ASSUME CatalogueInv, WebPanel
  PROVE  CatalogueInv'
<1> USE DEF CatalogueInv
<1>1. None \notin Files /\ None \notin files /\ None \notin fresh /\ Files \intersect Ids = {}
  BY NoneApart
<1>2. ASSUME UNCHANGED <<reviewVars, dialog, job>> PROVE TalkInv' /\ Asking'
  BY <1>2, TalkKept DEF reviewVars, Asking
<1>3. ASSUME NEW x \in Ids, NEW want \in Row, Submitted(x, want) PROVE CatalogueInv'
  <2> DEFINE s == [row |-> x, seen |-> rows[x], want |-> want, done |-> FALSE]
  <2>1. /\ files' = files \union ({ImageOf(want)} \ {None, ImageOf(rows[x])})
        /\ fresh' = fresh \ {x, ImageOf(want)} /\ saves' = saves \union {s}
        /\ ImageOf(want) \in {None, ImageOf(rows[x])} \union (fresh \intersect Files)
    BY <1>3, CatalogueAssumption DEF Submitted, Written, ImageOf
  <2>2. s.row = x /\ s.seen = rows[x] /\ s.want = want /\ s.done = FALSE
    OBVIOUS
  <2>3. /\ Panelling' /\ begun' \in 0..MaxBegun /\ Tables'
        /\ UNCHANGED <<shelf, reviewVars, dialog, job>>
    BY <1>3, SubmitStep
  <2> HIDE DEF s
  <2>4. Brought(s) => ImageOf(want) \in files'
    BY <2>1, <2>2 DEF Brought
  <2>5. files \subseteq files' /\ fresh' \subseteq fresh /\ ImageOf(want) \notin fresh'
    BY <2>1
  <2>6. ImagesKept'
    BY <1>1, <2>1, <2>2, <2>3, <2>4, <2>5, ImagesBrought DEF shelf
  <2> QED
    BY <1>2, <2>3, <2>6
<1>4. ASSUME NEW x \in Ids, Delete(x) PROVE CatalogueInv'
  <2> DEFINE s == [row |-> x, seen |-> rows[x], want |-> None, done |-> FALSE]
  <2>1. saves' = saves \union {s} /\ UNCHANGED disk /\ ImageOf(None) = None
    BY <1>4 DEF Delete, ImageOf
  <2>2. s.row = x /\ s.seen = rows[x] /\ s.want = None /\ s.done = FALSE
    OBVIOUS
  <2>3. /\ Panelling' /\ begun' \in 0..MaxBegun /\ Tables'
        /\ UNCHANGED <<shelf, reviewVars, dialog, job>>
    BY <1>4, SubmitStep
  <2> HIDE DEF s
  <2>4. ~Brought(s)
    BY <2>1, <2>2 DEF Brought
  <2>5. UNCHANGED <<files, fresh, rows>>
    BY <2>1, <2>3 DEF disk, shelf
  <2>6. ImagesKept'
    BY <1>1, <2>1, <2>2, <2>4, <2>5, ImagesBrought
  <2> QED
    BY <1>2, <2>3, <2>6
<1>5. ASSUME NEW s \in saves, Commit(s) PROVE CatalogueInv'
  <2> DEFINE d == [s EXCEPT !.done = TRUE]
  <2>1. /\ ~s.done /\ saves' = (saves \ {s}) \union {d} /\ UNCHANGED <<disk, dialog, job, begun>>
    BY <1>5 DEF Commit
  <2>2. s \in Save /\ s.row \in Ids
    BY DEF Panelling, Save
  <2>3. d.row = s.row /\ d.seen = s.seen /\ d.want = s.want /\ d.done
    BY <2>2 DEF Save
  <2> HIDE DEF d
  <2>4. Images(d) = Images(s)
    BY <2>3 DEF Images
  <2>5. /\ Tables' /\ Panelling' /\ UNCHANGED <<talk, sending, shown>>
        /\ \A y \in Ids : Exists(y)' /\ rows'[y].image # None =>
             \/ Exists(y) /\ rows'[y].image = rows[y].image
             \/ y = s.row /\ Brought(s) /\ rows'[y].image = ImageOf(s.want)
        /\ Dropped(s) /\ Exists(s.row)' => rows'[s.row].image # ImageOf(s.seen)
    BY <1>5, CommitStep DEF Brought, Dropped, ImageOf
  <2>6. ImagesKept'
    BY <1>1, <2>1, <2>2, <2>3, <2>4, <2>5, ImagesCommitted
  <2>7. TalkInv' /\ Asking'
    BY <2>1, <2>5, TalkKept DEF Asking
  <2> QED
    BY <2>1, <2>5, <2>6, <2>7
<1>6. ASSUME NEW s \in saves, Fail(s) \/ Tidy(s) PROVE CatalogueInv'
  <2>1. /\ Tables' /\ Panelling' /\ UNCHANGED <<shelf, reviewVars, dialog, job, begun, fresh>>
        /\ saves' = saves \ {s}
        /\ \/ files' = files
           \/ ~s.done /\ ImageOf(s.want) # ImageOf(s.seen) /\ files' = files \ {ImageOf(s.want)}
           \/ s.done /\ ImageOf(s.want) # ImageOf(s.seen) /\ files' = files \ {ImageOf(s.seen)}
    BY <1>6, TidyStep
  <2>2. ImagesKept'
    BY <1>1, <2>1, ImagesTidied DEF shelf
  <2> QED
    BY <1>2, <2>1, <2>2
<1>7. ASSUME NEW g \in Goods, NEW v \in Values, NEW infinite \in BOOLEAN, WebStock(g, v, infinite)
      PROVE  CatalogueInv'
  <2>1. /\ Exists(g) /\ Insert(g, v, infinite) /\ Begin
        /\ UNCHANGED <<rows, product, reviewVars, disk, saves, dialog, job>>
    BY <1>7 DEF WebStock
  <2>2. Tables'
    BY <2>1, StockAdded DEF reviewVars
  <2>3. ImagesKept'
    BY <1>1, <2>1, ImagesLeft DEF disk, Fewer, Exists
  <2>4. begun' \in 0..MaxBegun
    BY <2>1, CatalogueAssumption DEF Begin
  <2>5. Panelling'
    BY <2>1 DEF Panelling, disk
  <2> QED
    BY <1>2, <2>1, <2>2, <2>3, <2>4, <2>5
<1>8. ASSUME NEW n \in Names, NEW up \in Cats \union {None}, NEW f \in Files \union {None}
      PROVE  [name |-> n, up |-> up, image |-> f] \in Row
  BY DEF Row
<1>9. Cats \subseteq Ids /\ Goods \subseteq Ids
  BY DEF Ids
<1> QED
  BY <1>3, <1>4, <1>5, <1>6, <1>7, <1>8, <1>9 DEF WebPanel, SaveCategory, SaveProduct

LEMMA BotInv ==
  ASSUME CatalogueInv, Bot
  PROVE  CatalogueInv'
<1>1. None \notin Files /\ Files \intersect Ids = {}
  BY NoneApart DEF CatalogueInv
<1>2. /\ Tables' /\ Asking' /\ begun' \in 0..MaxBegun
      /\ UNCHANGED <<files, saves, talk, sending, shown>> /\ fresh' \subseteq fresh /\ Fewer
  BY BotStep DEF CatalogueInv
<1>3. ImagesKept' /\ TalkInv' /\ Panelling'
  BY <1>1, <1>2, ImagesLeft, TalkKept DEF CatalogueInv, Panelling
<1> QED
  BY <1>2, <1>3 DEF CatalogueInv

LEMMA CustomerInv ==
  ASSUME CatalogueInv, Customer \/ \E v \in stock : DeleteValue(v)
  PROVE  CatalogueInv'
<1> USE DEF CatalogueInv
<1>1. ASSUME UNCHANGED <<rows, disk, saves, dialog, job>> PROVE ImagesKept' /\ Panelling' /\ Asking'
  <2>1. None \notin Files /\ Files \intersect Ids = {}
    BY NoneApart
  <2> QED
    BY <1>1, <2>1, ImagesLeft DEF Panelling, Asking, disk, Fewer, Exists
<1>2. ASSUME begun' = begun \/ Begin PROVE begun' \in 0..MaxBegun
  BY <1>2, CatalogueAssumption DEF Begin
<1>3. ASSUME NEW i \in Items, NEW v \in stock, Sell(i, v) PROVE CatalogueInv'
  <2>1. /\ reviews[i] = None /\ Begin /\ product' = [product EXCEPT ![i] = v.item]
        /\ stock' \subseteq stock /\ UNCHANGED <<rows, reviewVars, disk, saves, dialog, job>>
    BY <1>3 DEF Sell
  <2>2. v.item \in Goods /\ Exists(v.item)
    BY DEF Tables, References, Unit
  <2>3. Tables'
    BY <2>1, <2>2, KeepRows DEF Tables, References, reviewVars
  <2>4. TalkInv'
    BY <2>1, TalkKept DEF reviewVars
  <2> QED
    BY <1>1, <1>2, <2>1, <2>3, <2>4
<1>4. ASSUME NEW v \in stock, DeleteValue(v) PROVE CatalogueInv'
  <2>1. stock' \subseteq stock
        /\ UNCHANGED <<rows, product, reviewVars, disk, saves, dialog, job, begun>>
    BY <1>4 DEF DeleteValue
  <2>2. Tables' /\ TalkInv'
    BY <2>1, StockDropped, TalkKept DEF reviewVars
  <2> QED
    BY <1>1, <1>2, <2>1, <2>2
<1>5. ASSUME \/ Reviewing
             \/ \E i \in Items, origin \in {"p", "o"} : StartReview(i, origin)
             \/ \E i \in Items : DeleteReview(i),
             begun' = begun \/ Begin, UNCHANGED <<shelf, disk, saves, dialog, job>>
      PROVE  CatalogueInv'
  <2>1. Tables' /\ TalkInv'
    BY <1>5, ReviewStep DEF shelf
  <2> QED
    BY <1>1, <1>2, <1>5, <2>1 DEF shelf
<1> QED
  BY <1>3, <1>4, <1>5 DEF Customer

LEMMA RestartInv ==
  ASSUME CatalogueInv, CatalogueRestart
  PROVE  CatalogueInv'
<1> USE DEF CatalogueInv
<1>1. /\ saves' = {} /\ job' = None /\ sending' = None
      /\ UNCHANGED <<shelf, reviews, talk, shown, disk, dialog, begun>>
  BY DEF CatalogueRestart
<1>2. Tables' /\ TalkInv'
  BY <1>1, StockDropped, TalkKept DEF shelf
<1>3. None \notin Files /\ Files \intersect Ids = {}
  BY NoneApart
<1>4. ImagesKept'
  BY <1>1, <1>3, ImagesLeft DEF shelf, disk, Fewer, Exists
<1>5. Asking' /\ Panelling'
  BY <1>1 DEF Asking, Panelling, disk
<1> QED
  BY <1>1, <1>2, <1>4, <1>5

LEMMA CatalogueInitInv == CatalogueInit => CatalogueInv
<1> SUFFICES ASSUME CatalogueInit PROVE CatalogueInv
  OBVIOUS
<1>1. /\ rows = FirstRows /\ product = FirstSales /\ reviews = [i \in Items |-> None]
      /\ talk = NoTalk /\ sending = None /\ shown = None
      /\ files = {rows[x].image : x \in {y \in Ids : rows[y] # None}} \ {None}
      /\ fresh = {x \in Ids : rows[x] = None} \union (Files \ files)
      /\ stock = {} /\ saves = {} /\ dialog = NoDialog /\ job = None /\ begun = 0
  BY DEF CatalogueInit, ReviewsInit
<1>2. Tables
  <2>1. rows \in [Ids -> Row \union {None}] /\ product \in [Items -> Goods \union {None}]
    BY <1>1, FirstAssumption
  <2>2. ASSUME NEW x \in Ids, Exists(x) PROVE Accepted(x, rows[x])
    <3>1. Called(rows[x].name, Alike(x)) \subseteq {x}
      <4> SUFFICES ASSUME NEW y \in Alike(x), rows[y] # None, rows[y].name = rows[x].name, y # x
                   PROVE  FALSE
        BY DEF Called
      <4>1. y \in Ids /\ (x \in Goods <=> y \in Goods)
        BY <2>2, CatalogueAssumption DEF Alike, Ids
      <4> QED
        BY <1>1, <2>2, <4>1, FirstAssumption DEF Exists
    <3>2. rows[x].up # None => Exists(rows[x].up)
      BY <1>1, <2>2, FirstAssumption DEF Exists
    <3> QED
      BY <3>1, <3>2 DEF Accepted
  <2>3. \A i \in Items : product[i] # None => Exists(product[i])
    BY <1>1, FirstAssumption DEF Exists
  <2> QED
    BY <1>1, <2>1, <2>2, <2>3 DEF Tables, References
<1>3. Asking
  BY <1>1, NoDialogFits DEF Asking
<1>4. Panelling
  <2>1. \A x \in Ids : rows[x] # None => rows[x].image \in Files \union {None}
    BY <1>2 DEF Tables, Row
  <2> QED
    BY <1>1, <2>1 DEF Panelling
<1>5. TalkInv
  BY <1>1, NoTalkFits DEF TalkInv, Talking, Known, TalkShown, SubmittedAsShown
<1>6. ImagesKept
  <2>1. ImageThere
    BY <1>1 DEF ImageThere, Exists
  <2>2. OneRowEach
    BY <1>1, FirstAssumption DEF OneRowEach, Exists
  <2>3. FreshUnnamed
    <3>1. \A f \in fresh \intersect Files : f \notin files /\ f # None
      BY <1>1, <1>4, NoneApart
    <3> QED
      BY <1>1, <3>1 DEF FreshUnnamed, Unnamed, Exists
  <2> QED
    BY <1>1, <2>1, <2>2, <2>3 DEF ImagesKept, SeenInPlace, BroughtHeld, DroppedUnnamed
<1> QED
  BY <1>1, <1>2, <1>3, <1>4, <1>5, <1>6, CatalogueAssumption DEF CatalogueInv

LEMMA CatalogueInvStep == CatalogueInv /\ [CatalogueNext]_catalogueVars => CatalogueInv'
<1> SUFFICES ASSUME CatalogueInv, [CatalogueNext]_catalogueVars PROVE CatalogueInv'
  OBVIOUS
<1>1. CASE UNCHANGED catalogueVars
  BY <1>1 DEF catalogueVars, shelf, reviewVars, disk, CatalogueInv, Tables, References, Accepted,
    Called, Alike, Exists, Asking, Panelling, TalkInv, Talking, Known, TalkShown, SubmittedAsShown,
    ImagesKept, ImageThere, OneRowEach, FreshUnnamed, Unnamed, SeenInPlace, BroughtHeld,
    DroppedUnnamed
<1> QED
  BY <1>1, PanelInv, BotInv, CustomerInv, RestartInv DEF CatalogueNext

LEMMA CatalogueInvHolds == CatalogueSpec => []CatalogueInv
BY CatalogueInitInv, CatalogueInvStep, PTL DEF CatalogueSpec

\* The tables, the files, the requests, the dialogs and the reviews have the
\* values their columns, foreign keys and unique names allow, whatever the panel,
\* the bot and the customer do side by side (web/admin.py, handlers/admin/).
THEOREM CatalogueTypeCorrect == CatalogueSpec => []CatalogueTypeOK
<1>1. CatalogueInv => CatalogueTypeOK
  BY TypeParts DEF CatalogueInv, TalkInv
<1> QED
  BY <1>1, CatalogueInvHolds, PTL

\* No row ever names an image that is gone: until its commit a request alone
\* holds the file it brought, and afterwards no row names the one it removes
\* (web/admin.py).
THEOREM ImagesStay == CatalogueSpec => []ImageThere
<1>1. CatalogueInv => ImageThere
  BY DEF CatalogueInv, ImagesKept
<1> QED
  BY <1>1, CatalogueInvHolds, PTL

\* What Submit stores is what the last preview showed, whichever old buttons
\* were tapped before (handlers/user/shop_and_goods.py).
THEOREM ReviewsAsShown == CatalogueSpec => []SubmittedAsShown
<1>1. CatalogueInv => SubmittedAsShown
  BY DEF CatalogueInv, TalkInv
<1> QED
  BY <1>1, CatalogueInvHolds, PTL

===============================================================================
