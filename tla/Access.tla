------------------------------- MODULE Access --------------------------------
(***************************************************************************)
(* Who may do what: roles and their permissions, the two caches they are   *)
(* read through, and the middleware every update passes.                   *)
(*                                                                         *)
(* A user's permissions are those of the role row the user row points to   *)
(* (database/models/main.py).  Handlers never read them there: the         *)
(* permission filter and the role dialogs go through check_role_cached, a  *)
(* Redis entry of 300 s, and the authentication middleware through its own *)
(* dictionary of 300 s.  Both are filled by a read of the rows followed,   *)
(* after an await, by a store, so that a value read before a change may be *)
(* stored after the invalidation of that change; an invalidation is a      *)
(* background task, and while Redis is marked unhealthy it does nothing.   *)
(*                                                                         *)
(* An administrator with Manage (ADMINS_MANAGE) creates, edits, deletes    *)
(* and assigns roles no stronger than his own permissions, as he last saw  *)
(* them; the web panel writes roles and users directly, from a form that   *)
(* was loaded earlier.  OWNER's account is not among Users: the handlers   *)
(* refuse it as a target.  USE, which every role has, is left out.         *)
(*                                                                         *)
(* Two reads of the permissions in one handler (the filter's and the       *)
(* handler's) are one read here.  One dialog, assignment or deletion is    *)
(* followed at a time.  A deletion takes the role away from whoever was    *)
(* given it meanwhile: the mapper empties users.role_id before it deletes  *)
(* the row, so that the foreign key refuses nothing.  The maintenance mode *)
(* and the rate limiter are not modelled.                                  *)
(***************************************************************************)
EXTENDS Naturals, FiniteSets

CONSTANTS Users, Roles,  \* accounts, and role ids (those not given yet included)
          BuiltIn,       \* USER (the default), ADMIN, OWNER
          Perms, Manage, Block,  \* ADMINS_MANAGE and USERS_MANAGE are two of them
          FirstRole, FirstPerms, \* role of each user, permissions of each role
          Nothing,       \* no row, no entry, no dialog
          Visitors,      \* bound: the users whose admission is followed
          Readers,       \* bound: the users whose updates are followed
          PanelPerms,    \* bound: permissions the panel may write
          MaxReads,      \* bound: reads not stored yet
          MaxEdits,      \* bound: committed changes of roles and users
          MaxOutages     \* bound: times Redis is lost

ASSUME AccessAssumption ==
  /\ BuiltIn \subseteq Roles /\ {Manage, Block} \subseteq Perms
  /\ FirstRole \in [Users -> Roles]
  /\ FirstPerms \in [Roles -> {Nothing} \union SUBSET Perms]
  /\ Nothing \notin Roles /\ \A p \in SUBSET Perms : p # Nothing
  /\ \A u \in Users : FirstPerms[FirstRole[u]] # Nothing
  /\ Readers \union Visitors \subseteq Users /\ PanelPerms \subseteq SUBSET Perms
  /\ {MaxReads, MaxEdits, MaxOutages} \subseteq Nat

Caches == {"redis", "auth"}

VARIABLES
  role, perms,   \* users.role_id, roles.permissions
  unused,        \* ids that were never given to a role
  blocked,       \* users.is_blocked
  cache,         \* the entries of check_role_cached and of admin_cache
  fills,         \* values read from the rows and not stored yet
  drops,         \* invalidate_user_cache tasks not run yet
  usable,        \* CacheManager._healthy
  session,       \* the role dialog of the FSM (its name is asked for, then
                 \* its permissions), or an assignment or a deletion not
                 \* committed yet
  memory,        \* AuthenticationMiddleware.blocked_users
  update,        \* the update of a customer that is being admitted
  heard,         \* ghost: an update was handled that came after a block
  allowed,       \* ghost: permissions users had at first or the panel gave
  edits, outages

roleRows == <<role, perms, unused>>
gate == <<blocked, memory, update, heard>>
reads == <<cache, fills, drops, usable, outages>>
vars == <<roleRows, reads, session, gate, allowed, edits>>

Held(u) == IF role[u] = Nothing THEN {} ELSE perms[role[u]]

Init ==
  /\ role = FirstRole /\ perms = FirstPerms
  /\ unused = {r \in Roles : FirstPerms[r] = Nothing}
  /\ cache = [k \in Caches |-> [u \in Users |-> Nothing]]
  /\ fills = {} /\ drops = {} /\ usable = TRUE /\ outages = 0
  /\ session = Nothing
  /\ blocked = {} /\ memory = {} /\ update = Nothing /\ heard = FALSE
  /\ allowed = UNION {FirstPerms[FirstRole[u]] : u \in Users}
  /\ edits = 0

Edit == edits < MaxEdits /\ edits' = edits + 1

------------------------------------------------------------------------------
(* The caches. *)

\* A miss: the rows are read; the store comes after the await.
StartFill(k, u) ==
  /\ cache[k][u] = Nothing
  /\ k = "redis" => usable
  /\ Cardinality(fills) < MaxReads /\ \A f \in fills : <<f.in, f.user>> # <<k, u>>
  /\ fills' = fills \union {[in |-> k, user |-> u, perms |-> Held(u)]}
  /\ UNCHANGED <<roleRows, cache, drops, usable, outages, session, gate, allowed, edits>>

\* CacheManager.set does nothing while Redis is unhealthy; the dictionary
\* of the middleware is always written.
StoreFill(f) ==
  /\ fills' = fills \ {f}
  /\ cache' = IF f.in = "redis" /\ ~usable THEN cache
              ELSE [cache EXCEPT ![f.in][f.user] = f.perms]
  /\ UNCHANGED <<roleRows, drops, usable, outages, session, gate, allowed, edits>>

\* Fault: an entry lives as long as its process.
NeverLapses(k, u) == cache[k][u] # Nothing /\ k # "auth"

\* 300 seconds have passed since the entry was stored.
Lapsed(k, u) == cache[k][u] # Nothing

Expire(k, u) ==
  /\ Lapsed(k, u)
  /\ cache' = [cache EXCEPT ![k][u] = Nothing]
  /\ UNCHANGED <<roleRows, fills, drops, usable, outages, session, gate, allowed, edits>>

Drop(u) ==
  /\ u \in drops
  /\ drops' = drops \ {u}
  /\ cache' = IF usable THEN [cache EXCEPT !["redis"][u] = Nothing] ELSE cache
  /\ UNCHANGED <<roleRows, fills, usable, outages, session, gate, allowed, edits>>

LoseRedis ==
  /\ usable /\ outages < MaxOutages
  /\ usable' = FALSE /\ outages' = outages + 1
  /\ UNCHANGED <<roleRows, cache, fills, drops, session, gate, allowed, edits>>

RestoreRedis ==
  /\ ~usable
  /\ usable' = TRUE
  /\ UNCHANGED <<roleRows, cache, fills, drops, outages, session, gate, allowed, edits>>

\* What check_role_cached answers.
Seen(u) == IF usable /\ cache["redis"][u] # Nothing THEN cache["redis"][u] ELSE Held(u)

------------------------------------------------------------------------------
(* Roles, in the bot. *)

IsDialog == session # Nothing /\ "caller" \in DOMAIN session
IsNaming == session # Nothing /\ DOMAIN session = {"naming"}

\* A dialog may replace another one, never an assignment under way.
Free == session = Nothing \/ IsDialog \/ IsNaming

CreateStart(a) ==
  /\ Manage \in Seen(a) /\ Free
  /\ session' = [naming |-> a]
  /\ UNCHANGED <<roleRows, reads, gate, allowed, edits>>

\* The name is a message: no permission is asked for, the permissions are
\* read again and remembered.
CreateName ==
  /\ IsNaming
  /\ session' = [role |-> Nothing, perms |-> {}, caller |-> Seen(session.naming)]
  /\ UNCHANGED <<roleRows, reads, gate, allowed, edits>>

\* Fault: the permission to manage roles is taken to be enough.
AnyRole(r, seen) == perms[r] # Nothing /\ Manage \in seen

Grantable(r, seen) == perms[r] # Nothing /\ perms[r] \subseteq seen

EditStart(a, r) ==
  /\ Manage \in Seen(a) /\ Grantable(r, Seen(a)) /\ Free
  /\ session' = [role |-> r, perms |-> perms[r], caller |-> Seen(a)]
  /\ UNCHANGED <<roleRows, reads, gate, allowed, edits>>

\* The dialog trusts the permissions it was started with: neither the
\* toggles nor Done ask again.
Toggle(p) ==
  /\ IsDialog /\ p \in session.caller
  /\ session' = [session EXCEPT !.perms = (@ \ {p}) \union ({p} \ @)]
  /\ UNCHANGED <<roleRows, reads, gate, allowed, edits>>

\* update_role and create_role invalidate nothing.
Done ==
  /\ IsDialog /\ session.perms \subseteq session.caller
  /\ session' = Nothing
  /\ IF session.role # Nothing /\ perms[session.role] = Nothing
     THEN UNCHANGED <<perms, edits>>
     ELSE \E r \in Roles : /\ IF session.role = Nothing THEN r \in unused ELSE r = session.role
                           /\ Edit /\ perms' = [perms EXCEPT ![r] = session.perms]
  /\ unused' = {r \in unused : perms'[r] = Nothing}
  /\ UNCHANGED <<role, reads, gate, allowed>>

\* The list of roles clears the FSM; so does a name that is taken.
LeaveDialog ==
  /\ IsDialog \/ IsNaming
  /\ session' = Nothing
  /\ UNCHANGED <<roleRows, reads, gate, allowed, edits>>

Unassigned(r) == \A u \in Users : role[u] # r

\* The checks of a deletion, and its commit.
DeleteRole(a, r) ==
  /\ Manage \in Seen(a) /\ Grantable(r, Seen(a)) /\ session = Nothing
  /\ r \notin BuiltIn /\ Unassigned(r)
  /\ session' = [deleting |-> r]
  /\ UNCHANGED <<roleRows, reads, gate, allowed, edits>>

Deleted(r) ==
  /\ Edit
  /\ perms' = [perms EXCEPT ![r] = Nothing]
  /\ role' = [u \in Users |-> IF role[u] = r THEN Nothing ELSE role[u]]
  /\ UNCHANGED <<unused, reads, gate, allowed>>

IsDeletion == session # Nothing /\ DOMAIN session = {"deleting"}

CommitDelete ==
  /\ IsDeletion
  /\ session' = Nothing
  /\ IF perms[session.deleting] = Nothing THEN UNCHANGED <<roleRows, reads, gate, allowed, edits>>
     ELSE Deleted(session.deleting)

\* The checks of an assignment, and its commit some awaits later.
Assign(a, u, r) ==
  /\ Manage \in Seen(a) /\ Grantable(r, Seen(a)) /\ session = Nothing
  /\ session' = [user |-> u, role |-> r]
  /\ UNCHANGED <<roleRows, reads, gate, allowed, edits>>

\* set_role and the invalidation of both caches.
CommitAssign ==
  /\ ~Free /\ ~IsDeletion
  /\ session' = Nothing
  /\ LET u == session.user
     IN IF perms[session.role] = Nothing     \* the foreign key refuses the role
        THEN UNCHANGED <<role, drops, cache, edits>>
        ELSE /\ Edit
             /\ role' = [role EXCEPT ![u] = session.role]
             /\ drops' = drops \union {u}
             /\ cache' = [cache EXCEPT !["auth"][u] = Nothing]
  /\ UNCHANGED <<perms, unused, fills, usable, outages, gate, allowed>>

------------------------------------------------------------------------------
(* The web panel. *)

\* A role is edited or created.
WebRole(r, to) ==
  /\ to # perms[r] /\ (perms[r] # Nothing \/ r \in unused) /\ Edit
  /\ perms' = [perms EXCEPT ![r] = to]
  /\ unused' = unused \ {r}
  /\ allowed' = allowed \union to
  /\ UNCHANGED <<role, reads, session, gate>>

\* Nothing is asked: a role in use, or a built-in one, goes as well.
WebDeleteRole(r) == perms[r] # Nothing /\ Deleted(r) /\ UNCHANGED session

\* A block that is lifted no longer concerns the update under way.
Lift(u) ==
  /\ blocked' = blocked \ {u}
  /\ update' = IF update # Nothing /\ update.user = u THEN [update EXCEPT !.late = FALSE] ELSE update

\* A form is saved as a whole: a role or a flag the operator did not touch
\* is written back as it was when the form was loaded, whatever it has become
\* since.  No cache and no memory of the bot is told.
WebUser(u, r, block) ==
  /\ perms[r] # Nothing /\ Edit
  /\ role' = [role EXCEPT ![u] = r]
  /\ allowed' = allowed \union perms[r]
  /\ IF block THEN blocked' = blocked \union {u} /\ UNCHANGED update ELSE Lift(u)
  /\ UNCHANGED <<perms, unused, reads, session, memory, heard>>

------------------------------------------------------------------------------
(* Blocked users.  A block is a commit, then an entry of the middleware's  *)
(* memory.  The two are one step: every update asks the row too.           *)

BlockUser(a, u) ==
  /\ Block \in Seen(a) /\ Edit
  /\ blocked' = blocked \union {u} /\ memory' = memory \union {u} /\ drops' = drops \union {u}
  /\ UNCHANGED <<roleRows, cache, fills, usable, outages, session, update, heard, allowed>>

UnblockUser(a, u) ==
  /\ Block \in Seen(a) /\ Edit
  /\ Lift(u) /\ memory' = memory \ {u} /\ drops' = drops \union {u}
  /\ UNCHANGED <<roleRows, cache, fills, usable, outages, session, heard, allowed>>

Arrive(u) ==
  /\ update = Nothing
  /\ update' = [user |-> u, at |-> "auth", late |-> u \in blocked]
  /\ UNCHANGED <<roleRows, reads, session, blocked, memory, heard, allowed, edits>>

\* Fault: a block is looked up in the memory of the process only.
Forgotten(u) == u \in memory

Refused(u) == u \in memory \/ u \in blocked

\* The memory is asked, then the row; a refusal is remembered after the
\* awaits, perhaps after the user was unblocked.
Authenticate ==
  /\ update # Nothing /\ update.at = "auth"
  /\ update' = IF Refused(update.user) THEN [update EXCEPT !.at = "refused"] ELSE Nothing
  /\ heard' = (heard \/ (~Refused(update.user) /\ update.late))
  /\ UNCHANGED <<roleRows, reads, session, blocked, memory, allowed, edits>>

Remember ==
  /\ update # Nothing /\ update.at = "refused"
  /\ memory' = memory \union {update.user} /\ update' = Nothing
  /\ UNCHANGED <<roleRows, reads, session, blocked, heard, allowed, edits>>

------------------------------------------------------------------------------
\* The process dies and starts; Redis, its entries and the dialogs it keeps
\* for the FSM stay.
Restart ==
  /\ Edit
  /\ cache' = [cache EXCEPT !["auth"] = [u \in Users |-> Nothing]]
  /\ fills' = {} /\ drops' = {} /\ usable' = TRUE
  /\ session' = IF Free THEN session ELSE Nothing
  /\ memory' = blocked /\ update' = Nothing
  /\ UNCHANGED <<roleRows, outages, blocked, heard, allowed>>

------------------------------------------------------------------------------
Caching ==
  \/ \E k \in Caches, u \in Readers : StartFill(k, u) \/ Expire(k, u)
  \/ \E f \in fills : StoreFill(f)
  \/ \E u \in Users : Drop(u)
  \/ LoseRedis \/ RestoreRedis

Administration ==
  \/ \E a \in Readers : \/ CreateStart(a)
                        \/ \E r \in Roles : EditStart(a, r) \/ DeleteRole(a, r)
                        \/ \E u \in Users, r \in Roles : Assign(a, u, r)
  \/ \E p \in Perms : Toggle(p)
  \/ CreateName \/ Done \/ LeaveDialog \/ CommitAssign \/ CommitDelete

Panel ==
  \/ \E r \in Roles : WebDeleteRole(r) \/ \E to \in PanelPerms : WebRole(r, to)
  \/ \E u \in Users, r \in Roles, block \in BOOLEAN : WebUser(u, r, block)

Blocking ==
  \/ \E a \in Readers, u \in Users : BlockUser(a, u) \/ UnblockUser(a, u)
  \/ \E u \in Visitors : Arrive(u)
  \/ Authenticate \/ Remember

Next == Caching \/ Administration \/ Panel \/ Blocking \/ Restart

\* A read that started ends, a background task runs and an entry reaches its
\* TTL.  Nobody has to send an update or change a role, and Redis need not
\* come back.
Spec ==
  /\ Init /\ [][Next]_vars
  /\ \A k \in Caches, u \in Users : WF_vars(Expire(k, u))
  /\ \A k \in Caches, u \in Users : WF_vars(\E f \in fills : f.in = k /\ f.user = u /\ StoreFill(f))
  /\ \A u \in Users : WF_vars(Drop(u))

------------------------------------------------------------------------------
Entry == {Nothing} \union SUBSET Perms

\* Type invariant.
TypeOK ==
  /\ role \in [Users -> Roles \union {Nothing}] /\ perms \in [Roles -> Entry]
  /\ unused \subseteq Roles /\ allowed \subseteq Perms
  /\ cache \in [Caches -> [Users -> Entry]]
  /\ \A f \in fills : f.in \in Caches /\ f.user \in Users /\ f.perms \in SUBSET Perms
  /\ blocked \subseteq Users /\ memory \subseteq Users /\ heard \in BOOLEAN
  /\ update \in {Nothing} \union [user : Users, at : {"auth", "refused"}, late : BOOLEAN]
  /\ drops \subseteq Users /\ usable \in BOOLEAN /\ edits \in 0..MaxEdits /\ outages \in 0..MaxOutages
  /\ session \in {Nothing} \union [naming : Users] \union [deleting : Roles]
       \union [user : Users, role : Roles]
       \union [role : Roles \union {Nothing}, perms : SUBSET Perms, caller : SUBSET Perms]

\* Administrators cannot grow: whatever roles they create, edit, assign and
\* delete, with whatever stale permissions in the caches and the dialogs, no
\* user ever holds a permission that no user had at first and that the web
\* panel never gave (handlers/admin/role_management_states.py).
NoEscalation == \A u \in Users : Held(u) \subseteq allowed

\* An update that comes after its user was blocked, in the bot or in the
\* panel, before or after a restart, reaches no handler as long as the block
\* stands (middleware/security.py).
BlockedUnheard == ~heard

\* When roles stop changing, both caches end up answering what the rows say,
\* for good: no entry filled by a read that raced with the change, and none
\* whose invalidation was lost with Redis, lives on
\* (database/methods/read.py, middleware/security.py).
EventuallyFresh ==
  <>[] \A k \in Caches, u \in Users : cache[k][u] \in {Nothing, Held(u)}
==============================================================================
