----------------------------- MODULE Ownership -----------------------------
(***************************************************************************)
(* Who belongs to an organisation, and who owns it.                         *)
(*                                                                          *)
(* Models api/modules/identity/invitations.py (offer, revoke, accept,       *)
(* set_role, remove_member, leave, transfer_ownership and the ownership     *)
(* lock), api/modules/identity/service.py (provision_organisation) and the  *)
(* two deletions of api/modules/privacy/service.py (delete_account and      *)
(* delete_organisation).                                                    *)
(*                                                                          *)
(* Every handler is one database transaction at READ COMMITTED.  It is cut  *)
(* where another transaction can commit in between:                         *)
(*   arrived  the route's dependency has read the caller's role, or the     *)
(*            handler has read the invitation it will use;                  *)
(*   (locks)  _lock_ownership, one tenant row at a time, ascending;         *)
(*   checked  the handler has read everything it decides on, and passed;    *)
(*   done     its writes are committed and its row locks are released.      *)
(***************************************************************************)
EXTENDS Integers, FiniteSets, FiniteSetsExt

CONSTANTS
    Users,           \* accounts
    Orgs,            \* tenant ids of organisations, a set of numbers
    Invites,         \* invitation rows; each is written at most once
    Reqs,            \* requests the API serves at the same time
    MaxPending,      \* MAX_PENDING_INVITATIONS
    Served,          \* bound: the operations an instance serves; all in the product
    NoReq, NoInvite

ASSUME OrgsAreOrdered == Orgs \subseteq Nat
ASSUME NoReqIsNoRequest == NoReq \notin Reqs
ASSUME ReqsAreFinite == IsFiniteSet(Reqs)
ASSUME NoInviteIsNoRow == NoInvite \notin Invites
ASSUME MaxPendingIsNat == MaxPending \in Nat

VARIABLES
    org,        \* org[o]: the tenant row
    account,    \* account[u]: the user row
    role,       \* role[o][u]: the membership row, "none" when there is none
    inv,        \* inv[i]: the invitation row
    lock,       \* lock[o]: the request holding FOR NO KEY UPDATE on the tenant
    req,        \* req[r]: the request r is serving
    admitted,   \* history: who became a member through each invitation
    unguarded   \* history: organisations an erasure left without their lock

vars == <<org, account, role, inv, lock, req, admitted, unguarded>>

Roles == {"none", "member", "admin", "owner"}
InvitableRoles == {"member", "admin"}
NoRow == [state |-> "unwritten"]
Gone == [state |-> "deleted"]
InviteRows == {NoRow, Gone} \cup
    [state : {"written"}, org : Orgs, addr : Users, role : InvitableRoles,
     accepted : BOOLEAN, revoked : BOOLEAN, expired : BOOLEAN]

LockingOps == {"set_role", "remove", "transfer", "erase"}
\* What these decide on is read before the handler's own statements begin.
ReadOnArrival == {"accept", "revoke", "delete_org"}
Ops == LockingOps \cup {"offer"} \cup ReadOnArrival
Idle == [stage |-> "idle"]
Requests ==
    {q \in [stage : {"arrived", "checked"}, op : Ops, actor : Users, target : Users,
            role : Roles, inv : Invites \cup {NoInvite}, orgs : SUBSET Orgs,
            doomed : SUBSET Orgs] :
        /\ q.op = "set_role" => q.role # "none"
        /\ q.op = "transfer" => q.role \in {"none", "admin"} /\ q.target # q.actor
        /\ q.op = "offer" => q.role \in InvitableRoles
        /\ q.op \in {"offer", "accept", "revoke"} => q.inv # NoInvite}

TypeOK ==
    /\ org \in [Orgs -> {"unused", "live", "deleted"}]
    /\ account \in [Users -> {"live", "erased"}]
    /\ role \in [Orgs -> [Users -> Roles]]
    /\ inv \in [Invites -> InviteRows]
    /\ lock \in [Orgs -> Reqs \cup {NoReq}]
    /\ req \in [Reqs -> Requests \cup {Idle}]
    /\ admitted \in [Invites -> SUBSET Users]
    /\ unguarded \subseteq Orgs

----------------------------------------------------------------------------
(* What the handlers read.                                                  *)

Owners(o) == {u \in Users : role[o][u] = "owner"}
Members(o) == {u \in Users : role[o][u] # "none"}
OrgsOf(u) == {o \in Orgs : role[o][u] # "none"}

\* Invitation.is_open
IsOpen(i) == /\ inv[i].state = "written"
             /\ ~inv[i].accepted /\ ~inv[i].revoked /\ ~inv[i].expired

OpenInvites(o) == {i \in Invites : IsOpen(i) /\ inv[i].org = o}

\* _may_grant: an owner invites either role, an admin a member only.
MayGrant(actorRole, r) == \/ actorRole = "owner" /\ r \in InvitableRoles
                          \/ actorRole = "admin" /\ r = "member"

\* Slip: `>= 1` where the count has to exceed one.
NotLastOwnerOffByOne(o, u) == role[o][u] = "owner" => Owners(o) # {}

\* _refuse_if_last_owner lets the act through.
NotLastOwner(o, u) == role[o][u] = "owner" => \E w \in Owners(o) : w # u

Active(r) == req[r].stage # "idle"

HeldBy(r) == {o \in Orgs : lock[o] = r}

\* Slip: the transaction ends and the session keeps its row locks.
ReleasedNever(r) == lock

Released(r) == [o \in Orgs |-> IF lock[o] = r THEN NoReq ELSE lock[o]]

----------------------------------------------------------------------------
(* A request arrives: the dependency `require` reads the caller's role.     *)

Request(what, actor, target, x, i, orgs) ==
    [stage |-> IF what \in ReadOnArrival THEN "checked" ELSE "arrived",
     op |-> what, actor |-> actor, target |-> target,
     role |-> x, inv |-> i, orgs |-> orgs, doomed |-> {}]

Arrive(r, what, actor, target, x, i, orgs) ==
    /\ what \in Served
    /\ req[r] = Idle
    /\ account[actor] = "live"
    /\ req' = [req EXCEPT ![r] = Request(what, actor, target, x, i, orgs)]
    /\ UNCHANGED <<org, account, role, inv, lock, admitted, unguarded>>

ArriveSetRole(r) ==
    \E o \in Orgs, a, t \in Users, x \in {"owner", "admin", "member"} :
        /\ role[o][a] = "owner"
        /\ Arrive(r, "set_role", a, t, x, NoInvite, {o})

ArriveRemove(r) ==
    \E o \in Orgs, a, t \in Users :
        /\ role[o][a] = "owner"
        /\ Arrive(r, "remove", a, t, "none", NoInvite, {o})

\* Leaving needs only MEMBER_READ, which every member holds.
ArriveLeave(r) ==
    \E o \in Orgs, a \in Users :
        /\ role[o][a] # "none"
        /\ Arrive(r, "remove", a, a, "none", NoInvite, {o})

\* `then` is "leave" or "stay as admin": what becomes of the caller's own row.
ArriveTransfer(r) ==
    \E o \in Orgs, a, t \in Users, then \in {"none", "admin"} :
        /\ role[o][a] = "owner"
        /\ t # a
        /\ Arrive(r, "transfer", a, t, then, NoInvite, {o})

\* delete_account first reads which organisations it has to lock.
ArriveErase(r) ==
    \E a \in Users : Arrive(r, "erase", a, a, "none", NoInvite, OrgsOf(a))

ArriveDeleteOrg(r) ==
    \E o \in Orgs, a \in Users :
        /\ role[o][a] = "owner"
        /\ Arrive(r, "delete_org", a, a, "none", NoInvite, {o})

ArriveOffer(r) ==
    \E o \in Orgs, a, addr \in Users, x \in InvitableRoles, i \in Invites :
        /\ inv[i] = NoRow
        /\ MayGrant(role[o][a], x)
        /\ Arrive(r, "offer", a, addr, x, i, {o})

\* The token is the capability: whoever holds it may accept, once it is read
\* as open by invitation_for_token.
ArriveAccept(r) ==
    \E i \in Invites, u \in Users :
        /\ IsOpen(i)
        /\ Arrive(r, "accept", u, u, inv[i].role, i, {inv[i].org})

\* revoke refuses an invitation it reads as accepted, and leaves one already
\* revoked as it is.
ArriveRevoke(r) ==
    \E i \in Invites, a \in Users :
        /\ inv[i].state = "written" /\ ~inv[i].accepted /\ ~inv[i].revoked
        /\ role[inv[i].org][a] \in {"owner", "admin"}
        /\ Arrive(r, "revoke", a, a, "none", i, {inv[i].org})

(* Taking the ownership lock, and deciding under it.                        *)

Locked(r) == Active(r) /\ req[r].op \in LockingOps
Todo(r) == IF Locked(r) THEN req[r].orgs \ HeldBy(r) ELSE {}

\* Slip: the tenant rows are locked in whatever order they were read.
TakeLockInAnyOrder(r) ==
    /\ Locked(r) /\ req[r].stage = "arrived"
    /\ \E o \in Todo(r) : lock[o] = NoReq /\ lock' = [lock EXCEPT ![o] = r]
    /\ UNCHANGED <<org, account, role, inv, req, admitted, unguarded>>

\* Slip: the tenant row is read without waiting for whoever holds it.
TakeLockWithoutWaiting(r) ==
    /\ Locked(r) /\ req[r].stage = "arrived"
    /\ \E o \in Todo(r) : /\ \A p \in Todo(r) : o <= p
                          /\ lock' = [lock EXCEPT ![o] = r]
    /\ UNCHANGED <<org, account, role, inv, req, admitted, unguarded>>

\* lock_ownership_of: one tenant row at a time, in ascending id order.
TakeLock(r) ==
    /\ Locked(r) /\ req[r].stage = "arrived"
    /\ \E o \in Todo(r) :
         /\ \A p \in Todo(r) : o <= p
         /\ lock[o] = NoReq
         /\ lock' = [lock EXCEPT ![o] = r]
    /\ UNCHANGED <<org, account, role, inv, req, admitted, unguarded>>

\* Slip: the caller's authority is not asked again under the lock.
MaySetRoleAsArrived(o, actor, target, x) ==
    /\ role[o][target] \notin {"none", x}
    /\ x # "owner" => NotLastOwner(o, target)

\* set_role under the lock: _require_owner_now, _member_or_404, and the
\* last-owner guard on the way down only.  The same role is a no-op.
MaySetRole(o, actor, target, x) ==
    /\ role[o][actor] = "owner"
    /\ role[o][target] \notin {"none", x}
    /\ x # "owner" => NotLastOwner(o, target)

\* remove_member: an owner removes a colleague, anybody removes themselves.
MayRemove(o, actor, target) ==
    /\ actor # target => role[o][actor] = "owner"
    /\ role[o][target] # "none"
    /\ NotLastOwner(o, target)

MayTransfer(o, actor, target) ==
    /\ role[o][actor] = "owner"
    /\ role[o][target] \notin {"none", "owner"}

\* deletion_preview: an organisation nobody else belongs to goes with the
\* account; one that would be left with members and no owner blocks it.
Doomed(u) == {o \in OrgsOf(u) : Members(o) = {u}}
Blocked(u) == {o \in OrgsOf(u) \ Doomed(u) : ~NotLastOwner(o, u)}

\* offer: not a member already, no invitation open for the address, and the
\* organisation is under its cap.
MayOffer(o, addr) ==
    /\ role[o][addr] = "none"
    /\ \A i \in OpenInvites(o) : inv[i].addr # addr
    /\ Cardinality(OpenInvites(o)) < MaxPending

Passes(r) ==
    LET q == req[r] IN
    CASE q.op = "set_role" -> \A o \in q.orgs : MaySetRole(o, q.actor, q.target, q.role)
      [] q.op = "remove"   -> \A o \in q.orgs : MayRemove(o, q.actor, q.target)
      [] q.op = "transfer" -> \A o \in q.orgs : MayTransfer(o, q.actor, q.target)
      [] q.op = "erase"    -> Blocked(q.actor) = {}
      [] OTHER             -> \A o \in q.orgs : MayOffer(o, q.target)

Deciding(r) == Active(r) /\ req[r].stage = "arrived" /\ Todo(r) = {}

Decide(r) ==
    /\ Deciding(r)
    /\ Passes(r)
    /\ req' = [req EXCEPT ![r].stage = "checked",
                          ![r].doomed = IF req[r].op = "erase"
                                        THEN Doomed(req[r].actor) ELSE {}]
    /\ UNCHANGED <<org, account, role, inv, lock, admitted, unguarded>>

\* The request ends: its transaction is over and its locks are free.
Finish(r) ==
    /\ req' = [req EXCEPT ![r] = Idle]
    /\ lock' = Released(r)

\* What r waits for inside lock_ownership_of: the holder of its next row.
QueuedBehind(r) ==
    {q \in Reqs : /\ Locked(r) /\ req[r].stage = "arrived"
                  /\ \E o \in Todo(r) : (\A p \in Todo(r) : o <= p) /\ lock[o] = q}

\* What r waits for when it deletes tenant rows.
RowsToDelete(r) ==
    CASE ~Active(r) \/ req[r].stage # "checked" -> {}
      [] req[r].op = "erase"      -> req[r].doomed \cap OrgsOf(req[r].actor)
      [] req[r].op = "delete_org" -> {o \in req[r].orgs : org[o] = "live"}
      [] OTHER                    -> {}
DeletingBehind(r) == {q \in Reqs \ {r} : \E o \in RowsToDelete(r) : lock[o] = q}

WaitsFor(r) == QueuedBehind(r) \cup DeletingBehind(r)

\* Requests that wait on each other and on nobody else who could move.
Circle(S) == \A r \in S : WaitsFor(r) \cap S # {}

\* 403, 404, 409 or 429.
Refuse(r) ==
    /\ Deciding(r)
    /\ ~Passes(r)
    /\ Finish(r)
    /\ UNCHANGED <<org, account, role, inv, admitted, unguarded>>

\* Postgres's deadlock detector rolls back one request of a circle.
DeadlockVictim(r) ==
    /\ \E S \in SUBSET Reqs : r \in S /\ Circle(S)
    /\ Finish(r)
    /\ UNCHANGED <<org, account, role, inv, admitted, unguarded>>

\* A crash, a lost connection or a statement timeout: the transaction is
\* rolled back.
Abort(r) ==
    /\ Active(r)
    /\ Finish(r)
    /\ UNCHANGED <<org, account, role, inv, admitted, unguarded>>

----------------------------------------------------------------------------
(* The writes, and the commit that publishes them.                          *)

Committing(r, what) ==
    /\ Active(r) /\ req[r].stage = "checked" /\ req[r].op = what
    /\ Finish(r)

\* The update names the row that was read.  If it is gone the ORM raises
\* StaleDataError and the transaction is rolled back.
CommitSetRole(r) ==
    /\ Committing(r, "set_role")
    /\ LET q == req[r] IN
       \E o \in q.orgs :
         role' = IF role[o][q.target] = "none" THEN role
                 ELSE [role EXCEPT ![o][q.target] = q.role]
    /\ UNCHANGED <<org, account, inv, admitted, unguarded>>

CommitRemove(r) ==
    /\ Committing(r, "remove")
    /\ \E o \in req[r].orgs : role' = [role EXCEPT ![o][req[r].target] = "none"]
    /\ UNCHANGED <<org, account, inv, admitted, unguarded>>

\* The promotion and the step-down are one commit.
CommitTransfer(r) ==
    /\ Committing(r, "transfer")
    /\ LET q == req[r] IN
       \E o \in q.orgs :
         role' = IF \/ role[o][q.target] = "none"
                    \/ q.role = "admin" /\ role[o][q.actor] = "none"
                 THEN role
                 ELSE [role EXCEPT ![o] = [@ EXCEPT ![q.target] = "owner",
                                                    ![q.actor] = q.role]]
    /\ UNCHANGED <<org, account, inv, admitted, unguarded>>

\* _delete_tenant and delete_account: the invitations that go with an
\* organisation, and those addressed to somebody being erased.
InvitesLeft(gone, addrs) ==
    [i \in Invites |->
        IF inv[i].state = "written" /\ (inv[i].org \in gone \/ inv[i].addr \in addrs)
        THEN Gone ELSE inv[i]]

\* _delete_tenant: the memberships, then the tenant row, of all of `gone`.
OrgsGo(gone, leaving) ==
    /\ org' = [o \in Orgs |-> IF o \in gone THEN "deleted" ELSE org[o]]
    /\ role' = [o \in Orgs |-> [w \in Users |->
                  IF o \in gone \/ w \in leaving THEN "none" ELSE role[o][w]]]
    /\ inv' = InvitesLeft(gone, leaving)

\* delete_account: it deletes the organisations it found to be only the
\* caller's, the invitations addressed to the caller, every membership the
\* caller holds now, and the account.
CommitErase(r) ==
    /\ Committing(r, "erase")
    /\ DeletingBehind(r) = {}
    /\ LET u == req[r].actor
           gone == RowsToDelete(r)
       IN /\ OrgsGo(gone, {u})
          /\ account' = [account EXCEPT ![u] = "erased"]
          /\ unguarded' = unguarded \cup (OrgsOf(u) \ (gone \cup req[r].orgs))
    /\ UNCHANGED admitted

\* delete_organisation: no ownership lock and no second look at the caller's
\* role, but DELETE on the tenant row waits for whoever holds it.
CommitDeleteOrg(r) ==
    /\ Committing(r, "delete_org")
    /\ DeletingBehind(r) = {}
    /\ OrgsGo(RowsToDelete(r), {})
    /\ UNCHANGED <<account, admitted, unguarded>>

\* uq_invitations_live: neither accepted nor revoked, whatever the clock says.
Unspent(i) == inv[i].state = "written" /\ ~inv[i].accepted /\ ~inv[i].revoked
SameOffer(i, o, addr) == inv[i].state = "written" /\ inv[i].org = o /\ inv[i].addr = addr

Lapsed(o, addr) == {i \in Invites : SameOffer(i, o, addr) /\ Unspent(i) /\ inv[i].expired}

\* Slip: no unique index, so only offer's own read stands in the way.
ClashUnindexed(o, addr) == FALSE

\* The index refuses a second row that is neither accepted nor revoked.
Clash(o, addr) == \E i \in Invites \ Lapsed(o, addr) : SameOffer(i, o, addr) /\ Unspent(i)

\* offer: a lapsed row for the address is closed and the new one is written.
CommitOffer(r) ==
    /\ Committing(r, "offer")
    /\ LET q == req[r] IN
       \E o \in q.orgs :
         inv' = IF Clash(o, q.target) \/ org[o] # "live" \/ inv[q.inv] # NoRow
                THEN inv
                ELSE [i \in Invites |->
                       CASE i = q.inv ->
                              [state |-> "written", org |-> o, addr |-> q.target,
                               role |-> q.role, accepted |-> FALSE,
                               revoked |-> FALSE, expired |-> FALSE]
                         [] i \in Lapsed(o, q.target) -> [inv[i] EXCEPT !.revoked = TRUE]
                         [] OTHER -> inv[i]]
    /\ UNCHANGED <<org, account, role, admitted, unguarded>>

\* Slip: the invitation's role replaces the one already held.
RoleOnAcceptOverwritten(held, offered) == offered

\* accept: already a member, so the role is left alone.
RoleOnAccept(held, offered) == IF held = "none" THEN offered ELSE held

\* accept: the membership, unless there is one already, and the stamp.  The
\* foreign keys refuse an account that is gone; a deleted row fails the update.
CommitAccept(r) ==
    /\ Committing(r, "accept")
    /\ LET u == req[r].actor
           i == req[r].inv
           o == inv[i].org
       IN IF inv[i].state = "written" /\ account[u] = "live"
          THEN /\ inv' = [inv EXCEPT ![i].accepted = TRUE]
               /\ role' = [role EXCEPT ![o][u] = RoleOnAccept(@, inv[i].role)]
               /\ admitted' = IF role[o][u] = "none"
                              THEN [admitted EXCEPT ![i] = @ \cup {u}] ELSE admitted
          ELSE UNCHANGED <<role, inv, admitted>>
    /\ UNCHANGED <<org, account, unguarded>>

CommitRevoke(r) ==
    /\ Committing(r, "revoke")
    /\ LET i == req[r].inv
       IN inv' = IF inv[i].state = "written"
                 THEN [inv EXCEPT ![i].revoked = TRUE] ELSE inv
    /\ UNCHANGED <<org, account, role, admitted, unguarded>>

\* provision_organisation, for somebody who has an account.
CreateOrganisation(u, o) ==
    /\ org[o] = "unused"
    /\ account[u] = "live"
    /\ org' = [org EXCEPT ![o] = "live"]
    /\ role' = [role EXCEPT ![o][u] = "owner"]
    /\ UNCHANGED <<account, inv, lock, req, admitted, unguarded>>

\* The clock passes an invitation's expires_at.
Expire(i) ==
    /\ inv[i].state = "written" /\ ~inv[i].expired
    /\ inv' = [inv EXCEPT ![i].expired = TRUE]
    /\ UNCHANGED <<org, account, role, lock, req, admitted, unguarded>>

----------------------------------------------------------------------------
\* Organisations as the product leaves them: each live one has an owner.
Init ==
    /\ org \in [Orgs -> {"unused", "live"}]
    /\ account = [u \in Users |-> "live"]
    /\ role \in [Orgs -> [Users -> Roles]]
    /\ \A o \in Orgs : IF org[o] = "live" THEN Owners(o) # {} ELSE Members(o) = {}
    /\ inv = [i \in Invites |-> NoRow]
    /\ lock = [o \in Orgs |-> NoReq]
    /\ req = [r \in Reqs |-> Idle]
    /\ admitted = [i \in Invites |-> {}]
    /\ unguarded = {}

Commit(r) ==
    \/ CommitSetRole(r) \/ CommitRemove(r) \/ CommitTransfer(r) \/ CommitErase(r)
    \/ CommitDeleteOrg(r) \/ CommitOffer(r) \/ CommitAccept(r) \/ CommitRevoke(r)

Next ==
    \/ \E r \in Reqs :
         \/ ArriveSetRole(r) \/ ArriveRemove(r) \/ ArriveLeave(r)
         \/ ArriveTransfer(r) \/ ArriveErase(r) \/ ArriveDeleteOrg(r)
         \/ ArriveOffer(r) \/ ArriveAccept(r) \/ ArriveRevoke(r)
         \/ TakeLock(r) \/ Decide(r) \/ Refuse(r) \/ Commit(r)
         \/ DeadlockVictim(r) \/ Abort(r)
    \/ \E u \in Users, o \in Orgs : CreateOrganisation(u, o)
    \/ \E i \in Invites : Expire(i)

Spec == Init /\ [][Next]_vars

\* A handler keeps running until it waits for a row; Postgres grants a row
\* lock in the order it was asked for, so a waiter is not overtaken forever.
Fairness ==
    \A r \in Reqs : /\ SF_vars(TakeLock(r))
                    /\ WF_vars(Decide(r)) /\ WF_vars(Refuse(r))
                    /\ SF_vars(Commit(r)) /\ WF_vars(DeadlockVictim(r))

FairSpec == Spec /\ Fairness
----------------------------------------------------------------------------
(* Properties.                                                              *)

\* Neither gone, nor left without its lock by an erasure that read its
\* organisations before the caller joined this one.
Guarded(o) == org[o] = "live" /\ o \notin unguarded

\* _lock_ownership: an organisation is never left with nobody in charge,
\* however demotions, removals, departures, transfers, acceptances and
\* erasures of different people interleave.
OwnerAlways == \A o \in Orgs : Guarded(o) => Owners(o) # {}

\* memberships, invitations: nothing that names an organisation or a person
\* outlives either, whatever was in flight when they were erased.
NothingOutlives ==
    /\ \A o \in Orgs, u \in Users :
         role[o][u] # "none" => org[o] = "live" /\ account[u] = "live"
    /\ \A i \in Invites : inv[i].state = "written" => org[inv[i].org] = "live"

\* uq_invitations_live with offer's own two reads: one address never has two
\* open invitations to one organisation, though two people offer at once.
OneOpenInvitation ==
    \A i, j \in Invites :
        IsOpen(i) /\ IsOpen(j) /\ inv[i].org = inv[j].org /\ inv[i].addr = inv[j].addr
        => i = j

\* What a request that has decided still relies on when it writes.
StillMay(q, o) ==
    CASE q.op = "set_role" -> /\ role[o][q.actor] = "owner"
                              /\ role[o][q.target] # "none"
                              /\ q.role # "owner" => NotLastOwner(o, q.target)
      [] q.op = "remove"   -> /\ q.actor # q.target => role[o][q.actor] = "owner"
                              /\ role[o][q.target] # "none"
                              /\ NotLastOwner(o, q.target)
      [] q.op = "transfer" -> /\ role[o][q.actor] = "owner"
                              /\ role[o][q.target] \notin {"none", "owner"}
                              /\ q.actor # q.target
      [] q.op = "erase"    -> o \notin q.doomed => NotLastOwner(o, q.actor)
      [] OTHER             -> TRUE

\* _require_owner_now and _refuse_if_last_owner: what a handler read under the
\* ownership lock is still so at its commit.
DecisionsHold ==
    \A r \in Reqs : Active(r) /\ req[r].stage = "checked" =>
        \A o \in req[r].orgs : Guarded(o) => StillMay(req[r], o)

\* A request past its checks holds the ownership lock of all it names, and
\* names no organisation that has yet to be created.
LocksHeld ==
    \A r \in Reqs : Locked(r) /\ req[r].stage = "checked" =>
        \A o \in req[r].orgs : lock[o] = r
NamesExist ==
    \A r \in Reqs : Active(r) => \A o \in req[r].orgs : org[o] # "unused"

\* The inductive invariant of OwnershipProofs: OwnerAlways rests on what every
\* decided request still relies on, and that on the locks it holds.
IInv ==
    /\ TypeOK /\ NothingOutlives
    /\ LocksHeld /\ NamesExist
    /\ OwnerAlways /\ DecisionsHold

\* A colleague's role changes, or a colleague goes, only by the hand of
\* somebody who owns the organisation at that very commit; anybody may only
\* take themselves out.
OnlyOwnersRule ==
    [][\A o \in Orgs, u \in Users :
         (Guarded(o) /\ Guarded(o)' /\ role[o][u] # "none" /\ role'[o][u] # role[o][u])
         => \E r \in Reqs :
              /\ Active(r) /\ ~Active(r)' /\ o \in req[r].orgs
              /\ \/ role[o][req[r].actor] = "owner"
                 \/ req[r].actor = u /\ role'[o][u] = "none"]_vars

\* transfer_ownership and set_role: nobody becomes an owner of a standing
\* organisation who was not already in it, so an invitation never carries
\* ownership.
OwnersComeFromMembers ==
    [][\A o \in Orgs, u \in Users :
         org[o] = "live" /\ role'[o][u] = "owner" => role[o][u] # "none"]_vars

\* accept: an old invitation never changes the role somebody already holds.
AcceptNeverDemotes ==
    [][\A i \in Invites :
         (IsOpen(i) /\ inv'[i].state = "written" /\ inv'[i].accepted)
         => \A o \in Orgs, u \in Users : role[o][u] # "none" => role'[o][u] = role[o][u]]_vars

\* lock_ownership_of: requests that only take the ownership lock, in its one
\* order, are never waiting on each other.
LockQueueHasNoCircle ==
    \A S \in (SUBSET Reqs) \ {{}} : \E r \in S : QueuedBehind(r) \cap S = {}

\* The session's transaction ends on every path, so its locks come free:
\* everything that arrives ends, and needs no crash to end.
EveryRequestEnds == \A r \in Reqs : Active(r) ~> ~Active(r)

\* accept's docstring: "Single use, by construction."
SingleUse == \A i \in Invites : Cardinality(admitted[i]) <= 1

\* delete_account's comment: the last-owner answer "has to hold until our own
\* commit", or an erasure leaves colleagues with nobody in charge.  Said here
\* with no exception for what the caller joined in the meantime.
ColleaguesHaveAnOwner ==
    \A o \in Orgs : org[o] = "live" /\ Members(o) # {} => Owners(o) # {}
=============================================================================
