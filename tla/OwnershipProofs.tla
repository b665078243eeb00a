-------------------------- MODULE OwnershipProofs --------------------------
(***************************************************************************)
(* What TLAPS proves of Ownership, for any number of people, organisations, *)
(* invitations and requests in flight.                                      *)
(***************************************************************************)
EXTENDS Ownership, FiniteSetTheorems, WellFoundedInduction, TLAPS

\* The steps that only end a request.
Ends(r) == Refuse(r) \/ DeadlockVictim(r) \/ Abort(r)

Arrives(r) ==
    \/ ArriveSetRole(r) \/ ArriveRemove(r) \/ ArriveLeave(r)
    \/ ArriveTransfer(r) \/ ArriveErase(r) \/ ArriveDeleteOrg(r)
    \/ ArriveOffer(r) \/ ArriveAccept(r) \/ ArriveRevoke(r)

----------------------------------------------------------------------------
(* Requests.                                                                *)

\* An active request is a record with every field in its range.
LEMMA ActiveIsRequest ==
    ASSUME TypeOK, NEW r \in Reqs, Active(r)
    PROVE  req[r] \in Requests
  BY DEF TypeOK, Active, Idle

\* Whoever arrives puts a well-formed request about standing organisations in
\* an idle slot, and changes nothing else.
Arrived(r) ==
    \E what \in Ops, actor, target \in Users, x \in Roles,
       i \in Invites \cup {NoInvite}, orgs \in SUBSET Orgs :
         /\ Arrive(r, what, actor, target, x, i, orgs)
         /\ Request(what, actor, target, x, i, orgs) \in Requests
         /\ \A o \in orgs : org[o] = "live"

\* Every way of arriving fills an idle slot with a well-formed request that
\* names only live organisations, and changes nothing else.
LEMMA ArrivalShape ==
    ASSUME TypeOK, NothingOutlives, NEW r \in Reqs, Arrives(r)
    PROVE  Arrived(r)
  <1> USE NoInviteIsNoRow DEF Ops, LockingOps, ReadOnArrival, Roles, InvitableRoles
  <1>a. \A o \in Orgs, a \in Users : role[o][a] # "none" => org[o] = "live"
    BY DEF NothingOutlives
  <1>1. CASE ArriveSetRole(r)
    <2>1. PICK o \in Orgs, a, t \in Users, x \in {"owner", "admin", "member"} :
            role[o][a] = "owner" /\ Arrive(r, "set_role", a, t, x, NoInvite, {o})
      BY <1>1 DEF ArriveSetRole
    <2>2. Request("set_role", a, t, x, NoInvite, {o}) \in Requests
      BY <2>1 DEF Request, Requests
    <2> QED BY <2>1, <2>2, <1>a DEF Arrived
  <1>2. CASE ArriveRemove(r)
    <2>1. PICK o \in Orgs, a, t \in Users :
            role[o][a] = "owner" /\ Arrive(r, "remove", a, t, "none", NoInvite, {o})
      BY <1>2 DEF ArriveRemove
    <2>2. Request("remove", a, t, "none", NoInvite, {o}) \in Requests
      BY <2>1 DEF Request, Requests
    <2> QED BY <2>1, <2>2, <1>a DEF Arrived
  <1>3. CASE ArriveLeave(r)
    <2>1. PICK o \in Orgs, a \in Users :
            role[o][a] # "none" /\ Arrive(r, "remove", a, a, "none", NoInvite, {o})
      BY <1>3 DEF ArriveLeave
    <2>2. Request("remove", a, a, "none", NoInvite, {o}) \in Requests
      BY <2>1 DEF Request, Requests
    <2> QED BY <2>1, <2>2, <1>a DEF Arrived
  <1>4. CASE ArriveTransfer(r)
    <2>1. PICK o \in Orgs, a, t \in Users, then \in {"none", "admin"} :
            role[o][a] = "owner" /\ t # a /\ Arrive(r, "transfer", a, t, then, NoInvite, {o})
      BY <1>4 DEF ArriveTransfer
    <2>2. Request("transfer", a, t, then, NoInvite, {o}) \in Requests
      BY <2>1 DEF Request, Requests
    <2> QED BY <2>1, <2>2, <1>a DEF Arrived
  <1>5. CASE ArriveErase(r)
    <2>1. PICK a \in Users : Arrive(r, "erase", a, a, "none", NoInvite, OrgsOf(a))
      BY <1>5 DEF ArriveErase
    <2>2. OrgsOf(a) \in SUBSET Orgs /\ \A o \in OrgsOf(a) : org[o] = "live"
      BY <1>a DEF OrgsOf
    <2>3. Request("erase", a, a, "none", NoInvite, OrgsOf(a)) \in Requests
      BY <2>1, <2>2 DEF Request, Requests
    <2> QED BY <2>1, <2>3, <2>2 DEF Arrived
  <1>6. CASE ArriveDeleteOrg(r)
    <2>1. PICK o \in Orgs, a \in Users :
            role[o][a] = "owner" /\ Arrive(r, "delete_org", a, a, "none", NoInvite, {o})
      BY <1>6 DEF ArriveDeleteOrg
    <2>2. Request("delete_org", a, a, "none", NoInvite, {o}) \in Requests
      BY <2>1 DEF Request, Requests
    <2> QED BY <2>1, <2>2, <1>a DEF Arrived
  <1>7. CASE ArriveOffer(r)
    <2>1. PICK o \in Orgs, a, addr \in Users, x \in InvitableRoles, i \in Invites :
            MayGrant(role[o][a], x) /\ Arrive(r, "offer", a, addr, x, i, {o})
      BY <1>7 DEF ArriveOffer
    <2>2. Request("offer", a, addr, x, i, {o}) \in Requests
      BY <2>1 DEF Request, Requests
    <2> QED BY <2>1, <2>2, <1>a DEF Arrived, MayGrant, InvitableRoles
  <1>8. CASE ArriveAccept(r)
    <2>1. PICK i \in Invites, u \in Users :
            IsOpen(i) /\ Arrive(r, "accept", u, u, inv[i].role, i, {inv[i].org})
      BY <1>8 DEF ArriveAccept
    <2>2. inv[i].org \in Orgs /\ inv[i].role \in InvitableRoles /\ org[inv[i].org] = "live"
      BY <2>1 DEF TypeOK, IsOpen, InviteRows, NoRow, Gone, NothingOutlives
    <2>3. Request("accept", u, u, inv[i].role, i, {inv[i].org}) \in Requests
      BY <2>1, <2>2 DEF Request, Requests
    <2> QED BY <2>1, <2>3, <2>2 DEF Arrived
  <1>9. CASE ArriveRevoke(r)
    <2>1. PICK i \in Invites, a \in Users :
            /\ inv[i].state = "written"
            /\ Arrive(r, "revoke", a, a, "none", i, {inv[i].org})
      BY <1>9 DEF ArriveRevoke
    <2>2. inv[i].org \in Orgs /\ org[inv[i].org] = "live"
      BY <2>1 DEF TypeOK, InviteRows, NoRow, Gone, NothingOutlives
    <2>3. Request("revoke", a, a, "none", i, {inv[i].org}) \in Requests
      BY <2>1, <2>2 DEF Request, Requests
    <2> QED BY <2>1, <2>3, <2>2 DEF Arrived
  <1> QED BY <1>1, <1>2, <1>3, <1>4, <1>5, <1>6, <1>7, <1>8, <1>9 DEF Arrives

\* Ending a request frees its slot and its locks and nobody else's.
LEMMA FinishShape ==
    ASSUME TypeOK, NEW r \in Reqs, Finish(r)
    PROVE  /\ req' \in [Reqs -> Requests \cup {Idle}]
           /\ lock' \in [Orgs -> Reqs \cup {NoReq}]
           /\ ~Active(r)'
           /\ \A q \in Reqs \ {r} : req'[q] = req[q]
           /\ \A o \in Orgs : lock[o] # r => lock'[o] = lock[o]
  BY DEF TypeOK, Finish, Released, Active, Idle

----------------------------------------------------------------------------
(* Type correctness.                                                        *)

\* The rows an accepted, revoked or written invitation leaves are rows.
LEMMA RowTypes ==
    ASSUME TypeOK, NEW i \in Invites, inv[i].state = "written"
    PROVE  /\ inv[i].org \in Orgs /\ inv[i].addr \in Users
           /\ inv[i].role \in InvitableRoles
           /\ [inv[i] EXCEPT !.accepted = TRUE] \in InviteRows
           /\ [inv[i] EXCEPT !.revoked = TRUE] \in InviteRows
           /\ [inv[i] EXCEPT !.expired = TRUE] \in InviteRows
  <1>1. inv[i] \in [state : {"written"}, org : Orgs, addr : Users, role : InvitableRoles,
                    accepted : BOOLEAN, revoked : BOOLEAN, expired : BOOLEAN]
    BY DEF TypeOK, InviteRows, NoRow, Gone
  <1> QED BY <1>1 DEF InviteRows

\* Every step leaves the rows and the requests well formed.
LEMMA TypeStep ==
    ASSUME TypeOK, NothingOutlives, [Next]_vars
    PROVE  TypeOK'
  <1>1. ASSUME NEW r \in Reqs, Arrives(r) PROVE TypeOK'
    <2>1. PICK what \in Ops, actor, target \in Users, x \in Roles,
               i \in Invites \cup {NoInvite}, orgs \in SUBSET Orgs :
            /\ Arrive(r, what, actor, target, x, i, orgs)
            /\ Request(what, actor, target, x, i, orgs) \in Requests
      BY <1>1, ArrivalShape DEF Arrived
    <2> QED BY <2>1 DEF Arrive, TypeOK
  <1>2. ASSUME NEW r \in Reqs, TakeLock(r) PROVE TypeOK'
    BY <1>2 DEF TakeLock, TypeOK, Todo
  <1>3. ASSUME NEW r \in Reqs, Decide(r) PROVE TypeOK'
    <2>1. req[r] \in Requests
      BY <1>3, ActiveIsRequest DEF Decide, Deciding
    <2>2. Doomed(req[r].actor) \in SUBSET Orgs
      BY DEF Doomed, OrgsOf
    <2>3. req' \in [Reqs -> Requests \cup {Idle}]
      BY <1>3, <2>1, <2>2 DEF Decide, TypeOK, Requests
    <2> QED BY <1>3, <2>3 DEF Decide, TypeOK
  <1>4. ASSUME NEW r \in Reqs, Ends(r) PROVE TypeOK'
    BY <1>4, FinishShape DEF Ends, Refuse, DeadlockVictim, Abort, TypeOK
  <1>5. ASSUME NEW r \in Reqs, Commit(r) PROVE TypeOK'
    <2>1. Finish(r) /\ Active(r)
      BY <1>5 DEF Commit, Committing, CommitSetRole, CommitRemove, CommitTransfer,
                  CommitErase, CommitDeleteOrg, CommitOffer, CommitAccept, CommitRevoke
    <2>2. req[r] \in Requests
      BY <2>1, ActiveIsRequest
    <2>3. req' \in [Reqs -> Requests \cup {Idle}] /\ lock' \in [Orgs -> Reqs \cup {NoReq}]
      BY <2>1, FinishShape
    <2>4. CASE CommitSetRole(r)
      BY <2>2, <2>3, <2>4 DEF CommitSetRole, TypeOK, Requests
    <2>5. CASE CommitRemove(r)
      BY <2>2, <2>3, <2>5 DEF CommitRemove, TypeOK, Requests, Roles
    <2>6. CASE CommitTransfer(r)
      <3>1. PICK o \in req[r].orgs :
              \/ role' = role
              \/ role' = [role EXCEPT ![o] = [@ EXCEPT ![req[r].target] = "owner",
                                                     ![req[r].actor] = req[r].role]]
        BY <2>6 DEF CommitTransfer
      <3>2. o \in Orgs /\ req[r].role \in Roles /\ "owner" \in Roles
        BY <2>2 DEF Requests, Roles
      <3> DEFINE row == [role[o] EXCEPT ![req[r].target] = "owner", ![req[r].actor] = req[r].role]
      <3>3. row \in [Users -> Roles]
        BY <3>2 DEF TypeOK
      <3>4. role' = role \/ role' = [role EXCEPT ![o] = row]
        BY <3>1
      <3>5. role' \in [Orgs -> [Users -> Roles]]
        BY <3>2, <3>3, <3>4 DEF TypeOK
      <3> QED BY <2>3, <2>6, <3>5 DEF CommitTransfer, TypeOK
    <2>7. CASE CommitErase(r)
      <3>1. unguarded' \subseteq Orgs
        BY <2>7 DEF CommitErase, OrgsOf, TypeOK
      <3>2. inv' \in [Invites -> InviteRows]
        BY <2>7 DEF CommitErase, OrgsGo, InvitesLeft, InviteRows, TypeOK
      <3> QED BY <2>2, <2>3, <2>7, <3>1, <3>2 DEF CommitErase, OrgsGo, TypeOK, Requests, Roles
    <2>8. CASE CommitDeleteOrg(r)
      <3>1. inv' \in [Invites -> InviteRows]
        BY <2>8 DEF CommitDeleteOrg, OrgsGo, InvitesLeft, InviteRows, TypeOK
      <3>2. org' \in [Orgs -> {"unused", "live", "deleted"}] /\ role' \in [Orgs -> [Users -> Roles]]
        BY <2>8 DEF CommitDeleteOrg, OrgsGo, TypeOK, Roles
      <3> QED BY <2>3, <2>8, <3>1, <3>2 DEF CommitDeleteOrg, TypeOK
    <2>9. CASE CommitOffer(r)
      <3>1. PICK o \in req[r].orgs :
              \/ inv' = inv
              \/ /\ inv[req[r].inv] = NoRow
                 /\ inv' = [i \in Invites |->
                            CASE i = req[r].inv ->
                                   [state |-> "written", org |-> o, addr |-> req[r].target,
                                    role |-> req[r].role, accepted |-> FALSE,
                                    revoked |-> FALSE, expired |-> FALSE]
                              [] i \in Lapsed(o, req[r].target) -> [inv[i] EXCEPT !.revoked = TRUE]
                              [] OTHER -> inv[i]]
        BY <2>9 DEF CommitOffer
      <3>2. o \in Orgs /\ req[r].target \in Users /\ req[r].role \in InvitableRoles
        BY <2>2, <2>9 DEF Requests, CommitOffer, Committing
      <3>3. \A i \in Lapsed(o, req[r].target) : [inv[i] EXCEPT !.revoked = TRUE] \in InviteRows
        BY RowTypes DEF Lapsed, Unspent
      <3>4. inv' \in [Invites -> InviteRows]
        <4>1. CASE inv' = inv
          BY <4>1 DEF TypeOK
        <4>2. CASE inv' # inv
          <5>1. inv' = [i \in Invites |-> inv'[i]]
            BY <3>1, <4>2
          <5>2. ASSUME NEW i \in Invites PROVE inv'[i] \in InviteRows
            <6>1. CASE i = req[r].inv
              <7>0. i \notin Lapsed(o, req[r].target)
                BY <3>1, <4>2, <6>1 DEF Lapsed, Unspent, NoRow
              <7>1. inv'[i] = [state |-> "written", org |-> o, addr |-> req[r].target,
                               role |-> req[r].role, accepted |-> FALSE,
                               revoked |-> FALSE, expired |-> FALSE]
                BY <3>1, <4>2, <6>1, <7>0
              <7> QED BY <3>2, <7>1 DEF InviteRows
            <6>2. CASE i # req[r].inv /\ i \in Lapsed(o, req[r].target)
              BY <3>1, <3>3, <4>2, <6>2
            <6>3. CASE i # req[r].inv /\ i \notin Lapsed(o, req[r].target)
              BY <3>1, <4>2, <6>3 DEF TypeOK
            <6> QED BY <6>1, <6>2, <6>3
          <5> QED BY <5>1, <5>2
        <4> QED BY <4>1, <4>2
      <3> QED BY <2>3, <2>9, <3>4 DEF CommitOffer, TypeOK
    <2>10. CASE CommitAccept(r)
      <3> DEFINE i == req[r].inv
                 u == req[r].actor
      <3>1. i \in Invites /\ u \in Users
        BY <2>2, <2>10 DEF Requests, CommitAccept, Committing
      <3>2. CASE inv[i].state = "written" /\ account[u] = "live"
        <4>1. inv' = [inv EXCEPT ![i].accepted = TRUE]
          BY <2>10, <3>2 DEF CommitAccept
        <4>2. inv' \in [Invites -> InviteRows]
          BY <3>1, <3>2, <4>1, RowTypes DEF TypeOK
        <4>3. inv[i].org \in Orgs /\ inv[i].role \in Roles
          BY <3>1, <3>2, RowTypes DEF InvitableRoles, Roles
        <4>4. role' = [role EXCEPT ![inv[i].org][u] = RoleOnAccept(@, inv[i].role)]
          BY <2>10, <3>2 DEF CommitAccept
        <4>5. role' \in [Orgs -> [Users -> Roles]]
          BY <3>1, <4>3, <4>4 DEF TypeOK, RoleOnAccept
        <4>6. admitted' \in [Invites -> SUBSET Users]
          BY <2>10, <3>1, <3>2 DEF CommitAccept, TypeOK
        <4> QED BY <2>3, <2>10, <4>2, <4>5, <4>6 DEF CommitAccept, TypeOK
      <3>3. CASE ~(inv[i].state = "written" /\ account[u] = "live")
        BY <2>3, <2>10, <3>3 DEF CommitAccept, TypeOK
      <3> QED BY <3>2, <3>3
    <2>11. CASE CommitRevoke(r)
      <3>1. req[r].inv \in Invites
        BY <2>2, <2>11 DEF Requests, CommitRevoke, Committing
      <3> QED BY <2>3, <2>11, <3>1, RowTypes DEF CommitRevoke, TypeOK
    <2> QED BY <1>5, <2>4, <2>5, <2>6, <2>7, <2>8, <2>9, <2>10, <2>11 DEF Commit
  <1>6. ASSUME NEW u \in Users, NEW o \in Orgs, CreateOrganisation(u, o) PROVE TypeOK'
    BY <1>6 DEF CreateOrganisation, TypeOK, Roles
  <1>7. ASSUME NEW i \in Invites, Expire(i) PROVE TypeOK'
    BY <1>7, RowTypes DEF Expire, TypeOK
  <1>8. CASE UNCHANGED vars
    BY <1>8 DEF vars, TypeOK
  <1> QED BY <1>1, <1>2, <1>3, <1>4, <1>5, <1>6, <1>7, <1>8 DEF Next, Arrives, Ends

----------------------------------------------------------------------------
(* What each kind of step does to the rows the invariant is about.          *)

ChangesRoles(r) == CommitSetRole(r) \/ CommitRemove(r) \/ CommitTransfer(r)
Deletes(r) == CommitErase(r) \/ CommitDeleteOrg(r)
WritesInvites(r) == CommitOffer(r) \/ CommitRevoke(r)

\* A role change touches existing rows of the organisation it names.
LEMMA RoleChangeEffect ==
    ASSUME TypeOK, NEW r \in Reqs, ChangesRoles(r)
    PROVE  /\ Locked(r) /\ req[r].stage = "checked" /\ Finish(r)
           /\ UNCHANGED <<org, account, inv, admitted, unguarded>>
           /\ \A o \in Orgs, u \in Users : role'[o][u] # role[o][u] =>
                o \in req[r].orgs /\ role[o][u] # "none"
  <1>1. CASE CommitSetRole(r)
    <2>1. req[r] \in Requests
      BY <1>1, ActiveIsRequest DEF CommitSetRole, Committing
    <2> QED BY <1>1, <2>1 DEF CommitSetRole, Committing, Locked, LockingOps, TypeOK, Requests
  <1>2. CASE CommitRemove(r)
    <2>1. req[r] \in Requests
      BY <1>2, ActiveIsRequest DEF CommitRemove, Committing
    <2> QED BY <1>2, <2>1 DEF CommitRemove, Committing, Locked, LockingOps, TypeOK, Requests
  <1>3. CASE CommitTransfer(r)
    <2>1. req[r] \in Requests
      BY <1>3, ActiveIsRequest DEF CommitTransfer, Committing
    <2>2. req[r].role = "none" \/ req[r].role = "admin"
      BY <1>3, <2>1 DEF CommitTransfer, Committing, Requests
    <2> QED BY <1>3, <2>1, <2>2 DEF CommitTransfer, Committing, Locked, LockingOps, TypeOK, Requests
  <1> QED BY <1>1, <1>2, <1>3 DEF ChangesRoles

\* A deletion empties rows and fills none; what it leaves of an organisation
\* that stays is all but the leaver's own row.
LEMMA DeletionEffect ==
    ASSUME TypeOK, NEW r \in Reqs, Deletes(r)
    PROVE  /\ Active(r) /\ req[r].stage = "checked" /\ Finish(r)
           /\ UNCHANGED admitted
           /\ \A o \in Orgs :
                \/ org'[o] = org[o]
                \/ org'[o] = "deleted" /\ (\A u \in Users : role'[o][u] = "none")
           /\ \A u \in Users :
                \/ account'[u] = account[u]
                \/ \A o \in Orgs : role'[o][u] = "none"
           /\ \A o \in Orgs, u \in Users :
                role'[o][u] = role[o][u] \/ role'[o][u] = "none"
           /\ \A i \in Invites :
                \/ inv'[i] = Gone
                \/ /\ inv'[i] = inv[i]
                   /\ inv[i].state = "written" => org'[inv[i].org] = org[inv[i].org]
           /\ unguarded \subseteq unguarded'
           /\ \A o \in Orgs, u \in Users : Guarded(o)' /\ role'[o][u] # role[o][u] =>
                req[r].op = "erase" /\ u = req[r].actor /\ o \in req[r].orgs \ req[r].doomed
  <1>1. req[r] \in Requests
    BY ActiveIsRequest DEF Deletes, CommitErase, CommitDeleteOrg, Committing
  <1>2. RowsToDelete(r) \in SUBSET Orgs
    BY <1>1 DEF RowsToDelete, Requests, OrgsOf
  <1>i. ASSUME NEW i \in Invites, inv[i].state = "written" PROVE inv[i].org \in Orgs
    BY <1>i, RowTypes
  <1>3. CASE CommitErase(r)
    <2> DEFINE u == req[r].actor
               gone == RowsToDelete(r)
    <2>1. gone = req[r].doomed \cap OrgsOf(u) /\ u \in Users
      BY <1>1, <1>3 DEF CommitErase, Committing, RowsToDelete, Active, Requests
    <2>2. /\ Active(r) /\ req[r].stage = "checked" /\ Finish(r) /\ req[r].op = "erase"
          /\ org' = [o \in Orgs |-> IF o \in gone THEN "deleted" ELSE org[o]]
          /\ role' = [o \in Orgs |-> [w \in Users |->
                        IF o \in gone \/ w \in {u} THEN "none" ELSE role[o][w]]]
          /\ inv' = InvitesLeft(gone, {u})
          /\ account' = [account EXCEPT ![u] = "erased"]
          /\ unguarded' = unguarded \cup (OrgsOf(u) \ (gone \cup req[r].orgs))
          /\ UNCHANGED admitted
      BY <1>3 DEF CommitErase, Committing, OrgsGo
    <2>3. ASSUME NEW o \in Orgs, NEW w \in Users, Guarded(o)', role'[o][w] # role[o][w]
          PROVE  w = u /\ o \in req[r].orgs \ req[r].doomed
      <3>1. o \notin gone
        BY <2>2, <2>3 DEF Guarded
      <3>2. w = u /\ role[o][u] # "none"
        BY <2>2, <2>3, <3>1
      <3> QED BY <2>1, <2>2, <2>3, <3>1, <3>2 DEF Guarded, OrgsOf
    <2>4. ASSUME NEW i \in Invites
          PROVE  \/ inv'[i] = Gone
                 \/ /\ inv'[i] = inv[i]
                    /\ inv[i].state = "written" => org'[inv[i].org] = org[inv[i].org]
      BY <2>2, <1>i DEF InvitesLeft
    <2>5. \A w \in Users : account'[w] = account[w] \/ \A o \in Orgs : role'[o][w] = "none"
      BY <2>1, <2>2 DEF TypeOK
    <2>6. \A o \in Orgs :
            \/ org'[o] = org[o]
            \/ org'[o] = "deleted" /\ (\A w \in Users : role'[o][w] = "none")
      BY <2>2
    <2>7. \A o \in Orgs, w \in Users : role'[o][w] = role[o][w] \/ role'[o][w] = "none"
      BY <2>2
    <2>8. unguarded \subseteq unguarded' /\ UNCHANGED admitted
          /\ Active(r) /\ req[r].stage = "checked" /\ Finish(r) /\ req[r].op = "erase"
      BY <2>2
    <2> HIDE DEF u, gone
    <2>9. \A o \in Orgs, w \in Users : Guarded(o)' /\ role'[o][w] # role[o][w] =>
             req[r].op = "erase" /\ w = req[r].actor /\ o \in req[r].orgs \ req[r].doomed
      BY <2>3, <2>8 DEF u
    <2> QED BY <2>4, <2>5, <2>6, <2>7, <2>8, <2>9
  <1>4. CASE CommitDeleteOrg(r)
    <2> DEFINE gone == RowsToDelete(r)
    <2>2. /\ Active(r) /\ req[r].stage = "checked" /\ Finish(r)
          /\ org' = [o \in Orgs |-> IF o \in gone THEN "deleted" ELSE org[o]]
          /\ role' = [o \in Orgs |-> [w \in Users |->
                        IF o \in gone \/ w \in {} THEN "none" ELSE role[o][w]]]
          /\ inv' = InvitesLeft(gone, {})
          /\ UNCHANGED <<account, admitted, unguarded>>
      BY <1>4 DEF CommitDeleteOrg, Committing, OrgsGo
    <2>3. \A o \in Orgs, w \in Users : Guarded(o)' => role'[o][w] = role[o][w]
      BY <2>2 DEF Guarded
    <2>4. ASSUME NEW i \in Invites
          PROVE  \/ inv'[i] = Gone
                 \/ /\ inv'[i] = inv[i]
                    /\ inv[i].state = "written" => org'[inv[i].org] = org[inv[i].org]
      BY <2>2, <1>i DEF InvitesLeft
    <2> QED BY <1>2, <2>2, <2>3, <2>4 DEF TypeOK
  <1> QED BY <1>3, <1>4 DEF Deletes

\* Accepting fills one empty row of a standing organisation, never with
\* ownership, and changes no other.
LEMMA AcceptEffect ==
    ASSUME TypeOK, NothingOutlives, NEW r \in Reqs, CommitAccept(r)
    PROVE  /\ Active(r) /\ req[r].stage = "checked" /\ Finish(r)
           /\ UNCHANGED <<org, account, unguarded>>
           /\ \A o \in Orgs, u \in Users : role'[o][u] # role[o][u] =>
                /\ role[o][u] = "none" /\ role'[o][u] \in {"member", "admin"}
                /\ org[o] = "live" /\ account[u] = "live"
           /\ \A i \in Invites : inv'[i].state = "written" =>
                inv[i].state = "written" /\ inv'[i].org = inv[i].org
  <1> DEFINE i == req[r].inv
             u == req[r].actor
  <1>1. req[r] \in Requests /\ i \in Invites /\ u \in Users
    BY ActiveIsRequest, NoInviteIsNoRow DEF CommitAccept, Committing, Requests
  <1>2. CASE inv[i].state = "written" /\ account[u] = "live"
    <2>1. /\ inv[i].org \in Orgs /\ inv[i].role \in {"member", "admin"}
          /\ org[inv[i].org] = "live"
          /\ inv[i] \in InviteRows
      BY <1>1, <1>2, RowTypes DEF InvitableRoles, NothingOutlives, TypeOK
    <2>2. /\ role' = [role EXCEPT ![inv[i].org][u] = RoleOnAccept(@, inv[i].role)]
          /\ inv' = [inv EXCEPT ![i].accepted = TRUE]
          /\ UNCHANGED <<org, account, unguarded>>
          /\ Active(r) /\ req[r].stage = "checked" /\ Finish(r)
      BY <1>2 DEF CommitAccept, Committing
    <2>3. \A j \in Invites : inv'[j].state = "written" =>
             inv[j].state = "written" /\ inv'[j].org = inv[j].org
      <3>1. [inv[i] EXCEPT !.accepted = TRUE].org = inv[i].org
        BY <1>1, <1>2 DEF TypeOK, InviteRows, NoRow, Gone
      <3> QED BY <1>1, <1>2, <2>2, <3>1 DEF TypeOK
    <2>4. ASSUME NEW o \in Orgs, NEW w \in Users, role'[o][w] # role[o][w]
          PROVE  /\ role[o][w] = "none" /\ role'[o][w] \in {"member", "admin"}
                 /\ o = inv[i].org /\ w = u
      BY <1>1, <2>1, <2>2, <2>4 DEF RoleOnAccept, TypeOK
    <2>5. \A o \in Orgs, w \in Users : role'[o][w] # role[o][w] =>
                /\ role[o][w] = "none" /\ role'[o][w] \in {"member", "admin"}
                /\ org[o] = "live" /\ account[w] = "live"
      BY <1>2, <2>1, <2>4
    <2> QED BY <2>2, <2>3, <2>5
  <1>3. CASE ~(inv[i].state = "written" /\ account[u] = "live")
    BY <1>3 DEF CommitAccept, Committing
  <1> QED BY <1>2, <1>3

\* Offering and revoking touch invitations only, and an invitation that is
\* written names a standing organisation.
LEMMA InvitingEffect ==
    ASSUME TypeOK, NothingOutlives, NEW r \in Reqs, WritesInvites(r)
    PROVE  /\ Active(r) /\ req[r].stage = "checked" /\ Finish(r)
           /\ UNCHANGED <<org, account, role, unguarded>>
           /\ \A i \in Invites : inv'[i].state = "written" => org[inv'[i].org] = "live"
  <1>0. ASSUME NEW i \in Invites, inv[i].state = "written"
        PROVE  [inv[i] EXCEPT !.revoked = TRUE].org = inv[i].org
    BY <1>0 DEF TypeOK, InviteRows, NoRow, Gone
  <1>1. CASE CommitRevoke(r)
    <2>1. \/ inv' = inv
          \/ inv[req[r].inv].state = "written" /\ inv' = [inv EXCEPT ![req[r].inv].revoked = TRUE]
      BY <1>1 DEF CommitRevoke
    <2>2. \A i \in Invites : inv'[i].state = "written" => org[inv'[i].org] = "live"
      <3>1. ASSUME NEW i \in Invites, inv'[i].state = "written"
            PROVE  org[inv'[i].org] = "live"
        <4>1. CASE inv'[i] = inv[i]
          BY <3>1, <4>1 DEF NothingOutlives
        <4>2. CASE inv'[i] # inv[i]
          <5>1. inv'[i] = [inv[i] EXCEPT !.revoked = TRUE] /\ inv[i].state = "written"
            BY <2>1, <4>2 DEF TypeOK
          <5> QED BY <1>0, <5>1 DEF NothingOutlives
        <4> QED BY <4>1, <4>2
      <3> QED BY <3>1
    <2> QED BY <1>1, <2>2 DEF CommitRevoke, Committing
  <1>2. CASE CommitOffer(r)
    <2>1. PICK o \in req[r].orgs :
            \/ inv' = inv
            \/ /\ inv[req[r].inv] = NoRow /\ org[o] = "live"
               /\ inv' = [i \in Invites |->
                          CASE i = req[r].inv ->
                                 [state |-> "written", org |-> o, addr |-> req[r].target,
                                  role |-> req[r].role, accepted |-> FALSE,
                                  revoked |-> FALSE, expired |-> FALSE]
                            [] i \in Lapsed(o, req[r].target) -> [inv[i] EXCEPT !.revoked = TRUE]
                            [] OTHER -> inv[i]]
      BY <1>2 DEF CommitOffer, Committing, ActiveIsRequest, TypeOK, Requests
    <2>2. ASSUME NEW i \in Invites, inv'[i].state = "written"
          PROVE  org[inv'[i].org] = "live"
      <3>1. CASE inv' = inv
        BY <2>2, <3>1 DEF NothingOutlives
      <3>2. CASE inv' # inv /\ i = req[r].inv
        <4>1. i \notin Lapsed(o, req[r].target)
          BY <2>1, <3>2 DEF Lapsed, Unspent, NoRow
        <4>2. inv'[i].org = o
          BY <2>1, <3>2, <4>1
        <4> QED BY <2>1, <3>2, <4>2
      <3>3. CASE inv' # inv /\ i # req[r].inv /\ i \in Lapsed(o, req[r].target)
        <4>1. inv'[i] = [inv[i] EXCEPT !.revoked = TRUE] /\ inv[i].state = "written"
          BY <2>1, <3>3 DEF Lapsed, Unspent
        <4> QED BY <1>0, <4>1 DEF NothingOutlives
      <3>4. CASE inv' # inv /\ i # req[r].inv /\ i \notin Lapsed(o, req[r].target)
        BY <2>1, <2>2, <3>4 DEF NothingOutlives
      <3> QED BY <3>1, <3>2, <3>3, <3>4
    <2> QED BY <1>2, <2>2 DEF CommitOffer, Committing
  <1> QED BY <1>1, <1>2 DEF WritesInvites

----------------------------------------------------------------------------
(* The inductive invariant.                                                 *)

\* The kinds of step there are, grouped by what they may write.
LEMMA StepCases ==
    ASSUME [Next]_vars
    PROVE  \/ \E r \in Reqs : \/ Arrives(r) \/ TakeLock(r) \/ Decide(r) \/ Ends(r)
                             \/ ChangesRoles(r) \/ Deletes(r) \/ CommitAccept(r)
                             \/ WritesInvites(r)
           \/ \E u \in Users, o \in Orgs : CreateOrganisation(u, o)
           \/ \E i \in Invites : Expire(i)
           \/ UNCHANGED vars
  BY DEF Next, Commit, Arrives, Ends, ChangesRoles, Deletes, WritesInvites

\* No step leaves a membership or an invitation naming what is gone.
LEMMA OutlivesStep ==
    ASSUME TypeOK, NothingOutlives, [Next]_vars
    PROVE  NothingOutlives'
  <1>1. ASSUME NEW r \in Reqs, Arrives(r) \/ TakeLock(r) \/ Decide(r) \/ Ends(r)
        PROVE  NothingOutlives'
    <2>1. UNCHANGED <<org, account, role, inv>>
      BY <1>1, ArrivalShape DEF Arrived, Arrive, TakeLock, Decide, Ends, Refuse,
                               DeadlockVictim, Abort
    <2> QED BY <2>1 DEF NothingOutlives
  <1>2. ASSUME NEW r \in Reqs, ChangesRoles(r) PROVE NothingOutlives'
    BY <1>2, RoleChangeEffect DEF NothingOutlives
  <1>3. ASSUME NEW r \in Reqs, Deletes(r) PROVE NothingOutlives'
    <2>1. ASSUME NEW o \in Orgs, NEW u \in Users, role'[o][u] # "none"
          PROVE  org'[o] = "live" /\ account'[u] = "live"
      BY <1>3, <2>1, DeletionEffect DEF NothingOutlives
    <2>2. ASSUME NEW i \in Invites, inv'[i].state = "written"
          PROVE  org'[inv'[i].org] = "live"
      BY <1>3, <2>2, DeletionEffect DEF NothingOutlives, Gone
    <2> QED BY <2>1, <2>2 DEF NothingOutlives
  <1>4. ASSUME NEW r \in Reqs, CommitAccept(r) PROVE NothingOutlives'
    BY <1>4, AcceptEffect DEF NothingOutlives
  <1>5. ASSUME NEW r \in Reqs, WritesInvites(r) PROVE NothingOutlives'
    BY <1>5, InvitingEffect DEF NothingOutlives
  <1>6. ASSUME NEW u \in Users, NEW o \in Orgs, CreateOrganisation(u, o) PROVE NothingOutlives'
    BY <1>6, RowTypes DEF CreateOrganisation, NothingOutlives, TypeOK
  <1>7. ASSUME NEW i \in Invites, Expire(i) PROVE NothingOutlives'
    <2>1. [inv[i] EXCEPT !.expired = TRUE].org = inv[i].org
      BY <1>7 DEF Expire, TypeOK, InviteRows, NoRow, Gone
    <2>2. \A j \in Invites : inv'[j].state = "written" =>
             inv[j].state = "written" /\ inv'[j].org = inv[j].org
      BY <1>7, <2>1 DEF Expire, TypeOK
    <2> QED BY <1>7, <2>2 DEF Expire, NothingOutlives
  <1>8. CASE UNCHANGED vars
    BY <1>8 DEF vars, NothingOutlives
  <1> QED BY <1>1, <1>2, <1>3, <1>4, <1>5, <1>6, <1>7, <1>8, StepCases

\* A request that has decided holds its locks until it ends.
LEMMA LocksStep ==
    ASSUME TypeOK, NothingOutlives, LocksHeld, [Next]_vars
    PROVE  LocksHeld'
  <1>1. ASSUME NEW r \in Reqs, Arrives(r) PROVE LocksHeld'
    <2>1. PICK what \in Ops, actor, target \in Users, x \in Roles,
               i \in Invites \cup {NoInvite}, orgs \in SUBSET Orgs :
            Arrive(r, what, actor, target, x, i, orgs)
      BY <1>1, ArrivalShape DEF Arrived
    <2>2. /\ req'[r] = Request(what, actor, target, x, i, orgs) /\ lock' = lock
          /\ \A q \in Reqs \ {r} : req'[q] = req[q]
      BY <2>1 DEF Arrive, TypeOK
    <2>3. req'[r].op \in LockingOps => req'[r].stage = "arrived"
      BY <2>2 DEF Request, LockingOps, ReadOnArrival
    <2> QED BY <2>2, <2>3 DEF LocksHeld, Locked, Active
  <1>2. ASSUME NEW r \in Reqs, TakeLock(r) PROVE LocksHeld'
    <2>1. \A o \in Orgs : lock[o] # NoReq => lock'[o] = lock[o]
      BY <1>2 DEF TakeLock, TypeOK
    <2>2. \A q \in Reqs : Active(q) => req[q].orgs \subseteq Orgs
      BY ActiveIsRequest DEF Requests
    <2> QED BY <1>2, <2>1, <2>2, NoReqIsNoRequest DEF LocksHeld, Locked, Active, TakeLock
  <1>3. ASSUME NEW r \in Reqs, Decide(r) PROVE LocksHeld'
    <2>1. req[r] \in Requests
      BY <1>3, ActiveIsRequest DEF Decide, Deciding
    <2>2. /\ req'[r].op = req[r].op /\ req'[r].orgs = req[r].orgs /\ lock' = lock
          /\ \A q \in Reqs \ {r} : req'[q] = req[q]
      BY <1>3, <2>1 DEF Decide, TypeOK, Requests
    <2>3. Locked(r) => \A o \in req[r].orgs : lock[o] = r
      BY <1>3, <2>1 DEF Decide, Deciding, Todo, HeldBy, Requests
    <2>4. Active(r)
      BY <1>3 DEF Decide, Deciding
    <2> QED BY <2>2, <2>3, <2>4 DEF LocksHeld, Locked, Active
  <1>4. ASSUME NEW r \in Reqs, Finish(r) PROVE LocksHeld'
    <2>1. \A q \in Reqs : Active(q) => req[q].orgs \subseteq Orgs
      BY ActiveIsRequest DEF Requests
    <2> QED BY <1>4, <2>1, FinishShape DEF LocksHeld, Locked, Active
  <1>5. ASSUME NEW r \in Reqs,
               Ends(r) \/ ChangesRoles(r) \/ Deletes(r) \/ CommitAccept(r) \/ WritesInvites(r)
        PROVE  LocksHeld'
    <2>1. Finish(r)
      BY <1>5, RoleChangeEffect, DeletionEffect, AcceptEffect, InvitingEffect
         DEF Ends, Refuse, DeadlockVictim, Abort
    <2> QED BY <1>4, <2>1
  <1>6. ASSUME UNCHANGED <<req, lock>> PROVE LocksHeld'
    BY <1>6 DEF LocksHeld, Locked, Active
  <1> QED BY <1>1, <1>2, <1>3, <1>5, <1>6, StepCases DEF CreateOrganisation, Expire, vars

\* A request names no organisation that is yet to be created.
LEMMA NamesStep ==
    ASSUME TypeOK, NothingOutlives, NamesExist, [Next]_vars
    PROVE  NamesExist'
  <1>0. \A q \in Reqs : Active(q) => req[q].orgs \subseteq Orgs
    BY ActiveIsRequest DEF Requests
  <1>1. ASSUME NEW r \in Reqs, Arrives(r) PROVE NamesExist'
    <2>1. PICK what \in Ops, actor, target \in Users, x \in Roles,
               i \in Invites \cup {NoInvite}, orgs \in SUBSET Orgs :
            Arrive(r, what, actor, target, x, i, orgs) /\ \A o \in orgs : org[o] = "live"
      BY <1>1, ArrivalShape DEF Arrived
    <2>2. /\ req'[r] = Request(what, actor, target, x, i, orgs) /\ org' = org
          /\ \A q \in Reqs \ {r} : req'[q] = req[q]
      BY <2>1 DEF Arrive, TypeOK
    <2> QED BY <2>1, <2>2 DEF NamesExist, Active, Request
  <1>2. ASSUME NEW r \in Reqs, Decide(r) PROVE NamesExist'
    <2>1. req[r] \in Requests /\ Active(r)
      BY <1>2, ActiveIsRequest DEF Decide, Deciding
    <2>2. /\ req'[r].orgs = req[r].orgs /\ org' = org
          /\ \A q \in Reqs \ {r} : req'[q] = req[q]
      BY <1>2, <2>1 DEF Decide, TypeOK, Requests
    <2> QED BY <2>1, <2>2 DEF NamesExist, Active
  <1>3. ASSUME NEW r \in Reqs, TakeLock(r) PROVE NamesExist'
    BY <1>3 DEF TakeLock, NamesExist, Active
  <1>4. ASSUME NEW r \in Reqs, Finish(r), \A o \in Orgs : org'[o] = org[o] \/ org'[o] = "deleted"
        PROVE  NamesExist'
    BY <1>0, <1>4, FinishShape DEF NamesExist, Active
  <1>5. ASSUME NEW r \in Reqs,
               Ends(r) \/ ChangesRoles(r) \/ Deletes(r) \/ CommitAccept(r) \/ WritesInvites(r)
        PROVE  NamesExist'
    <2>1. Finish(r) /\ \A o \in Orgs : org'[o] = org[o] \/ org'[o] = "deleted"
      BY <1>5, RoleChangeEffect, DeletionEffect, AcceptEffect, InvitingEffect
         DEF Ends, Refuse, DeadlockVictim, Abort
    <2> QED BY <1>4, <2>1
  <1>6. ASSUME NEW u \in Users, NEW o \in Orgs, CreateOrganisation(u, o) PROVE NamesExist'
    BY <1>0, <1>6 DEF CreateOrganisation, NamesExist, Active, TypeOK
  <1>7. ASSUME UNCHANGED <<req, org>> PROVE NamesExist'
    BY <1>7 DEF NamesExist, Active
  <1> QED BY <1>1, <1>2, <1>3, <1>5, <1>6, <1>7, StepCases DEF Expire, vars

\* The step changes nobody's role in o, but may let people in as less than owners.
OnlyJoins(o) ==
    \A w \in Users : role'[o][w] # role[o][w] =>
        role[o][w] = "none" /\ role'[o][w] \in {"member", "admin"}

\* What a request relies on survives people joining without ownership.
LEMMA StillMayKept ==
    ASSUME NEW q \in Requests, NEW o \in Orgs, StillMay(q, o), OnlyJoins(o)
    PROVE  StillMay(q, o)'
  <1> USE DEF OnlyJoins
  <1>1. q.actor \in Users /\ q.target \in Users
    BY DEF Requests
  <1>2. ASSUME NEW u \in Users, NotLastOwner(o, u) PROVE NotLastOwner(o, u)'
    BY <1>2 DEF NotLastOwner, Owners
  <1>3. CASE q.op = "set_role"
    BY <1>1, <1>2, <1>3 DEF StillMay
  <1>4. CASE q.op = "remove"
    <2>1. role'[o][q.target] # "none" /\ (q.actor # q.target => role'[o][q.actor] = "owner")
      BY <1>1, <1>4 DEF StillMay
    <2> QED BY <1>1, <1>2, <1>4, <2>1 DEF StillMay
  <1>5. CASE q.op = "transfer"
    BY <1>1, <1>5 DEF StillMay
  <1>6. CASE q.op = "erase"
    BY <1>1, <1>2, <1>6 DEF StillMay
  <1>7. CASE q.op \notin {"set_role", "remove", "transfer", "erase"}
    BY <1>7 DEF StillMay
  <1> QED BY <1>3, <1>4, <1>5, <1>6, <1>7

\* What the handler reads under the lock is what it goes on relying on.
LEMMA DecideEstablishes ==
    ASSUME TypeOK, NEW r \in Reqs, Decide(r), NEW o \in req[r].orgs
    PROVE  StillMay(req'[r], o)
  <1> DEFINE q == req[r]
             d == req'[r]
  <1>1. /\ q \in Requests /\ Passes(r) /\ o \in Orgs
        /\ q.op = "erase" => d.doomed = Doomed(q.actor)
        /\ d.op = q.op /\ d.actor = q.actor /\ d.target = q.target /\ d.role = q.role
        /\ d.orgs = q.orgs
    BY ActiveIsRequest DEF Decide, Deciding, TypeOK, Requests
  <1>2. q.actor \in Users /\ q.target \in Users
    BY <1>1 DEF Requests
  <1>3. CASE q.op = "set_role"
    BY <1>1, <1>3 DEF Passes, MaySetRole, StillMay
  <1>4. CASE q.op = "remove"
    BY <1>1, <1>4 DEF Passes, MayRemove, StillMay
  <1>5. CASE q.op = "transfer"
    BY <1>1, <1>5 DEF Passes, MayTransfer, StillMay, Requests
  <1>6. CASE q.op = "erase"
    <2>1. Blocked(q.actor) = {}
      BY <1>1, <1>6 DEF Passes
    <2>2. o \notin Doomed(q.actor) => NotLastOwner(o, q.actor)
      BY <1>1, <1>2, <2>1 DEF Blocked, OrgsOf, NotLastOwner
    <2> QED BY <1>1, <1>6, <2>2 DEF StillMay
  <1>7. CASE q.op \notin {"set_role", "remove", "transfer", "erase"}
    BY <1>1, <1>7 DEF StillMay
  <1> QED BY <1>3, <1>4, <1>5, <1>6, <1>7

\* A request that stays decided keeps what it relies on, when a step leaves its
\* organisation's standing and the rows of its members alone.
LEMMA DecisionsKept ==
    ASSUME TypeOK, DecisionsHold, req' \in [Reqs -> Requests \cup {Idle}],
           \A q \in Reqs, o \in Orgs :
              Locked(q)' /\ req'[q].stage = "checked" /\ o \in req'[q].orgs /\ Guarded(o)'
              => req'[q] = req[q] /\ Guarded(o) /\ OnlyJoins(o)
    PROVE  DecisionsHold'
  <1> SUFFICES ASSUME NEW q \in Reqs, Active(q)', req'[q].stage = "checked",
                      NEW o \in req'[q].orgs, Guarded(o)'
               PROVE  StillMay(req[q], o)'
    BY DEF DecisionsHold
  <1>1. req'[q] \in Requests /\ o \in Orgs
    BY DEF Active, Idle, Requests
  <1>2. CASE req'[q].op \in LockingOps
    <2>1. req'[q] = req[q] /\ Guarded(o) /\ OnlyJoins(o)
      BY <1>1, <1>2 DEF Locked
    <2>2. PICK k \in Requests : k = req[q]
      BY <1>1, <2>1
    <2>3. StillMay(k, o)
      BY <2>1, <2>2 DEF DecisionsHold, Active
    <2>4. StillMay(k, o)'
      BY <1>1, <2>1, <2>3, StillMayKept
    <2> QED BY <2>1, <2>2, <2>4 DEF StillMay, NotLastOwner, Owners
  <1>3. CASE req'[q].op \notin LockingOps
    BY <1>3 DEF StillMay, LockingOps
  <1> QED BY <1>2, <1>3

\* No step of anybody takes away what a decided request relies on.
LEMMA DecisionsStep ==
    ASSUME IInv, [Next]_vars
    PROVE  DecisionsHold'
  <1> USE DEF IInv
  <1>t. req' \in [Reqs -> Requests \cup {Idle}]
    BY TypeStep DEF TypeOK
  <1>0. \A q \in Reqs : Active(q) => req[q] \in Requests /\ req[q].orgs \subseteq Orgs
    BY ActiveIsRequest DEF Requests
  <1>1. ASSUME NEW r \in Reqs, Arrives(r) PROVE DecisionsHold'
    <2>1. PICK what \in Ops, actor, target \in Users, x \in Roles,
               i \in Invites \cup {NoInvite}, orgs \in SUBSET Orgs :
            Arrive(r, what, actor, target, x, i, orgs)
      BY <1>1, ArrivalShape DEF Arrived
    <2>2. /\ req'[r] = Request(what, actor, target, x, i, orgs)
          /\ UNCHANGED <<org, role, unguarded>>
          /\ \A q \in Reqs \ {r} : req'[q] = req[q]
      BY <2>1 DEF Arrive, TypeOK
    <2>3. req'[r].stage = "checked" => req'[r].op \in ReadOnArrival
      BY <2>2 DEF Request
    <2> QED BY <2>2, <2>3 DEF DecisionsHold, StillMay, ReadOnArrival, Guarded, NotLastOwner,
                              Owners, Active
  <1>2. ASSUME NEW r \in Reqs, Decide(r) PROVE DecisionsHold'
    <2>1. /\ UNCHANGED <<org, role, unguarded>>
          /\ req'[r].orgs = req[r].orgs
          /\ \A q \in Reqs \ {r} : req'[q] = req[q]
      BY <1>2, <1>0 DEF Decide, Deciding, TypeOK, Requests
    <2>2. \A o \in req[r].orgs : StillMay(req'[r], o)
      BY <1>2, DecideEstablishes
    <2> QED BY <2>1, <2>2 DEF DecisionsHold, StillMay, Guarded, NotLastOwner, Owners, Active
  <1>3. ASSUME UNCHANGED <<org, role, unguarded>>,
               \A q \in Reqs : Active(q)' => req'[q] = req[q]
        PROVE  DecisionsHold'
    BY <1>3 DEF DecisionsHold, StillMay, Guarded, NotLastOwner, Owners, Active
  <1>4. ASSUME NEW r \in Reqs, TakeLock(r) PROVE DecisionsHold'
    BY <1>3, <1>4 DEF TakeLock
  <1>5. ASSUME NEW r \in Reqs, Ends(r) \/ WritesInvites(r) PROVE DecisionsHold'
    <2>1. Finish(r) /\ UNCHANGED <<org, role, unguarded>>
      BY <1>5, InvitingEffect DEF Ends, Refuse, DeadlockVictim, Abort
    <2> QED BY <1>3, <2>1, FinishShape DEF Active
  <1>f. ASSUME NEW r \in Reqs, Finish(r), NEW q \in Reqs, Active(q)'
        PROVE  q # r /\ req'[q] = req[q]
    BY <1>f, FinishShape
  <1>6. ASSUME NEW r \in Reqs, ChangesRoles(r) PROVE DecisionsHold'
    <2>1. /\ Locked(r) /\ req[r].stage = "checked" /\ Finish(r)
          /\ UNCHANGED <<org, unguarded>>
          /\ \A o \in Orgs, u \in Users : role'[o][u] # role[o][u] => o \in req[r].orgs
      BY <1>6, RoleChangeEffect
    <2>2. ASSUME NEW q \in Reqs, NEW o \in Orgs, Locked(q)', req'[q].stage = "checked",
                 o \in req'[q].orgs, Guarded(o)'
          PROVE  req'[q] = req[q] /\ Guarded(o) /\ OnlyJoins(o)
      <3>1. q # r /\ req'[q] = req[q]
        BY <1>f, <2>1, <2>2 DEF Locked
      <3>2. lock[o] = q
        BY <2>2, <3>1 DEF LocksHeld, Locked, Active
      <3>3. o \notin req[r].orgs
        BY <2>1, <3>1, <3>2 DEF LocksHeld
      <3> QED BY <2>1, <2>2, <3>1, <3>3 DEF OnlyJoins, Guarded
    <2> QED BY <1>t, <2>2, DecisionsKept
  <1>7. ASSUME NEW r \in Reqs, Deletes(r) PROVE DecisionsHold'
    <2>1. /\ Active(r) /\ req[r].stage = "checked" /\ Finish(r)
          /\ unguarded \subseteq unguarded'
          /\ \A o \in Orgs : Guarded(o)' => Guarded(o)
          /\ \A o \in Orgs, u \in Users : Guarded(o)' /\ role'[o][u] # role[o][u] =>
               req[r].op = "erase" /\ o \in req[r].orgs
      BY <1>7, DeletionEffect DEF Guarded
    <2>2. ASSUME NEW q \in Reqs, NEW o \in Orgs, Locked(q)', req'[q].stage = "checked",
                 o \in req'[q].orgs, Guarded(o)'
          PROVE  req'[q] = req[q] /\ Guarded(o) /\ OnlyJoins(o)
      <3>1. q # r /\ req'[q] = req[q]
        BY <1>f, <2>1, <2>2 DEF Locked
      <3>2. lock[o] = q
        BY <2>2, <3>1 DEF LocksHeld, Locked, Active
      <3>3. req[r].op = "erase" => o \notin req[r].orgs
        BY <2>1, <3>1, <3>2 DEF LocksHeld, Locked, LockingOps
      <3> QED BY <2>1, <2>2, <3>1, <3>3 DEF OnlyJoins
    <2> QED BY <1>t, <2>2, DecisionsKept
  <1>8. ASSUME NEW r \in Reqs, CommitAccept(r) PROVE DecisionsHold'
    <2>1. /\ Finish(r) /\ UNCHANGED <<org, unguarded>>
          /\ \A o \in Orgs : OnlyJoins(o)
      BY <1>8, AcceptEffect DEF OnlyJoins
    <2> QED BY <1>t, <1>f, <2>1, DecisionsKept DEF Guarded, Locked
  <1>9. ASSUME NEW u \in Users, NEW o \in Orgs, CreateOrganisation(u, o) PROVE DecisionsHold'
    <2>1. \A p \in Orgs \ {o} : org'[p] = org[p] /\ role'[p] = role[p]
      BY <1>9 DEF CreateOrganisation, TypeOK
    <2>2. UNCHANGED <<req, unguarded>> /\ org[o] = "unused"
      BY <1>9 DEF CreateOrganisation
    <2>3. ASSUME NEW q \in Reqs, NEW p \in Orgs, Locked(q)', p \in req'[q].orgs, Guarded(p)'
          PROVE  req'[q] = req[q] /\ Guarded(p) /\ OnlyJoins(p)
      <3>1. p # o
        BY <2>2, <2>3 DEF NamesExist, Locked, Active
      <3> QED BY <2>1, <2>2, <2>3, <3>1 DEF Guarded, OnlyJoins
    <2> QED BY <1>t, <2>3, DecisionsKept
  <1>10. ASSUME NEW i \in Invites, Expire(i) PROVE DecisionsHold'
    BY <1>3, <1>10 DEF Expire
  <1>11. CASE UNCHANGED vars
    BY <1>3, <1>11 DEF vars
  <1> QED BY <1>1, <1>2, <1>4, <1>5, <1>6, <1>7, <1>8, <1>9, <1>10, <1>11, StepCases

\* The rows a role change leaves in the organisation it names.
LEMMA RoleChangeKeepsAnOwner ==
    ASSUME IInv, NEW r \in Reqs, ChangesRoles(r), NEW o \in Orgs, Guarded(o)
    PROVE  \E w \in Users : role'[o][w] = "owner"
  <1> USE DEF IInv
  <1>0. PICK v \in Users : role[o][v] = "owner"
    BY DEF OwnerAlways, Owners
  <1>1. /\ Active(r) /\ req[r].stage = "checked" /\ req[r] \in Requests
        /\ req[r].actor \in Users /\ req[r].target \in Users
    BY RoleChangeEffect, ActiveIsRequest DEF Locked, Requests
  <1>2. CASE o \notin req[r].orgs
    BY <1>0, <1>2, RoleChangeEffect
  <1>3. CASE o \in req[r].orgs
    <2>1. StillMay(req[r], o)
      BY <1>1, <1>3 DEF DecisionsHold
    <2>2. CASE CommitSetRole(r)
      <3>1. PICK p \in req[r].orgs :
              \/ role' = role
              \/ role[p][req[r].target] # "none" /\ role' = [role EXCEPT ![p][req[r].target] = req[r].role]
        BY <2>2 DEF CommitSetRole
      <3>2. req[r].role # "owner" => \E w \in Users : role[o][w] = "owner" /\ w # req[r].target
        BY <1>0, <1>1, <2>1, <2>2 DEF StillMay, NotLastOwner, Owners, CommitSetRole, Committing
      <3> QED BY <1>0, <1>1, <1>3, <3>1, <3>2 DEF TypeOK
    <2>3. CASE CommitRemove(r)
      <3>1. PICK p \in req[r].orgs : role' = [role EXCEPT ![p][req[r].target] = "none"]
        BY <2>3 DEF CommitRemove
      <3>2. \E w \in Users : role[o][w] = "owner" /\ w # req[r].target
        BY <1>0, <1>1, <2>1, <2>3 DEF StillMay, NotLastOwner, Owners, CommitRemove, Committing
      <3> QED BY <1>0, <1>1, <1>3, <3>1, <3>2 DEF TypeOK
    <2>4. CASE CommitTransfer(r)
      <3>1. PICK p \in req[r].orgs :
              \/ role' = role
              \/ role' = [role EXCEPT ![p] = [@ EXCEPT ![req[r].target] = "owner",
                                                     ![req[r].actor] = req[r].role]]
        BY <2>4 DEF CommitTransfer
      <3>2. req[r].target # req[r].actor
        BY <1>1, <2>4 DEF CommitTransfer, Committing, Requests
      <3>3. CASE p = o
        BY <1>0, <1>1, <3>1, <3>2, <3>3 DEF TypeOK
      <3>4. CASE p # o
        BY <1>0, <1>1, <3>1, <3>4 DEF TypeOK, Requests
      <3> QED BY <3>3, <3>4
    <2> QED BY <2>2, <2>3, <2>4 DEF ChangesRoles
  <1> QED BY <1>2, <1>3

\* No step takes the last owner from a guarded organisation.
LEMMA OwnerStep ==
    ASSUME IInv, [Next]_vars
    PROVE  OwnerAlways'
  <1> USE DEF IInv
  <1>1. ASSUME UNCHANGED <<org, role, unguarded>> PROVE OwnerAlways'
    BY <1>1 DEF OwnerAlways, Guarded, Owners
  <1>2. ASSUME NEW r \in Reqs,
               Arrives(r) \/ TakeLock(r) \/ Decide(r) \/ Ends(r) \/ WritesInvites(r)
        PROVE  OwnerAlways'
    <2>1. UNCHANGED <<org, role, unguarded>>
      BY <1>2, ArrivalShape, InvitingEffect
         DEF Arrived, Arrive, TakeLock, Decide, Ends, Refuse, DeadlockVictim, Abort
    <2> QED BY <1>1, <2>1
  <1>3. ASSUME NEW r \in Reqs, ChangesRoles(r) PROVE OwnerAlways'
    BY <1>3, RoleChangeEffect, RoleChangeKeepsAnOwner DEF OwnerAlways, Guarded, Owners
  <1>4. ASSUME NEW r \in Reqs, Deletes(r) PROVE OwnerAlways'
    <2>1. /\ Active(r) /\ req[r].stage = "checked" /\ req[r] \in Requests
          /\ \A o \in Orgs : Guarded(o)' => Guarded(o)
          /\ \A o \in Orgs, u \in Users : Guarded(o)' /\ role'[o][u] # role[o][u] =>
               req[r].op = "erase" /\ u = req[r].actor /\ o \in req[r].orgs \ req[r].doomed
      BY <1>4, DeletionEffect, ActiveIsRequest DEF Guarded
    <2>2. ASSUME NEW o \in Orgs, Guarded(o)' PROVE \E w \in Users : role'[o][w] = "owner"
      <3>1. PICK v \in Users : role[o][v] = "owner"
        BY <2>1, <2>2 DEF OwnerAlways, Owners
      <3>2. CASE role'[o][v] = role[o][v]
        BY <3>1, <3>2
      <3>3. CASE role'[o][v] # role[o][v]
        <4>1. req[r].op = "erase" /\ v = req[r].actor /\ o \in req[r].orgs \ req[r].doomed
          BY <2>1, <2>2, <3>3
        <4>2. StillMay(req[r], o)
          BY <2>1, <2>2, <4>1 DEF DecisionsHold
        <4>3. PICK w \in Users : role[o][w] = "owner" /\ w # v
          BY <3>1, <4>1, <4>2 DEF StillMay, NotLastOwner, Owners
        <4> QED BY <2>1, <2>2, <4>1, <4>3
      <3> QED BY <3>2, <3>3
    <2> QED BY <2>2 DEF OwnerAlways, Owners
  <1>5. ASSUME NEW r \in Reqs, CommitAccept(r) PROVE OwnerAlways'
    <2>1. /\ UNCHANGED <<org, unguarded>>
          /\ \A o \in Orgs, u \in Users : role[o][u] = "owner" => role'[o][u] = "owner"
      BY <1>5, AcceptEffect
    <2> QED BY <2>1 DEF OwnerAlways, Guarded, Owners
  <1>6. ASSUME NEW u \in Users, NEW o \in Orgs, CreateOrganisation(u, o) PROVE OwnerAlways'
    BY <1>6 DEF CreateOrganisation, OwnerAlways, Guarded, Owners, TypeOK
  <1>7. ASSUME NEW i \in Invites, Expire(i) PROVE OwnerAlways'
    BY <1>1, <1>7 DEF Expire
  <1>8. CASE UNCHANGED vars
    BY <1>1, <1>8 DEF vars
  <1> QED BY <1>2, <1>3, <1>4, <1>5, <1>6, <1>7, <1>8, StepCases

\* The rows the product starts from satisfy the invariant.
LEMMA InitEstablishes == Init => IInv
  <1> SUFFICES ASSUME Init PROVE IInv
    OBVIOUS
  <1>1. TypeOK
    BY DEF Init, TypeOK, InviteRows
  <1>2. NothingOutlives
    BY DEF Init, NothingOutlives, Members, NoRow
  <1>3. LocksHeld /\ NamesExist /\ DecisionsHold
    BY DEF Init, LocksHeld, NamesExist, DecisionsHold, Locked, Active, Idle
  <1>4. OwnerAlways
    BY DEF Init, OwnerAlways, Guarded
  <1> QED BY <1>1, <1>2, <1>3, <1>4 DEF IInv

\* The whole invariant: rows are well formed, locks are held where decisions
\* rest on them, and those decisions are still right when they are written.
THEOREM Invariance == Spec => []IInv
  <1>1. Init => IInv
    BY InitEstablishes
  <1>2. IInv /\ [Next]_vars => IInv'
    BY TypeStep, OutlivesStep, LocksStep, NamesStep, OwnerStep, DecisionsStep DEF IInv
  <1> QED BY <1>1, <1>2, PTL DEF Spec

\* Every reachable state is well typed.
THEOREM TypeCorrect == Spec => []TypeOK
  <1>1. IInv => TypeOK
    BY DEF IInv
  <1> QED BY <1>1, Invariance, PTL

\* No organisation is left with nobody in charge, however many people act on
\* it at once, unless an erasure never took its lock.
THEOREM NeverOwnerless == Spec => []OwnerAlways
  <1>1. IInv => OwnerAlways
    BY DEF IInv
  <1> QED BY <1>1, Invariance, PTL

\* Nothing outlives the organisation or the person it names.
THEOREM NothingIsLeftBehind == Spec => []NothingOutlives
  <1>1. IInv => NothingOutlives
    BY DEF IInv
  <1> QED BY <1>1, Invariance, PTL

\* What was decided under the lock still holds at the commit.
THEOREM DecisionsStand == Spec => []DecisionsHold
  <1>1. IInv => DecisionsHold
    BY DEF IInv
  <1> QED BY <1>1, Invariance, PTL

----------------------------------------------------------------------------
(* Who may do it.                                                           *)

\* The step's own rule, for one row.
ByAnOwner(o, u) ==
    \E r \in Reqs :
      /\ Active(r) /\ ~Active(r)' /\ o \in req[r].orgs
      /\ \/ role[o][req[r].actor] = "owner"
         \/ req[r].actor = u /\ role'[o][u] = "none"

\* A role change is the work of a request that ends with it, whose actor owns
\* the organisation or is the one who leaves.
LEMMA RoleChangeIsAuthorised ==
    ASSUME IInv, NEW r \in Reqs, ChangesRoles(r), NEW o \in Orgs, NEW u \in Users,
           Guarded(o), role'[o][u] # role[o][u]
    PROVE  ByAnOwner(o, u)
  <1> USE DEF IInv
  <1>1. /\ Active(r) /\ ~Active(r)' /\ req[r].stage = "checked" /\ req[r] \in Requests
        /\ o \in req[r].orgs
    BY RoleChangeEffect, FinishShape, ActiveIsRequest DEF Locked
  <1>2. StillMay(req[r], o)
    BY <1>1 DEF DecisionsHold
  <1>3. CASE CommitSetRole(r)
    BY <1>1, <1>2, <1>3 DEF StillMay, CommitSetRole, Committing, ByAnOwner
  <1>4. CASE CommitRemove(r)
    <2>1. req[r].actor # req[r].target => role[o][req[r].actor] = "owner"
      BY <1>2, <1>4 DEF StillMay, CommitRemove, Committing
    <2>2. u = req[r].target /\ role'[o][u] = "none"
      BY <1>1, <1>4 DEF CommitRemove, TypeOK, Requests
    <2> QED BY <1>1, <2>1, <2>2 DEF ByAnOwner
  <1>5. CASE CommitTransfer(r)
    BY <1>1, <1>2, <1>5 DEF StillMay, CommitTransfer, Committing, ByAnOwner
  <1> QED BY <1>3, <1>4, <1>5 DEF ChangesRoles

\* The same of every step, deletions and acceptances included.
LEMMA StepIsAuthorised ==
    ASSUME IInv, [Next]_vars, NEW o \in Orgs, NEW u \in Users,
           Guarded(o), Guarded(o)', role[o][u] # "none", role'[o][u] # role[o][u]
    PROVE  ByAnOwner(o, u)
  <1> USE DEF IInv
  <1>1. ASSUME UNCHANGED role PROVE FALSE
    BY <1>1
  <1>2. ASSUME NEW r \in Reqs,
               Arrives(r) \/ TakeLock(r) \/ Decide(r) \/ Ends(r) \/ WritesInvites(r)
        PROVE  FALSE
    BY <1>1, <1>2, ArrivalShape, InvitingEffect
       DEF Arrived, Arrive, TakeLock, Decide, Ends, Refuse, DeadlockVictim, Abort
  <1>3. ASSUME NEW r \in Reqs, ChangesRoles(r) PROVE ByAnOwner(o, u)
    BY <1>3, RoleChangeIsAuthorised
  <1>4. ASSUME NEW r \in Reqs, Deletes(r) PROVE ByAnOwner(o, u)
    <2>1. Active(r) /\ ~Active(r)' /\ u = req[r].actor /\ o \in req[r].orgs /\ role'[o][u] = "none"
      BY <1>4, DeletionEffect, FinishShape
    <2> QED BY <2>1 DEF ByAnOwner
  <1>5. ASSUME NEW r \in Reqs, CommitAccept(r) PROVE FALSE
    BY <1>5, AcceptEffect
  <1>6. ASSUME NEW w \in Users, NEW p \in Orgs, CreateOrganisation(w, p) PROVE FALSE
    BY <1>6 DEF CreateOrganisation, Guarded, TypeOK
  <1> QED BY <1>1, <1>2, <1>3, <1>4, <1>5, <1>6, StepCases DEF Expire, vars

\* Nobody's role is changed, and nobody is put out, except by somebody who owns
\* the organisation at that commit; anybody may leave.
THEOREM OnlyOwnersAct == Spec => OnlyOwnersRule
  <1>1. IInv /\ [Next]_vars =>
          [\A o \in Orgs, u \in Users :
             (Guarded(o) /\ Guarded(o)' /\ role[o][u] # "none" /\ role'[o][u] # role[o][u])
             => \E r \in Reqs :
                  /\ Active(r) /\ ~Active(r)' /\ o \in req[r].orgs
                  /\ \/ role[o][req[r].actor] = "owner"
                     \/ req[r].actor = u /\ role'[o][u] = "none"]_vars
    BY StepIsAuthorised DEF ByAnOwner
  <1> QED BY <1>1, Invariance, PTL DEF Spec, OnlyOwnersRule

\* Nobody comes to own a standing organisation from outside it.
THEOREM OwnersWereMembers == Spec => OwnersComeFromMembers
  <1>1. ASSUME IInv, [Next]_vars, NEW o \in Orgs, NEW u \in Users,
               org[o] = "live", role'[o][u] = "owner", role[o][u] = "none"
        PROVE  FALSE
    <2> USE DEF IInv
    <2>1. role' # role
      BY <1>1
    <2>2. ASSUME NEW r \in Reqs PROVE ~ChangesRoles(r)
      BY <1>1, <2>2, RoleChangeEffect
    <2>3. ASSUME NEW r \in Reqs PROVE ~Deletes(r)
      BY <1>1, <2>3, DeletionEffect
    <2>4. ASSUME NEW r \in Reqs PROVE ~CommitAccept(r)
      BY <1>1, <2>4, AcceptEffect
    <2>5. ASSUME NEW w \in Users, NEW p \in Orgs PROVE ~CreateOrganisation(w, p)
      BY <1>1, <2>5 DEF CreateOrganisation, TypeOK
    <2>6. ASSUME NEW r \in Reqs
          PROVE  ~(Arrives(r) \/ TakeLock(r) \/ Decide(r) \/ Ends(r) \/ WritesInvites(r))
      BY <1>1, <2>1, ArrivalShape, InvitingEffect
         DEF Arrived, Arrive, TakeLock, Decide, Ends, Refuse, DeadlockVictim, Abort
    <2> QED BY <1>1, <2>1, <2>2, <2>3, <2>4, <2>5, <2>6, StepCases DEF Expire, vars
  <1>2. IInv /\ [Next]_vars =>
          [\A o \in Orgs, u \in Users :
             org[o] = "live" /\ role'[o][u] = "owner" => role[o][u] # "none"]_vars
    BY <1>1
  <1> QED BY <1>2, Invariance, PTL DEF Spec, OwnersComeFromMembers

----------------------------------------------------------------------------
(* Invitations.                                                             *)

\* What the unique index keeps, the clock left out of it.
OneUnspent ==
    \A i, j \in Invites :
        Unspent(i) /\ Unspent(j) /\ inv[i].org = inv[j].org /\ inv[i].addr = inv[j].addr
        => i = j

\* Updating a written row leaves its other fields as they are.
LEMMA RowUpdates ==
    ASSUME TypeOK, NEW i \in Invites, inv[i].state = "written"
    PROVE  /\ inv[i].accepted \in BOOLEAN /\ inv[i].revoked \in BOOLEAN
           /\ LET x == [inv[i] EXCEPT !.accepted = TRUE] IN x.accepted
           /\ LET x == [inv[i] EXCEPT !.expired = TRUE]
              IN x.org = inv[i].org /\ x.addr = inv[i].addr /\ x.accepted = inv[i].accepted
                 /\ x.revoked = inv[i].revoked
           /\ LET x == [inv[i] EXCEPT !.revoked = TRUE]
              IN x.accepted = inv[i].accepted /\ x.revoked
  <1>1. inv[i] \in [state : {"written"}, org : Orgs, addr : Users, role : InvitableRoles,
                    accepted : BOOLEAN, revoked : BOOLEAN, expired : BOOLEAN]
    BY DEF TypeOK, InviteRows, NoRow, Gone
  <1> QED BY <1>1

\* A new row of an offer, and the lapsed ones it closes.
LEMMA OfferEffect ==
    ASSUME TypeOK, NEW r \in Reqs, CommitOffer(r), inv' # inv
    PROVE  \E o \in Orgs, new \in Invites :
             /\ ~Clash(o, req[r].target)
             /\ inv[new] = NoRow
             /\ inv'[new].org = o /\ inv'[new].addr = req[r].target /\ ~inv'[new].accepted
             /\ \A i \in Invites \ {new} :
                  inv'[i] = IF i \in Lapsed(o, req[r].target)
                            THEN [inv[i] EXCEPT !.revoked = TRUE] ELSE inv[i]
  <1>1. req[r] \in Requests /\ req[r].inv \in Invites
    BY ActiveIsRequest DEF CommitOffer, Committing, Requests
  <1>2. PICK o \in req[r].orgs :
          /\ ~Clash(o, req[r].target) /\ inv[req[r].inv] = NoRow
          /\ inv' = [i \in Invites |->
                     CASE i = req[r].inv ->
                            [state |-> "written", org |-> o, addr |-> req[r].target,
                             role |-> req[r].role, accepted |-> FALSE,
                             revoked |-> FALSE, expired |-> FALSE]
                       [] i \in Lapsed(o, req[r].target) -> [inv[i] EXCEPT !.revoked = TRUE]
                       [] OTHER -> inv[i]]
    BY DEF CommitOffer
  <1>3. o \in Orgs
    BY <1>1 DEF Requests
  <1>4. req[r].inv \notin Lapsed(o, req[r].target)
    BY <1>2 DEF Lapsed, Unspent, NoRow
  <1>5. inv'[req[r].inv] = [state |-> "written", org |-> o, addr |-> req[r].target,
                            role |-> req[r].role, accepted |-> FALSE,
                            revoked |-> FALSE, expired |-> FALSE]
    BY <1>1, <1>2, <1>4
  <1>6. \A i \in Invites \ {req[r].inv} :
          inv'[i] = IF i \in Lapsed(o, req[r].target)
                    THEN [inv[i] EXCEPT !.revoked = TRUE] ELSE inv[i]
    BY <1>2
  <1> QED BY <1>1, <1>2, <1>3, <1>5, <1>6

\* Nothing but an offer makes a row unspent, or changes what it is for; nothing
\* but an acceptance marks it accepted.
LEMMA OtherwiseSpent ==
    ASSUME IInv, [Next]_vars, NEW i \in Invites
    PROVE  /\ (\A r \in Reqs : ~CommitOffer(r)) /\ Unspent(i)' =>
                Unspent(i) /\ inv'[i].org = inv[i].org /\ inv'[i].addr = inv[i].addr
           /\ /\ IsOpen(i) /\ inv'[i].state = "written" /\ inv'[i].accepted
              => \E r \in Reqs : CommitAccept(r)
  <1> USE DEF IInv
  <1>1. CASE inv'[i] = inv[i]
    BY <1>1 DEF Unspent, IsOpen
  <1>2. ASSUME inv'[i] # inv[i], NEW r \in Reqs, CommitOffer(r)
        PROVE  IsOpen(i) /\ inv'[i].state = "written" => ~inv'[i].accepted
    <2>1. PICK o \in Orgs, new \in Invites :
             /\ inv[new] = NoRow /\ ~inv'[new].accepted
             /\ \A j \in Invites \ {new} :
                  inv'[j] = IF j \in Lapsed(o, req[r].target)
                            THEN [inv[j] EXCEPT !.revoked = TRUE] ELSE inv[j]
      BY <1>2, OfferEffect
    <2>2. CASE i = new
      BY <2>1, <2>2 DEF IsOpen, NoRow
    <2>3. CASE i # new
      BY <1>2, <2>1, <2>3, RowUpdates DEF IsOpen
    <2> QED BY <2>2, <2>3
  <1>3. ASSUME inv'[i] # inv[i], NEW r \in Reqs, CommitRevoke(r)
        PROVE  inv[i].state = "written" /\ inv'[i] = [inv[i] EXCEPT !.revoked = TRUE]
    BY <1>3 DEF CommitRevoke, TypeOK
  <1>4. ASSUME inv'[i] # inv[i], NEW r \in Reqs, CommitAccept(r)
        PROVE  inv[i].state = "written" /\ inv'[i] = [inv[i] EXCEPT !.accepted = TRUE]
    <2>1. /\ inv' = [inv EXCEPT ![req[r].inv].accepted = TRUE]
          /\ inv[req[r].inv].state = "written"
      BY <1>4 DEF CommitAccept
    <2> QED BY <1>4, <2>1 DEF TypeOK
  <1>5. ASSUME inv'[i] # inv[i], NEW r \in Reqs, Deletes(r)
        PROVE  inv'[i] = Gone
    BY <1>5, DeletionEffect
  <1>6. ASSUME inv'[i] # inv[i], NEW j \in Invites, Expire(j)
        PROVE  inv[i].state = "written" /\ inv'[i] = [inv[i] EXCEPT !.expired = TRUE]
    BY <1>6 DEF Expire, TypeOK
  <1>7. ASSUME inv'[i] # inv[i], NEW r \in Reqs,
               Arrives(r) \/ TakeLock(r) \/ Decide(r) \/ Ends(r) \/ ChangesRoles(r)
        PROVE  FALSE
    BY <1>7, ArrivalShape, RoleChangeEffect
       DEF Arrived, Arrive, TakeLock, Decide, Ends, Refuse, DeadlockVictim, Abort
  <1>8. CASE \E r \in Reqs : CommitOffer(r)
    BY <1>1, <1>2, <1>8
  <1>9. CASE inv'[i] # inv[i] /\ \A r \in Reqs : ~CommitOffer(r)
    <2>1. \/ inv'[i] = Gone
          \/ inv[i].state = "written" /\ inv'[i] = [inv[i] EXCEPT !.revoked = TRUE]
          \/ inv[i].state = "written" /\ inv'[i] = [inv[i] EXCEPT !.expired = TRUE]
          \/ /\ inv[i].state = "written" /\ inv'[i] = [inv[i] EXCEPT !.accepted = TRUE]
             /\ \E r \in Reqs : CommitAccept(r)
      BY <1>3, <1>4, <1>5, <1>6, <1>7, <1>9, StepCases DEF WritesInvites, CreateOrganisation, vars
    <2>2. CASE inv'[i] = Gone
      BY <2>2 DEF Unspent, Gone
    <2>3. CASE inv[i].state = "written" /\ inv'[i] = [inv[i] EXCEPT !.revoked = TRUE]
      <3>1. inv'[i].revoked /\ inv'[i].accepted = inv[i].accepted
        BY <2>3, RowUpdates
      <3> QED BY <3>1 DEF Unspent, IsOpen
    <2>4. CASE inv[i].state = "written" /\ inv'[i] = [inv[i] EXCEPT !.expired = TRUE]
      <3>1. /\ inv'[i].accepted = inv[i].accepted /\ inv'[i].revoked = inv[i].revoked
            /\ inv'[i].org = inv[i].org /\ inv'[i].addr = inv[i].addr
        BY <2>4, RowUpdates
      <3> QED BY <2>4, <3>1 DEF Unspent, IsOpen
    <2>5. CASE /\ inv[i].state = "written" /\ inv'[i] = [inv[i] EXCEPT !.accepted = TRUE]
               /\ \E r \in Reqs : CommitAccept(r)
      <3>1. inv'[i].accepted
        BY <2>5, RowUpdates
      <3> QED BY <2>5, <3>1 DEF Unspent
    <2> QED BY <2>1, <2>2, <2>3, <2>4, <2>5
  <1> QED BY <1>1, <1>8, <1>9

LEMMA UnspentStep ==
    ASSUME IInv, OneUnspent, [Next]_vars
    PROVE  OneUnspent'
  <1> USE DEF IInv
  <1>1. CASE \A r \in Reqs : ~CommitOffer(r)
    BY <1>1, OtherwiseSpent DEF OneUnspent
  <1>2. ASSUME NEW r \in Reqs, CommitOffer(r), inv' # inv PROVE OneUnspent'
    <2>1. PICK o \in Orgs, new \in Invites :
             /\ ~Clash(o, req[r].target)
             /\ inv'[new].org = o /\ inv'[new].addr = req[r].target
             /\ \A i \in Invites \ {new} :
                  inv'[i] = IF i \in Lapsed(o, req[r].target)
                            THEN [inv[i] EXCEPT !.revoked = TRUE] ELSE inv[i]
      BY <1>2, OfferEffect
    <2>2. ASSUME NEW i \in Invites \ {new}, Unspent(i)'
          PROVE  /\ inv'[i] = inv[i] /\ Unspent(i)
                 /\ inv[i].org # o \/ inv[i].addr # req[r].target
      <3>1. i \notin Lapsed(o, req[r].target)
        BY <2>1, <2>2, RowUpdates DEF Unspent, Lapsed
      <3> QED BY <2>1, <2>2, <3>1 DEF Unspent, Clash, SameOffer
    <2> QED BY <2>1, <2>2 DEF OneUnspent
  <1>3. CASE inv' = inv
    BY <1>3 DEF OneUnspent, Unspent
  <1> QED BY <1>1, <1>2, <1>3

\* uq_invitations_live: however offers, acceptances, revocations and the clock
\* interleave, an address has one open invitation to an organisation at most.
THEOREM OneInvitationAtATime == Spec => []OneOpenInvitation
  <1>1. Init => OneUnspent
    BY DEF Init, OneUnspent, Unspent, NoRow
  <1>2. IInv /\ OneUnspent /\ [Next]_vars => OneUnspent'
    BY UnspentStep
  <1>3. OneUnspent => OneOpenInvitation
    BY DEF OneUnspent, OneOpenInvitation, IsOpen, Unspent
  <1> QED BY <1>1, <1>2, <1>3, Invariance, PTL DEF Spec

\* accept: an invitation that lay about never changes the role that somebody has
\* come to hold since.
THEOREM OldInvitationsDemoteNobody == Spec => AcceptNeverDemotes
  <1>1. ASSUME IInv, [Next]_vars, NEW i \in Invites,
               IsOpen(i), inv'[i].state = "written", inv'[i].accepted,
               NEW o \in Orgs, NEW u \in Users, role[o][u] # "none"
        PROVE  role'[o][u] = role[o][u]
    <2>1. PICK r \in Reqs : CommitAccept(r)
      BY <1>1, OtherwiseSpent
    <2> QED BY <1>1, <2>1, AcceptEffect DEF IInv
  <1>2. IInv /\ [Next]_vars =>
          [\A i \in Invites :
             (IsOpen(i) /\ inv'[i].state = "written" /\ inv'[i].accepted)
             => \A o \in Orgs, u \in Users : role[o][u] # "none" => role'[o][u] = role[o][u]]_vars
    BY <1>1
  <1> QED BY <1>2, Invariance, PTL DEF Spec, AcceptNeverDemotes

----------------------------------------------------------------------------
(* The order of the ownership lock.                                         *)

\* Whoever is taking tenant rows has all it holds below all it has yet to take,
\* and whoever takes none holds none.
Ascends(r) ==
    /\ Locked(r) /\ req[r].stage = "arrived" => \A o \in HeldBy(r), p \in Todo(r) : o < p
    /\ ~Locked(r) => HeldBy(r) = {}
LocksAscend == \A r \in Reqs : Ascends(r)

LEMMA AscendKept ==
    ASSUME NEW r \in Reqs, Ascends(r), req'[r] = req[r], HeldBy(r)' = HeldBy(r)
    PROVE  Ascends(r)'
  <1>1. (Locked(r))' = Locked(r) /\ (Todo(r))' = Todo(r)
    BY DEF Locked, Todo, Active
  <1> QED BY <1>1 DEF Ascends

LEMMA AscendStep ==
    ASSUME IInv, LocksAscend, [Next]_vars
    PROVE  LocksAscend'
  <1> USE DEF IInv
  <1>1. ASSUME NEW r \in Reqs, Arrives(r) PROVE LocksAscend'
    <2>1. PICK what \in Ops, actor, target \in Users, x \in Roles,
               i \in Invites \cup {NoInvite}, orgs \in SUBSET Orgs :
            Arrive(r, what, actor, target, x, i, orgs)
      BY <1>1, ArrivalShape DEF Arrived
    <2>2. lock' = lock /\ req[r] = Idle /\ \A q \in Reqs \ {r} : req'[q] = req[q]
      BY <2>1 DEF Arrive, TypeOK
    <2>3. HeldBy(r) = {}
      BY <2>2 DEF LocksAscend, Ascends, Locked, Active, Idle
    <2>4. \A q \in Reqs : HeldBy(q)' = HeldBy(q)
      BY <2>2 DEF HeldBy
    <2>5. Ascends(r)'
      BY <2>3, <2>4 DEF Ascends
    <2> QED BY <2>2, <2>4, <2>5, AscendKept DEF LocksAscend
  <1>2. ASSUME NEW r \in Reqs, TakeLock(r) PROVE LocksAscend'
    <2>1. PICK o \in Todo(r) :
            /\ \A p \in Todo(r) : o <= p
            /\ lock[o] = NoReq /\ lock' = [lock EXCEPT ![o] = r] /\ req' = req
      BY <1>2 DEF TakeLock
    <2>2. Todo(r) \subseteq Orgs /\ HeldBy(r) \subseteq Orgs /\ Locked(r) /\ req[r].stage = "arrived"
      BY <1>2, ActiveIsRequest DEF TakeLock, Todo, Locked, HeldBy, Requests
    <2>3. \A q \in Reqs \ {r} : HeldBy(q)' = HeldBy(q)
      BY <2>1, <2>2, NoReqIsNoRequest DEF HeldBy, TypeOK
    <2>4. HeldBy(r)' = HeldBy(r) \cup {o} /\ Todo(r)' = Todo(r) \ {o}
      <3>1. HeldBy(r)' = HeldBy(r) \cup {o}
        BY <2>1, <2>2 DEF HeldBy, TypeOK
      <3> QED BY <2>1, <2>2, <3>1 DEF Todo, Locked, Active
    <2>5. \A k \in HeldBy(r) \cup {o}, p \in Todo(r) \ {o} : k < p
      <3>1. \A k \in Orgs : k \in Nat
        BY OrgsAreOrdered
      <3>2. \A k \in HeldBy(r), p \in Todo(r) : k < p
        BY <2>2 DEF LocksAscend, Ascends
      <3> QED BY <2>1, <2>2, <3>1, <3>2
    <2>6. Ascends(r)'
      BY <2>1, <2>2, <2>4, <2>5 DEF Ascends, Locked, Active
    <2> QED BY <2>1, <2>3, <2>6, AscendKept DEF LocksAscend
  <1>3. ASSUME NEW r \in Reqs, Decide(r) PROVE LocksAscend'
    <2>1. req[r] \in Requests /\ Active(r)
      BY <1>3, ActiveIsRequest DEF Decide, Deciding
    <2>2. /\ req'[r].op = req[r].op /\ req'[r].stage = "checked" /\ lock' = lock
          /\ \A q \in Reqs \ {r} : req'[q] = req[q]
      BY <1>3, <2>1 DEF Decide, TypeOK, Requests
    <2>3. \A q \in Reqs : HeldBy(q)' = HeldBy(q)
      BY <2>2 DEF HeldBy
    <2>4. Ascends(r)'
      BY <2>1, <2>2, <2>3 DEF Ascends, Locked, Active, LocksAscend
    <2> QED BY <2>2, <2>3, <2>4, AscendKept DEF LocksAscend
  <1>4. ASSUME NEW r \in Reqs, Finish(r) PROVE LocksAscend'
    <2>1. \A q \in Reqs \ {r} : HeldBy(q)' = HeldBy(q) /\ req'[q] = req[q]
      BY <1>4, NoReqIsNoRequest, FinishShape DEF Finish, Released, HeldBy, TypeOK
    <2>2. HeldBy(r)' = {} /\ ~Active(r)'
      BY <1>4, NoReqIsNoRequest, FinishShape DEF Finish, Released, HeldBy
    <2>3. Ascends(r)'
      BY <2>2 DEF Ascends
    <2> QED BY <2>1, <2>3, AscendKept DEF LocksAscend
  <1>5. ASSUME NEW r \in Reqs,
               Ends(r) \/ ChangesRoles(r) \/ Deletes(r) \/ CommitAccept(r) \/ WritesInvites(r)
        PROVE  LocksAscend'
    <2>1. Finish(r)
      BY <1>5, RoleChangeEffect, DeletionEffect, AcceptEffect, InvitingEffect
         DEF Ends, Refuse, DeadlockVictim, Abort
    <2> QED BY <1>4, <2>1
  <1>6. ASSUME UNCHANGED <<req, lock>> PROVE LocksAscend'
    <2>1. \A q \in Reqs : HeldBy(q)' = HeldBy(q)
      BY <1>6 DEF HeldBy
    <2> QED BY <1>6, <2>1, AscendKept DEF LocksAscend
  <1> QED BY <1>1, <1>2, <1>3, <1>5, <1>6, StepCases DEF CreateOrganisation, Expire, vars

\* Every set of naturals that is not empty has a least element.
LEMMA LeastNatural ==
    ASSUME NEW K, K \subseteq Nat, K # {}
    PROVE  \E k \in K : \A j \in K : k <= j
  <1> DEFINE R == OpToRel(<, Nat)
  <1>1. IsWellFoundedOn(R, Nat)
    BY NatLessThanWellFounded
  <1>2. \A a, b \in Nat : a < b => <<a, b>> \in R
    BY DEF OpToRel
  <1> HIDE DEF R
  <1>3. \E x \in K : \A y \in K : ~ (<<y, x>> \in R)
    BY <1>1, WFMin
  <1>4. PICK k \in K : \A j \in K : ~(j < k)
    BY <1>2, <1>3, Zenon
  <1> QED BY <1>4

\* Of finitely many, one has the greatest number: a smallest set in which none
\* has would, but for one member, be a smaller one.
LEMMA GreatestValue ==
    ASSUME NEW S, IsFiniteSet(S), S # {}, NEW f, \A x \in S : f[x] \in Nat
    PROVE  \E m \in S : \A x \in S : f[x] <= f[m]
  <1> DEFINE Bad(T) == T # {} /\ ~ \E m \in T : \A x \in T : f[x] <= f[m]
             K == {Cardinality(T) : T \in {U \in SUBSET S : Bad(U)}}
  <1> SUFFICES ASSUME Bad(S) PROVE FALSE
    OBVIOUS
  <1>1. \A T \in SUBSET S : IsFiniteSet(T) /\ Cardinality(T) \in Nat
    BY FS_Subset, FS_CardinalityType
  <1>2. K \subseteq Nat /\ K # {}
    BY <1>1
  <1>3. PICK T \in SUBSET S :
          Bad(T) /\ \A U \in SUBSET S : Bad(U) => Cardinality(T) <= Cardinality(U)
    <2> HIDE DEF Bad
    <2>1. PICK k \in K : \A j \in K : k <= j
      <3> HIDE DEF K
      <3> QED BY <1>2, LeastNatural
    <2> QED BY <2>1
  <1>4. PICK x \in T : TRUE
    BY <1>3
  <1>5. Cardinality(T \ {x}) = Cardinality(T) - 1 /\ Cardinality(T) \in Nat
    BY <1>1, <1>4, FS_RemoveElement
  <1>6. ~Bad(T \ {x})
    <2> HIDE DEF Bad
    <2> QED BY <1>1, <1>3, <1>5
  <1>7. CASE T = {x}
    BY <1>3, <1>4, <1>7
  <1>8. CASE T # {x}
    <2>1. PICK m \in T \ {x} : \A y \in T \ {x} : f[y] <= f[m]
      BY <1>4, <1>6, <1>8
    <2>2. f[x] \in Nat /\ f[m] \in Nat /\ \A y \in T : f[y] \in Nat
      BY <1>4
    <2>3. CASE f[x] <= f[m]
      <3>1. \A y \in T : f[y] <= f[m]
        BY <2>1, <2>3
      <3> QED BY <1>3, <3>1
    <2>4. CASE f[m] <= f[x]
      <3>1. \A y \in T : f[y] <= f[x]
        BY <2>1, <2>2, <2>4
      <3> QED BY <1>3, <1>4, <3>1
    <2> QED BY <2>2, <2>3, <2>4
  <1> QED BY <1>7, <1>8

\* The row r waits for is below the row that its holder waits for.
NextRow(r) == CHOOSE o \in Todo(r) : \A p \in Todo(r) : o <= p

LEMMA QueueAscends ==
    ASSUME IInv, LocksAscend, NEW r \in Reqs, NEW q \in QueuedBehind(r), QueuedBehind(q) # {}
    PROVE  NextRow(r) \in Nat /\ NextRow(q) \in Nat /\ NextRow(r) < NextRow(q)
  <1>1. q \in Reqs
    BY DEF QueuedBehind
  <1>2. \A h \in Reqs : Locked(h) => Todo(h) \subseteq Orgs
    BY ActiveIsRequest DEF IInv, Todo, Locked, Requests
  <1>3. PICK o \in Todo(r) : (\A p \in Todo(r) : o <= p) /\ lock[o] = q /\ Locked(r)
    BY DEF QueuedBehind
  <1>4. PICK p \in Todo(q) : \A h \in Todo(q) : p <= h
    BY DEF QueuedBehind
  <1>5. Locked(q) /\ req[q].stage = "arrived"
    BY DEF QueuedBehind
  <1>6. \A k \in Orgs : k \in Nat
    BY OrgsAreOrdered
  <1>7. NextRow(r) = o
    BY <1>2, <1>3, <1>6 DEF NextRow
  <1>8. NextRow(q) = p
    BY <1>1, <1>2, <1>4, <1>5, <1>6 DEF NextRow
  <1>9. o \in HeldBy(q)
    BY <1>2, <1>3 DEF HeldBy
  <1>10. o < p
    BY <1>1, <1>4, <1>5, <1>9 DEF LocksAscend, Ascends
  <1> QED BY <1>1, <1>2, <1>3, <1>4, <1>5, <1>6, <1>7, <1>8, <1>10

LEMMA NoCircle ==
    ASSUME IInv, LocksAscend
    PROVE  LockQueueHasNoCircle
  <1> SUFFICES ASSUME NEW S \in SUBSET Reqs, S # {}, \A r \in S : QueuedBehind(r) \cap S # {}
               PROVE  FALSE
    BY DEF LockQueueHasNoCircle
  <1> DEFINE f == [r \in S |-> NextRow(r)]
  <1>1. \A r \in S : f[r] \in Nat /\ \E q \in S : f[r] < f[q]
    <2> SUFFICES ASSUME NEW r \in S PROVE f[r] \in Nat /\ \E q \in S : f[r] < f[q]
      OBVIOUS
    <2>1. PICK q \in S : q \in QueuedBehind(r)
      OBVIOUS
    <2>2. QueuedBehind(q) # {}
      BY <2>1
    <2> QED BY <2>1, <2>2, QueueAscends
  <1>2. IsFiniteSet(S)
    BY ReqsAreFinite, FS_Subset
  <1> HIDE DEF f
  <1>3. PICK m \in S : \A r \in S : f[r] <= f[m]
    BY <1>1, <1>2, GreatestValue
  <1> QED BY <1>1, <1>3

\* lock_ownership_of: rows taken in ascending order never make a circle, however
\* many requests queue; a deadlock can only come of the deletions.
THEOREM QueuesEnd == Spec => []LockQueueHasNoCircle
  <1>1. Init => LocksAscend
    BY NoReqIsNoRequest DEF Init, LocksAscend, Ascends, Locked, Active, HeldBy, Idle
  <1>2. IInv /\ LocksAscend /\ [Next]_vars => LocksAscend'
    BY AscendStep
  <1>3. IInv /\ LocksAscend => LockQueueHasNoCircle
    BY NoCircle
  <1> QED BY <1>1, <1>2, <1>3, Invariance, PTL DEF Spec
=============================================================================
