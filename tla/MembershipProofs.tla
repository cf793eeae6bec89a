--------------------------- MODULE MembershipProofs ---------------------------
(****************************************************************************)
(* Proofs about Membership for any sets of accounts, organizations,         *)
(* invitations and requests: first its invariant, then what every step does *)
(* and that it is a step of Directory or none.                              *)
(****************************************************************************)
EXTENDS Membership, TLAPS

\* Losing a stamp keeps a request a request.
LEMMA RestampedType ==
  ASSUME TypeOK, NEW users, NEW scopes
  PROVE  Restamped(users, scopes) \in [Request -> RequestState]
<1>1. ASSUME NEW r \in Request
      PROVE  (IF /\ req[r].phase = "prepared"
                 /\ req[r].target.user \in users /\ req[r].target.scope \in scopes
              THEN [req[r] EXCEPT !.target.fresh = FALSE]
              ELSE req[r]) \in RequestState
  <2>1. req[r] \in RequestState
    BY <1>1 DEF TypeOK
  <2>2. CASE req[r].phase # "prepared"
    BY <2>1, <2>2
  <2>3. CASE req[r].phase = "prepared"
    <3>1. req[r] \in [phase : {"prepared"}, actor : Principal, target : Target]
      BY <2>1, <2>3 DEF RequestState, Idle
    <3>2. [req[r] EXCEPT !.target.fresh = FALSE]
            \in [phase : {"prepared"}, actor : Principal, target : Target]
      BY <3>1 DEF Target
    <3>3. QED
      BY <2>1, <3>2 DEF RequestState
  <2>4. QED
    BY <2>2, <2>3
<1>2. QED
  BY <1>1 DEF Restamped

\* A request that ends leaves requests.
LEMMA CompleteType ==
  ASSUME TypeOK, NEW r \in Request, NEW users, NEW scopes, Complete(r, users, scopes)
  PROVE  req' \in [Request -> RequestState]
<1>1. Restamped(users, scopes) \in [Request -> RequestState]
  BY RestampedType
<1>2. Idle \in RequestState
  BY DEF RequestState
<1>3. QED
  BY <1>1, <1>2 DEF Complete

\* A resolved or prepared request carries a Principal, a prepared one a Target.
LEMMA RequestParts ==
  ASSUME TypeOK, NEW r \in Request
  PROVE  /\ req[r].phase \in {"resolved", "prepared"} =>
              req[r].actor \in Principal /\ req[r].actor.user \in User
         /\ req[r].phase = "prepared" => req[r].target \in Target
<1>1. req[r] \in RequestState
  BY DEF TypeOK
<1>2. /\ req[r].phase \in {"resolved", "prepared"} => req[r].actor \in Principal
      /\ req[r].phase = "prepared" => req[r].target \in Target
  BY <1>1 DEF RequestState, Idle
<1>3. \A p \in Principal : p.user \in User
  BY DEF Principal
<1>4. QED
  BY <1>2, <1>3

\* The events that are appended are events.
LEMMA EventType ==
  ASSUME NEW u \in User, NEW o \in Org \union {NoOrg}
  PROVE  Changed(u, o) \in Event /\ Revoked(u, o) \in Event
BY DEF Changed, Revoked, Event

\* An update of one column leaves a row.
LEMMA RowUpdate ==
  ASSUME NEW row \in Row
  PROVE  /\ [row EXCEPT !.status = "revoked"] \in Row
         /\ [row EXCEPT !.role = "admin"] \in Row
         /\ [row EXCEPT !.role = "owner"] \in Row
BY DEF Row, Roles

\* What such an update leaves alone.
LEMMA RowParts ==
  ASSUME NEW row \in Row
  PROVE  /\ [row EXCEPT !.status = "revoked"] \in Row
         /\ [row EXCEPT !.status = "revoked"].status = "revoked"
         /\ [row EXCEPT !.status = "revoked"].role = row.role
         /\ [row EXCEPT !.role = "admin"].role = "admin"
         /\ [row EXCEPT !.role = "admin"].status = row.status
         /\ [row EXCEPT !.role = "owner"].role = "owner"
         /\ [row EXCEPT !.role = "owner"].status = row.status
BY DEF Row

\* A session resolves to a Principal of its user.
LEMMA PrincipalsType ==
  ASSUME TypeOK, NEW u \in User, NEW p \in PrincipalsOf(u)
  PROVE  p \in Principal /\ p.user = u
<1>1. CASE CurrentOrgs(u) = {}
  <2>1. p = [user |-> u, role |-> dep[u].role, org |-> NoOrg, orgRole |-> ""]
    BY <1>1 DEF PrincipalsOf
  <2>2. dep[u].role \in Roles
    BY DEF TypeOK, Row
  <2>3. QED
    BY <2>1, <2>2 DEF Principal
<1>2. CASE CurrentOrgs(u) # {}
  <2>1. PICK o \in CurrentOrgs(u) :
          p = [user |-> u, role |-> dep[u].role, org |-> o, orgRole |-> mem[o][u].role]
    BY <1>2 DEF PrincipalsOf
  <2>2. o \in Org
    BY DEF CurrentOrgs
  <2>3. dep[u].role \in Roles /\ mem[o][u].role \in Roles
    BY <2>2 DEF TypeOK, Row
  <2>4. QED
    BY <2>1, <2>2, <2>3 DEF Principal
<1>3. QED
  BY <1>1, <1>2

\* Every step keeps the types.
LEMMA TypeStep == TypeOK /\ [Next]_vars => TypeOK'
<1> SUFFICES ASSUME TypeOK, [Next]_vars PROVE TypeOK'
  OBVIOUS
<1> USE DEF Row, Roles, ActiveRow, joinOrganization
<1>1. ASSUME NEW u \in User, NEW o \in Org, CreateOwner(u, o) PROVE TypeOK'
  BY <1>1 DEF TypeOK, CreateOwner
<1>2. ASSUME NEW u \in User, RegisterAccount(u) PROVE TypeOK'
  BY <1>2 DEF TypeOK, RegisterAccount
<1>3. ASSUME NEW u \in User, NEW profile \in BOOLEAN, TouchUser(u, profile)
      PROVE TypeOK'
  <2>1. req' \in [Request -> RequestState]
    BY <1>3, RestampedType DEF TouchUser
  <2>2. appended' \subseteq Event
    BY <1>3, EventType DEF TouchUser, appendProfileInvalidations
  <2>3. QED
    BY <1>3, <2>1, <2>2 DEF TypeOK, TouchUser
<1>4. ASSUME NEW r \in Request, NEW u \in User, ResolveSession(r, u) PROVE TypeOK'
  <2>1. PICK p \in PrincipalsOf(u) :
          req' = [req EXCEPT ![r] = [phase |-> "resolved", actor |-> p]]
    BY <1>4 DEF ResolveSession
  <2>2. [phase |-> "resolved", actor |-> p] \in RequestState
    BY PrincipalsType DEF RequestState
  <2>3. QED
    BY <1>4, <2>1, <2>2 DEF TypeOK, ResolveSession
<1>5. ASSUME NEW r \in Request, Abandon(r) PROVE TypeOK'
  BY <1>5 DEF TypeOK, Abandon, RequestState
<1>6. ASSUME NEW r \in Request, NEW v \in User, ReadMember(r, v) PROVE TypeOK'
  <2> DEFINE p == req[r].actor
             t == [user |-> v, scope |-> p.org, role |-> mem[p.org][v].role,
                   status |-> mem[p.org][v].status, fresh |-> TRUE]
             new == [phase |-> "prepared", actor |-> p, target |-> t]
  <2>1. p \in Principal
    BY <1>6, RequestParts DEF ReadMember
  <2>2. p.org \in Org
    BY <1>6, <2>1 DEF ReadMember, Managers, Principal
  <2>3. t \in Target
    BY <1>6, <2>1, <2>2 DEF ReadMember, TypeOK, Target
  <2>4. new \in RequestState
    BY <2>1, <2>3 DEF RequestState
  <2>5. req' = [req EXCEPT ![r] = new]
    BY <1>6 DEF ReadMember
  <2>6. QED
    BY <1>6, <2>4, <2>5 DEF ReadMember, TypeOK
<1>7. ASSUME NEW r \in Request, NEW v \in User, ReadDeploymentMember(r, v)
      PROVE TypeOK'
  <2> DEFINE p == req[r].actor
             t == [user |-> v, scope |-> NoOrg, role |-> dep[v].role,
                   status |-> dep[v].status, fresh |-> TRUE]
             new == [phase |-> "prepared", actor |-> p, target |-> t]
  <2>1. p \in Principal
    BY <1>7, RequestParts DEF ReadDeploymentMember
  <2>2. t \in Target
    BY <1>7 DEF ReadDeploymentMember, TypeOK, Target
  <2>3. new \in RequestState
    BY <2>1, <2>2 DEF RequestState
  <2>4. req' = [req EXCEPT ![r] = new]
    BY <1>7 DEF ReadDeploymentMember
  <2>5. QED
    BY <1>7, <2>3, <2>4 DEF ReadDeploymentMember, TypeOK
<1>8. ASSUME NEW r \in Request, NEW o \in Org, create(r, o) PROVE TypeOK'
  <2>1. req[r].actor.user \in User
    BY <1>8, RequestParts DEF create
  <2>2. req' \in [Request -> RequestState]
    BY <1>8, CompleteType DEF create
  <2>3. appended' \subseteq Event
    BY <1>8, <2>1, EventType DEF create
  <2>4. QED
    BY <1>8, <2>1, <2>2, <2>3 DEF TypeOK, create
<1>9. ASSUME NEW r \in Request, NEW i \in Invitation, join(r, i) PROVE TypeOK'
  <2>1. req[r].actor.user \in User
    BY <1>9, RequestParts DEF join
  <2>2. req' \in [Request -> RequestState]
    BY <1>9, CompleteType DEF join
  <2>3. appended' \subseteq Event
    BY <1>9, <2>1, EventType DEF join, activeInvitation
  <2>4. inv' \in [Invitation -> InvitationRow]
    BY <1>9 DEF join, activeInvitation, TypeOK, InvitationRow
  <2>5. mem' \in [Org -> [User -> Row]]
    BY <1>9, <2>1 DEF join, activeInvitation, TypeOK, InvitationRow
  <2>6. QED
    BY <1>9, <2>2, <2>3, <2>4, <2>5 DEF TypeOK, join
<1>10. ASSUME NEW r \in Request, leave(r) PROVE TypeOK'
  <2>1. req[r].actor.user \in User
    BY <1>10, RequestParts DEF leave
  <2>2. req' \in [Request -> RequestState]
    BY <1>10, CompleteType DEF leave
  <2>3. req[r].actor.org \in Org
    BY <1>10 DEF leave, StillIn, CurrentOrgs
  <2>4. appended' \subseteq Event
    BY <1>10, <2>1, <2>3, EventType DEF leave, revokeOrganizationMember
  <2>5. [mem[req[r].actor.org][req[r].actor.user] EXCEPT !.status = "revoked"] \in Row
    <3>1. mem[req[r].actor.org][req[r].actor.user] \in Row
      BY <2>1, <2>3 DEF TypeOK
    <3>2. QED
      BY ONLY <3>1, RowUpdate, Zenon
  <2>6. mem' \in [Org -> [User -> Row]]
    BY <1>10, <2>5 DEF TypeOK, leave, revokeOrganizationMember
  <2>7. QED
    BY <1>10, <2>2, <2>4, <2>6 DEF TypeOK, leave
<1>11. ASSUME NEW r \in Request, NEW v \in User, transfer(r, v) PROVE TypeOK'
  <2> DEFINE p == req[r].actor
  <2>1. p.user \in User
    BY <1>11, RequestParts DEF transfer
  <2>2. req' \in [Request -> RequestState]
    BY <1>11, CompleteType DEF transfer
  <2>3. req[r].actor.org \in Org
    BY <1>11 DEF transfer, StillIn, CurrentOrgs
  <2>4. appended' \subseteq Event
    BY <1>11, <2>1, <2>3, EventType DEF transfer
  <2>5. /\ [mem[p.org][p.user] EXCEPT !.role = "admin"] \in Row
        /\ [mem[p.org][v] EXCEPT !.role = "owner"] \in Row
    <3>1. mem[p.org][p.user] \in Row /\ mem[p.org][v] \in Row
      BY <2>1, <2>3 DEF TypeOK
    <3>2. QED
      BY ONLY <3>1, RowUpdate, Zenon
  <2>6. mem' \in [Org -> [User -> Row]]
    BY <1>11, <2>1, <2>3, <2>5 DEF TypeOK, transfer
  <2>7. QED
    BY <1>11, <2>2, <2>4, <2>6 DEF TypeOK, transfer
<1>12. ASSUME NEW r \in Request, rename(r) PROVE TypeOK'
  <2>1. req' \in [Request -> RequestState]
    BY <1>12, CompleteType DEF rename
  <2>2. req[r].actor.org \in Org
    BY <1>12 DEF rename, StillIn, CurrentOrgs
  <2>3. appended' \subseteq Event
    BY <1>12, <2>2, EventType DEF rename, ActiveMembers
  <2>4. QED
    BY <1>12, <2>1, <2>3 DEF TypeOK, rename
<1>13. ASSUME NEW r \in Request, dissolve(r) PROVE TypeOK'
  <2>1. req' \in [Request -> RequestState]
    BY <1>13, CompleteType DEF dissolve
  <2>2. req[r].actor.org \in Org
    BY <1>13 DEF dissolve, StillIn, CurrentOrgs
  <2>3. appended' \subseteq Event
    BY <1>13, <2>2, EventType DEF dissolve, ActiveMembers
  <2>4. \A u \in User : [mem[req[r].actor.org][u] EXCEPT !.status = "revoked"] \in Row
    <3>1. \A u \in User : mem[req[r].actor.org][u] \in Row
      BY <2>2 DEF TypeOK
    <3>2. QED
      BY ONLY <3>1, RowUpdate, Zenon
  <2>5. mem' \in [Org -> [User -> Row]]
    BY <1>13, <2>2, <2>4 DEF dissolve, TypeOK
  <2>6. QED
    BY <1>13, <2>1, <2>2, <2>3, <2>5 DEF TypeOK, dissolve
<1>14. ASSUME NEW r \in Request, NEW role \in Roles, NEW st \in {"active", "revoked"},
              NEW n \in BOOLEAN, UpdateMember(r, role, st, n)
       PROVE TypeOK'
  <2>1. req[r].target.user \in User /\ req[r].target.scope \in Org
    BY <1>14, RequestParts DEF UpdateMember, Target
  <2>2. req' \in [Request -> RequestState]
    BY <1>14, CompleteType DEF UpdateMember
  <2>3. appended' \subseteq Event
    BY <1>14, <2>1, EventType DEF UpdateMember, appendProfileInvalidations
  <2>4. mem' \in [Org -> [User -> Row]]
    BY <1>14, <2>1 DEF UpdateMember, TypeOK
  <2>5. QED
    BY <1>14, <2>2, <2>3, <2>4 DEF TypeOK, UpdateMember
<1>15. ASSUME NEW r \in Request, NEW v \in User, NEW role \in Roles,
              CreateDeploymentMember(r, v, role)
       PROVE TypeOK'
  <2>1. req' \in [Request -> RequestState]
    BY <1>15, CompleteType DEF CreateDeploymentMember
  <2>2. QED
    BY <1>15, <2>1 DEF TypeOK, CreateDeploymentMember
<1>16. ASSUME NEW r \in Request, NEW role \in Roles, NEW st \in {"active", "revoked"},
              NEW n \in BOOLEAN, UpdateDeploymentMember(r, role, st, n)
       PROVE TypeOK'
  <2>1. req[r].target.user \in User
    BY <1>16, RequestParts DEF UpdateDeploymentMember, Target
  <2>2. req' \in [Request -> RequestState]
    BY <1>16, CompleteType DEF UpdateDeploymentMember
  <2>3. appended' \subseteq Event
    BY <1>16, <2>1, EventType DEF UpdateDeploymentMember, appendProfileInvalidations
  <2>4. dep' \in [User -> Row]
    BY <1>16, <2>1 DEF UpdateDeploymentMember, TypeOK
  <2>5. QED
    BY <1>16, <2>2, <2>3, <2>4 DEF TypeOK, UpdateDeploymentMember
<1>17. ASSUME NEW r \in Request, NEW i \in Invitation, NEW role \in Roles,
              CreateOrganizationInvitation(r, i, role)
       PROVE TypeOK'
  <2>1. req' \in [Request -> RequestState]
    BY <1>17, CompleteType DEF CreateOrganizationInvitation
  <2>2. [org |-> req[r].actor.org, role |-> role, state |-> "open"] \in InvitationRow
    BY <1>17 DEF CreateOrganizationInvitation, mayInvite, requireOrganizationManager, MayManage,
                 InvitationRow
  <2>3. QED
    BY <1>17, <2>1, <2>2 DEF TypeOK, CreateOrganizationInvitation
<1>18. ASSUME NEW r \in Request, NEW i \in Invitation, RevokeOrganizationInvitation(r, i)
       PROVE TypeOK'
  <2>1. req' \in [Request -> RequestState]
    BY <1>18, CompleteType DEF RevokeOrganizationInvitation
  <2>2. QED
    BY <1>18, <2>1 DEF TypeOK, RevokeOrganizationInvitation, InvitationRow
<1>19. ASSUME NEW r \in Request, NEW i \in Invitation, DeleteOrganizationInvitation(r, i)
       PROVE TypeOK'
  <2>1. req' \in [Request -> RequestState]
    BY <1>19, CompleteType DEF DeleteOrganizationInvitation
  <2>2. QED
    BY <1>19, <2>1 DEF TypeOK, DeleteOrganizationInvitation, InvitationRow
<1>20. ASSUME NEW u \in User, NEW i \in Invitation, AcceptOrganizationInvitation(u, i)
       PROVE TypeOK'
  <2>1. inv' \in [Invitation -> InvitationRow]
    BY <1>20 DEF AcceptOrganizationInvitation, activeInvitation, TypeOK, InvitationRow
  <2>2. mem' \in [Org -> [User -> Row]]
    BY <1>20 DEF AcceptOrganizationInvitation, activeInvitation, TypeOK, InvitationRow
  <2>3. QED
    BY <1>20, <2>1, <2>2 DEF TypeOK, AcceptOrganizationInvitation
<1>21. ASSUME NEW i \in Invitation, Expire(i) PROVE TypeOK'
  BY <1>21 DEF TypeOK, Expire, InvitationRow
<1>22. CASE UNCHANGED vars
  BY <1>22 DEF TypeOK, vars
<1>23. QED
  BY <1>1, <1>2, <1>3, <1>4, <1>5, <1>6, <1>7, <1>8, <1>9, <1>10, <1>11, <1>12,
     <1>13, <1>14, <1>15, <1>16, <1>17, <1>18, <1>19, <1>20, <1>21, <1>22 DEF Next

\* Type correctness, request snapshots and appended events included: in
\* particular no invitation ever offers the owner role.
THEOREM TypeCorrect == Spec => []TypeOK
<1>1. Init => TypeOK
  BY DEF Init, TypeOK, NoRow, Row, Roles, NoInvitation, InvitationRow, RequestState, Idle
<1>2. QED
  BY <1>1, TypeStep, PTL DEF Spec

\* The tables alone decide the invariant.
LEMMA Untouched ==
  ASSUME MembershipInvariant, UNCHANGED <<dep, org, mem>>
  PROVE  OneOwnerPerOrganization' /\ OneOrganizationPerUser' /\ OnePlatformOwner'
           /\ MembersHaveAccounts'
BY DEF MembershipInvariant, OneOwnerPerOrganization, OneOrganizationPerUser,
       OnePlatformOwner, MembersHaveAccounts, IsOwner, ActiveMembers, IsSetUp

\* Nobody is active in an organization that is not active, so a user without a
\* current organization has no active membership anywhere.
LEMMA NoCurrentOrg ==
  ASSUME OneOwnerPerOrganization, NEW u \in User, CurrentOrgs(u) = {}
  PROVE  \A o \in Org : mem[o][u].status # "active"
BY DEF OneOwnerPerOrganization, CurrentOrgs, MemberOf, ActiveMembers

\* Adding one active row for a user who had none: to a fresh organization as
\* its owner, or to an active one in a lower role.
LEMMA JoinStep ==
  ASSUME TypeOK, OneOwnerPerOrganization, OneOrganizationPerUser,
         NEW u \in User, NEW o \in Org, NEW role \in Roles,
         joinOrganization(o, u, role),
         \A k \in Org : mem[k][u].status # "active",
         \/ org[o] # "active" /\ role = "owner" /\ org' = [org EXCEPT ![o] = "active"]
         \/ org[o] = "active" /\ role # "owner" /\ org' = org
  PROVE  OneOwnerPerOrganization' /\ OneOrganizationPerUser'
<1>1. \A k \in Org, v \in User :
        mem'[k][v] = IF k = o /\ v = u THEN [role |-> role, status |-> "active"] ELSE mem[k][v]
  BY DEF TypeOK, joinOrganization, ActiveRow
<1>2. \A k \in Org, v \in User :
        /\ (mem'[k][v].status = "active") <=> ((k = o /\ v = u) \/ mem[k][v].status = "active")
        /\ (mem'[k][v].role = "owner") <=>
             (IF k = o /\ v = u THEN role = "owner" ELSE mem[k][v].role = "owner")
  BY <1>1
<1>3. \A k \in Org : org'[k] = IF k = o THEN "active" ELSE org[k]
  BY DEF TypeOK
<1>4. OneOwnerPerOrganization'
  BY <1>2, <1>3 DEF OneOwnerPerOrganization, IsOwner, ActiveMembers
<1>5. OneOrganizationPerUser'
  BY <1>2 DEF OneOrganizationPerUser
<1>6. QED
  BY <1>4, <1>5

\* Revoking or demoting within the lower roles cannot take the owner away.
LEMMA LowerRoleStep ==
  ASSUME TypeOK, OneOwnerPerOrganization, OneOrganizationPerUser, MembersHaveAccounts,
         NEW u \in User, NEW o \in Org, NEW row \in Row,
         mem[o][u].status = "active", mem[o][u].role # "owner", row.role # "owner",
         mem' = [mem EXCEPT ![o][u] = row], UNCHANGED <<dep, org>>
  PROVE  OneOwnerPerOrganization' /\ OneOrganizationPerUser' /\ MembersHaveAccounts'
<1>1. \A k \in Org, v \in User :
        mem'[k][v] = IF k = o /\ v = u THEN row ELSE mem[k][v]
  BY DEF TypeOK
<1>2. \A k \in Org, v \in User :
        /\ mem'[k][v].status = "active" => mem[k][v].status = "active"
        /\ IsOwner(k, v)' <=> IsOwner(k, v)
        /\ mem'[k][v].status # "none" => mem[k][v].status # "none"
  BY <1>1 DEF IsOwner
<1>3. QED
  BY <1>2 DEF OneOwnerPerOrganization, OneOrganizationPerUser, MembersHaveAccounts,
              ActiveMembers

\* A change to a deployment row that is not the owner's keeps the owner.
LEMMA DeploymentRowStep ==
  ASSUME TypeOK, OnePlatformOwner, MembersHaveAccounts, IsSetUp,
         NEW u \in User, NEW row \in Row,
         dep[u].role # "owner", row.role # "owner", row.status # "none",
         dep' = [dep EXCEPT ![u] = row], UNCHANGED mem
  PROVE  OnePlatformOwner' /\ MembersHaveAccounts'
<1>1. \A v \in User : dep'[v] = IF v = u THEN row ELSE dep[v]
  BY DEF TypeOK
<1>2. QED
  BY <1>1 DEF OnePlatformOwner, MembersHaveAccounts, IsSetUp

\* An account that does not exist yet is not the owner.
LEMMA NoRowNoOwner ==
  ASSUME OnePlatformOwner, NEW u \in User, dep[u].status = "none"
  PROVE  dep[u].role # "owner"
BY DEF OnePlatformOwner

\* One step per transaction that writes one of the three tables.
LEMMA InvariantStep == MembershipInvariant /\ [Next]_vars => MembershipInvariant'
<1> SUFFICES ASSUME MembershipInvariant, [Next]_vars
             PROVE  OneOwnerPerOrganization' /\ OneOrganizationPerUser'
                      /\ OnePlatformOwner' /\ MembersHaveAccounts'
  BY TypeStep DEF MembershipInvariant
<1>0. TypeOK /\ OneOwnerPerOrganization /\ OneOrganizationPerUser /\ OnePlatformOwner
        /\ MembersHaveAccounts
  BY DEF MembershipInvariant
<1>1. ASSUME NEW u \in User, NEW o \in Org, CreateOwner(u, o)
      PROVE  OneOwnerPerOrganization' /\ OneOrganizationPerUser' /\ OnePlatformOwner'
               /\ MembersHaveAccounts'
  <2>1. \A v \in User : dep[v].status = "none" /\ dep[v].role # "owner"
    BY <1>0, <1>1 DEF CreateOwner, OnePlatformOwner, IsSetUp, Enrolled
  <2>2. \A k \in Org, v \in User : mem[k][v].status = "none"
    BY <1>0, <2>1 DEF MembersHaveAccounts
  <2>3. OneOwnerPerOrganization' /\ OneOrganizationPerUser'
    BY <1>0, <1>1, <2>2, JoinStep DEF CreateOwner, Roles
  <2>4. \A v \in User : dep'[v] = IF v = u THEN ActiveRow("owner") ELSE dep[v]
    BY <1>0, <1>1 DEF CreateOwner, TypeOK
  <2>5. OnePlatformOwner'
    BY <2>1, <2>4 DEF OnePlatformOwner, ActiveRow
  <2>6. \A k \in Org, v \in User : mem'[k][v].status # "none" => v = u
    BY <1>0, <1>1, <2>2 DEF CreateOwner, joinOrganization, TypeOK
  <2>7. QED
    BY <2>3, <2>4, <2>5, <2>6 DEF MembersHaveAccounts, ActiveRow
<1>2. ASSUME NEW u \in User, RegisterAccount(u)
      PROVE  OneOwnerPerOrganization' /\ OneOrganizationPerUser' /\ OnePlatformOwner'
               /\ MembersHaveAccounts'
  <2>1. OnePlatformOwner' /\ MembersHaveAccounts'
    BY <1>0, <1>2, NoRowNoOwner, DeploymentRowStep DEF RegisterAccount, ActiveRow, Row, Roles
  <2>2. OneOwnerPerOrganization' /\ OneOrganizationPerUser'
    BY <1>0, <1>2 DEF RegisterAccount, OneOwnerPerOrganization, OneOrganizationPerUser,
                      IsOwner, ActiveMembers
  <2>3. QED
    BY <2>1, <2>2
<1>3. ASSUME NEW r \in Request, NEW o \in Org, create(r, o)
      PROVE  OneOwnerPerOrganization' /\ OneOrganizationPerUser' /\ OnePlatformOwner'
               /\ MembersHaveAccounts'
  <2> DEFINE u == req[r].actor.user
  <2>1. u \in User
    BY <1>0, <1>3, RequestParts DEF create
  <2>2. \A k \in Org : mem[k][u].status # "active"
    BY <1>0, <1>3, <2>1, NoCurrentOrg DEF create
  <2>3. OneOwnerPerOrganization' /\ OneOrganizationPerUser'
    BY <1>0, <1>3, <2>1, <2>2, JoinStep DEF create, Roles
  <2>4. OnePlatformOwner'
    BY <1>0, <1>3 DEF create, OnePlatformOwner, IsSetUp
  <2>5. MembersHaveAccounts'
    BY <1>0, <1>3, <2>1 DEF create, MembersHaveAccounts, joinOrganization, TypeOK, Enrolled
  <2>6. QED
    BY <2>3, <2>4, <2>5
<1>4. ASSUME NEW r \in Request, NEW i \in Invitation, join(r, i)
      PROVE  OneOwnerPerOrganization' /\ OneOrganizationPerUser' /\ OnePlatformOwner'
               /\ MembersHaveAccounts'
  <2> DEFINE u == req[r].actor.user
             o == inv[i].org
  <2>1. u \in User /\ o \in Org /\ inv[i].role \in Roles /\ inv[i].role # "owner"
    BY <1>0, <1>4, RequestParts DEF join, activeInvitation, TypeOK, InvitationRow, Roles
  <2>2. \A k \in Org : mem[k][u].status # "active"
    BY <1>0, <1>4, <2>1, NoCurrentOrg DEF join, activeInvitation
  <2>3. joinOrganization(o, u, inv[i].role) /\ org[o] = "active" /\ org' = org
    BY <1>4 DEF join, activeInvitation
  <2>4. OneOwnerPerOrganization' /\ OneOrganizationPerUser'
    BY <1>0, <2>1, <2>2, <2>3, JoinStep
  <2>5. OnePlatformOwner'
    BY <1>0, <1>4 DEF join, OnePlatformOwner, IsSetUp
  <2>6. MembersHaveAccounts'
    BY <1>0, <1>4, <2>1 DEF join, MembersHaveAccounts, joinOrganization, TypeOK, Enrolled
  <2>7. QED
    BY <2>4, <2>5, <2>6
<1>5. ASSUME NEW r \in Request, leave(r)
      PROVE  OneOwnerPerOrganization' /\ OneOrganizationPerUser' /\ OnePlatformOwner'
               /\ MembersHaveAccounts'
  <2> DEFINE u == req[r].actor.user
             o == req[r].actor.org
             row == [mem[o][u] EXCEPT !.status = "revoked"]
  <2>1. u \in User /\ o \in Org
    BY <1>0, <1>5, RequestParts DEF leave, StillIn, CurrentOrgs
  <2>2. mem[o][u].status = "active" /\ mem[o][u].role # "owner"
    BY <1>5 DEF leave, StillIn, CurrentOrgs, MemberOf
  <2>3. row \in Row /\ row.role # "owner"
    <3>1. mem[o][u] \in Row
      BY <1>0, <2>1 DEF TypeOK
    <3>2. QED
      BY <2>2, <3>1, RowParts
  <2>4. mem' = [mem EXCEPT ![o][u] = row] /\ UNCHANGED <<dep, org>>
    BY <1>0, <1>5, <2>1 DEF leave, revokeOrganizationMember, TypeOK
  <2> HIDE DEF u, o, row
  <2>5. OneOwnerPerOrganization' /\ OneOrganizationPerUser' /\ MembersHaveAccounts'
    BY <1>0, <2>1, <2>2, <2>3, <2>4, LowerRoleStep
  <2>6. QED
    BY <1>0, <2>4, <2>5 DEF OnePlatformOwner, IsSetUp
<1>6. ASSUME NEW r \in Request, NEW v \in User, transfer(r, v)
      PROVE  OneOwnerPerOrganization' /\ OneOrganizationPerUser' /\ OnePlatformOwner'
               /\ MembersHaveAccounts'
  <2> DEFINE u == req[r].actor.user
             o == req[r].actor.org
  <2>1. u \in User /\ o \in Org /\ u # v
    BY <1>0, <1>6, RequestParts DEF transfer, StillIn, CurrentOrgs
  <2>2. IsOwner(o, u) /\ org[o] = "active" /\ mem[o][v].status = "active"
    BY <1>6 DEF transfer, StillIn, CurrentOrgs, MemberOf, IsOwner
  <2>3. \A k \in Org, w \in User :
          /\ mem'[k][w].status = mem[k][w].status
          /\ mem'[k][w].role = IF k = o /\ w = u THEN "admin"
                               ELSE IF k = o /\ w = v THEN "owner" ELSE mem[k][w].role
    <3>1. mem' = [mem EXCEPT ![o][u].role = "admin", ![o][v].role = "owner"]
      BY <1>6 DEF transfer
    <3>2. \A k \in Org, w \in User :
            mem'[k][w] = IF k = o /\ w = u THEN [mem[k][w] EXCEPT !.role = "admin"]
                         ELSE IF k = o /\ w = v THEN [mem[k][w] EXCEPT !.role = "owner"]
                         ELSE mem[k][w]
      BY <1>0, <2>1, <3>1 DEF TypeOK
    <3>3. \A k \in Org, w \in User : mem[k][w] \in Row
      BY <1>0 DEF TypeOK
    <3> HIDE DEF u, o
    <3>4. TAKE k \in Org, w \in User
    <3>5. mem[k][w] \in Row
      BY <3>3
    <3>6. /\ [mem[k][w] EXCEPT !.role = "admin"].role = "admin"
          /\ [mem[k][w] EXCEPT !.role = "admin"].status = mem[k][w].status
          /\ [mem[k][w] EXCEPT !.role = "owner"].role = "owner"
          /\ [mem[k][w] EXCEPT !.role = "owner"].status = mem[k][w].status
      BY ONLY <3>5, RowParts, Zenon
    <3>7. CASE k = o /\ w = u
      BY <3>2, <3>6, <3>7
    <3>8. CASE k = o /\ w = v /\ w # u
      BY <3>2, <3>6, <3>8
    <3>9. CASE ~(k = o /\ w \in {u, v})
      BY <3>2, <3>9
    <3>10. QED
      BY <3>7, <3>8, <3>9
  <2>4. UNCHANGED <<dep, org>>
    BY <1>6 DEF transfer
  <2> HIDE DEF u, o
  <2>5. OneOwnerPerOrganization'
    BY <1>0, <2>1, <2>2, <2>3, <2>4 DEF OneOwnerPerOrganization, IsOwner, ActiveMembers
  <2>6. OneOrganizationPerUser' /\ MembersHaveAccounts'
    BY <1>0, <2>3, <2>4 DEF OneOrganizationPerUser, MembersHaveAccounts
  <2>7. QED
    BY <1>0, <2>4, <2>5, <2>6 DEF OnePlatformOwner, IsSetUp
<1>7. ASSUME NEW r \in Request, dissolve(r)
      PROVE  OneOwnerPerOrganization' /\ OneOrganizationPerUser' /\ OnePlatformOwner'
               /\ MembersHaveAccounts'
  <2> DEFINE o == req[r].actor.org
  <2>1. o \in Org
    BY <1>7 DEF dissolve, StillIn, CurrentOrgs
  <2>2. \A k \in Org, w \in User :
          mem'[k][w] = IF k = o /\ mem[k][w].status = "active"
                       THEN [mem[k][w] EXCEPT !.status = "revoked"] ELSE mem[k][w]
    BY <1>0, <1>7, <2>1 DEF dissolve, TypeOK, ActiveMembers
  <2>3. \A k \in Org, w \in User :
          /\ mem'[k][w].status = IF k = o /\ mem[k][w].status = "active"
                                 THEN "revoked" ELSE mem[k][w].status
          /\ mem'[k][w].role = mem[k][w].role
    <3>1. TAKE k \in Org, w \in User
    <3>2. mem[k][w] \in Row
      BY <1>0 DEF TypeOK
    <3>3. /\ [mem[k][w] EXCEPT !.status = "revoked"].status = "revoked"
          /\ [mem[k][w] EXCEPT !.status = "revoked"].role = mem[k][w].role
      BY ONLY <3>2, RowParts, Zenon
    <3>4. CASE k = o /\ mem[k][w].status = "active"
      BY <2>2, <3>3, <3>4
    <3>5. CASE ~(k = o /\ mem[k][w].status = "active")
      BY <2>2, <3>5
    <3>6. QED
      BY <3>4, <3>5
  <2>4. \A k \in Org : org'[k] = IF k = o THEN "disabled" ELSE org[k]
    BY <1>0, <1>7 DEF dissolve, TypeOK
  <2>5. UNCHANGED dep
    BY <1>7 DEF dissolve
  <2> HIDE DEF o
  <2>6. OneOwnerPerOrganization'
    BY <1>0, <2>1, <2>3, <2>4 DEF OneOwnerPerOrganization, IsOwner, ActiveMembers
  <2>7. OneOrganizationPerUser' /\ MembersHaveAccounts'
    BY <1>0, <2>3, <2>5 DEF OneOrganizationPerUser, MembersHaveAccounts
  <2>8. QED
    BY <1>0, <2>5, <2>6, <2>7 DEF OnePlatformOwner, IsSetUp
<1>8. ASSUME NEW r \in Request, NEW role \in Roles, NEW st \in {"active", "revoked"},
             NEW n \in BOOLEAN, UpdateMember(r, role, st, n)
      PROVE  OneOwnerPerOrganization' /\ OneOrganizationPerUser' /\ OnePlatformOwner'
               /\ MembersHaveAccounts'
  <2> DEFINE u == req[r].target.user
             o == req[r].target.scope
             row == [role |-> role, status |-> st]
  <2>1. u \in User /\ o \in Org
    BY <1>0, <1>8, RequestParts DEF UpdateMember, Target
  <2>2. mem[o][u].status = "active" /\ mem[o][u].role # "owner" /\ role # "owner"
    BY <1>8 DEF UpdateMember, requireOrganizationManager, MayManage
  <2>3. row \in Row /\ row.role # "owner"
    BY <2>2 DEF Row
  <2>4. mem' = [mem EXCEPT ![o][u] = row] /\ UNCHANGED <<dep, org>>
    BY <1>8 DEF UpdateMember
  <2> HIDE DEF u, o, row
  <2>5. OneOwnerPerOrganization' /\ OneOrganizationPerUser' /\ MembersHaveAccounts'
    BY <1>0, <2>1, <2>2, <2>3, <2>4, LowerRoleStep
  <2>6. QED
    BY <1>0, <2>4, <2>5 DEF OnePlatformOwner, IsSetUp
<1>9. ASSUME NEW r \in Request, NEW v \in User, NEW role \in Roles,
             CreateDeploymentMember(r, v, role)
      PROVE  OneOwnerPerOrganization' /\ OneOrganizationPerUser' /\ OnePlatformOwner'
               /\ MembersHaveAccounts'
  <2>1. IsSetUp
    BY <1>0, <1>9, RequestParts DEF CreateDeploymentMember, mayCreateMember, requireDeploymentManager,
                                    Enrolled, IsSetUp
  <2>2. ActiveRow(role) \in Row /\ role # "owner"
    BY <1>9 DEF CreateDeploymentMember, mayCreateMember, MayManage, ActiveRow, Row
  <2>3. OnePlatformOwner' /\ MembersHaveAccounts'
    BY <1>0, <1>9, <2>1, <2>2, NoRowNoOwner, DeploymentRowStep
       DEF CreateDeploymentMember, ActiveRow
  <2>4. OneOwnerPerOrganization' /\ OneOrganizationPerUser'
    BY <1>0, <1>9 DEF CreateDeploymentMember, OneOwnerPerOrganization,
                      OneOrganizationPerUser, IsOwner, ActiveMembers
  <2>5. QED
    BY <2>3, <2>4
<1>10. ASSUME NEW r \in Request, NEW role \in Roles, NEW st \in {"active", "revoked"},
              NEW n \in BOOLEAN, UpdateDeploymentMember(r, role, st, n)
       PROVE  OneOwnerPerOrganization' /\ OneOrganizationPerUser' /\ OnePlatformOwner'
                /\ MembersHaveAccounts'
  <2> DEFINE u == req[r].target.user
             row == [role |-> role, status |-> st]
  <2>1. u \in User /\ req[r].actor.user \in User
    BY <1>0, <1>10, RequestParts DEF UpdateDeploymentMember, Target
  <2>2. dep[u].role # "owner" /\ role # "owner" /\ IsSetUp
    BY <1>10, <2>1 DEF UpdateDeploymentMember, requireDeploymentManager, MayManage,
                       Enrolled, IsSetUp
  <2>3. row \in Row /\ row.role # "owner" /\ row.status # "none"
    BY <2>2 DEF Row
  <2>4. dep' = [dep EXCEPT ![u] = row] /\ UNCHANGED <<org, mem>>
    BY <1>10 DEF UpdateDeploymentMember
  <2> HIDE DEF u, row
  <2>5. OnePlatformOwner' /\ MembersHaveAccounts'
    BY <1>0, <2>1, <2>2, <2>3, <2>4, DeploymentRowStep
  <2>6. OneOwnerPerOrganization' /\ OneOrganizationPerUser'
    BY <1>0, <2>4 DEF OneOwnerPerOrganization, OneOrganizationPerUser, IsOwner,
                      ActiveMembers
  <2>7. QED
    BY <2>5, <2>6
<1>11. ASSUME NEW u \in User, NEW i \in Invitation, AcceptOrganizationInvitation(u, i)
       PROVE  OneOwnerPerOrganization' /\ OneOrganizationPerUser' /\ OnePlatformOwner'
                /\ MembersHaveAccounts'
  <2> DEFINE o == inv[i].org
  <2>1. o \in Org /\ inv[i].role \in Roles /\ inv[i].role # "owner"
    BY <1>0, <1>11 DEF AcceptOrganizationInvitation, activeInvitation, TypeOK, InvitationRow, Roles
  <2>2. \A k \in Org : mem[k][u].status = "none"
    BY <1>0, <1>11 DEF AcceptOrganizationInvitation, activeInvitation, MembersHaveAccounts
  <2>3. joinOrganization(o, u, inv[i].role) /\ org[o] = "active" /\ org' = org
    BY <1>11 DEF AcceptOrganizationInvitation, activeInvitation
  <2>4. OneOwnerPerOrganization' /\ OneOrganizationPerUser'
    BY <1>0, <2>1, <2>2, <2>3, JoinStep
  <2>5. \A v \in User : dep'[v] = IF v = u THEN ActiveRow("member") ELSE dep[v]
    BY <1>0, <1>11 DEF AcceptOrganizationInvitation, activeInvitation, TypeOK
  <2>6. PICK w \in User : IsOwner(o, w)
    BY <1>0, <2>1, <2>3 DEF OneOwnerPerOrganization
  <2>7. IsSetUp
    BY <1>0, <2>1, <2>6 DEF IsOwner, MembersHaveAccounts, IsSetUp
  <2>8. OnePlatformOwner'
    BY <1>0, <1>11, <2>5, <2>7, NoRowNoOwner
       DEF AcceptOrganizationInvitation, OnePlatformOwner, IsSetUp, ActiveRow
  <2>9. \A k \in Org, v \in User : v # u => mem'[k][v] = mem[k][v]
    BY <1>0, <2>1, <2>3 DEF joinOrganization, TypeOK
  <2>10. MembersHaveAccounts'
    BY <1>0, <2>5, <2>9 DEF MembersHaveAccounts, ActiveRow
  <2>11. QED
    BY <2>4, <2>8, <2>10
<1>12. ASSUME UNCHANGED <<dep, org, mem>>
       PROVE  OneOwnerPerOrganization' /\ OneOrganizationPerUser' /\ OnePlatformOwner'
                /\ MembersHaveAccounts'
  BY <1>12, Untouched
<1>13. QED
  BY <1>1, <1>2, <1>3, <1>4, <1>5, <1>6, <1>7, <1>8, <1>9, <1>10, <1>11, <1>12
     DEF Next, vars, TouchUser, ResolveSession, Abandon, ReadMember, ReadDeploymentMember,
         rename, CreateOrganizationInvitation, RevokeOrganizationInvitation,
         DeleteOrganizationInvitation, Expire

\* The inductive invariant of the membership tables.
THEOREM InvariantHolds == Spec => []MembershipInvariant
<1>1. Init => MembershipInvariant
  <2>1. Init => TypeOK
    BY DEF Init, TypeOK, NoRow, Row, Roles, NoInvitation, InvitationRow, RequestState, Idle
  <2>2. Init => OneOwnerPerOrganization /\ OneOrganizationPerUser /\ OnePlatformOwner
                  /\ MembersHaveAccounts
    BY DEF Init, NoRow, OneOwnerPerOrganization, OneOrganizationPerUser, OnePlatformOwner,
           MembersHaveAccounts, IsOwner, ActiveMembers, IsSetUp
  <2>3. QED
    BY <2>1, <2>2 DEF MembershipInvariant
<1>2. QED
  BY <1>1, InvariantStep, PTL DEF Spec

\* Every active organization has exactly one active owner: leave, transfer,
\* UpdateMember and dissolve check the owner's row under the control lock.
THEOREM SingleOwner == Spec => []OneOwnerPerOrganization
<1>1. MembershipInvariant => OneOwnerPerOrganization
  BY DEF MembershipInvariant
<1>2. QED
  BY <1>1, InvariantHolds, PTL

\* Nobody is ever an active member of two organizations.
THEOREM SingleOrganization == Spec => []OneOrganizationPerUser
<1>1. MembershipInvariant => OneOrganizationPerUser
  BY DEF MembershipInvariant
<1>2. QED
  BY <1>1, InvariantHolds, PTL

\* The platform owner is unique and never loses access to the deployment.
THEOREM SinglePlatformOwner == Spec => []OnePlatformOwner
<1>1. MembershipInvariant => OnePlatformOwner
  BY DEF MembershipInvariant
<1>2. QED
  BY <1>1, InvariantHolds, PTL

-----------------------------------------------------------------------------
(* What the steps may do: Membership implements Directory, and the properties *)
(* of its transactions.                                                       *)

\* The organization of a user (webPrincipal's join) is where it is active.
LEMMA HomeIs ==
  ASSUME MembershipInvariant, NEW u \in User
  PROVE  /\ \A o \in Org : HomeOf(u) = o <=> mem[o][u].status = "active"
         /\ HomeOf(u) = NoOrg <=> \A o \in Org : mem[o][u].status # "active"
<1>1. \A o \in Org : mem[o][u].status = "active" <=> o \in CurrentOrgs(u)
  BY DEF MembershipInvariant, OneOwnerPerOrganization, ActiveMembers, CurrentOrgs, MemberOf
<1>2. CASE CurrentOrgs(u) = {}
  BY <1>1, <1>2, NoOrgAssumption DEF HomeOf
<1>3. CASE CurrentOrgs(u) # {}
  <2>1. HomeOf(u) \in CurrentOrgs(u) /\ CurrentOrgs(u) \subseteq Org
    BY <1>3 DEF HomeOf, CurrentOrgs
  <2>2. \A o \in CurrentOrgs(u) : o = HomeOf(u)
    BY <1>1, <2>1 DEF MembershipInvariant, OneOrganizationPerUser
  <2>. QED
    BY <1>1, <1>3, <2>1, <2>2, NoOrgAssumption
<1>. QED
  BY <1>2, <1>3

\* The same, after a step.
LEMMA HomeIsNext ==
  ASSUME MembershipInvariant', NEW u \in User
  PROVE  /\ \A o \in Org : HomeOf(u)' = o <=> mem'[o][u].status = "active"
         /\ HomeOf(u)' = NoOrg <=> \A o \in Org : mem'[o][u].status # "active"
<1>1. \A o \in Org : mem'[o][u].status = "active" <=> o \in CurrentOrgs(u)'
  BY DEF MembershipInvariant, OneOwnerPerOrganization, ActiveMembers, CurrentOrgs, MemberOf
<1>2. CASE CurrentOrgs(u)' = {}
  BY <1>1, <1>2, NoOrgAssumption DEF HomeOf
<1>3. CASE CurrentOrgs(u)' # {}
  <2>1. HomeOf(u)' \in CurrentOrgs(u)' /\ CurrentOrgs(u)' \subseteq Org
    BY <1>3 DEF HomeOf, CurrentOrgs
  <2>2. \A o \in CurrentOrgs(u)' : o = HomeOf(u)'
    BY <1>1, <2>1 DEF MembershipInvariant, OneOrganizationPerUser
  <2>. QED
    BY <1>1, <1>3, <2>1, <2>2, NoOrgAssumption
<1>. QED
  BY <1>2, <1>3

\* Nobody changes organization as long as nobody's rows change between active and not.
LEMMA HomesStay ==
  ASSUME MembershipInvariant, MembershipInvariant',
         \A o \in Org, u \in User : mem'[o][u].status = "active" <=> mem[o][u].status = "active"
  PROVE  [u \in User |-> HomeOf(u)]' = [u \in User |-> HomeOf(u)]
<1>1. ASSUME NEW u \in User
      PROVE  HomeOf(u)' = HomeOf(u)
  <2>1. CASE \A o \in Org : mem[o][u].status # "active"
    BY <2>1, HomeIs, HomeIsNext
  <2>2. CASE \E o \in Org : mem[o][u].status = "active"
    BY <2>2, HomeIs, HomeIsNext
  <2>. QED
    BY <2>1, <2>2
<1>. QED
  BY <1>1

\* One user enters an organization, or leaves the one it was in.
LEMMA HomeChanges ==
  ASSUME MembershipInvariant, MembershipInvariant', NEW u \in User, NEW o \in Org,
         \A k \in Org, v \in User : k # o \/ v # u =>
           (mem'[k][v].status = "active" <=> mem[k][v].status = "active"),
         mem'[o][u].status = "active" <=> mem[o][u].status # "active"
  PROVE  [w \in User |-> HomeOf(w)]' =
           [[w \in User |-> HomeOf(w)] EXCEPT ![u] =
              IF mem'[o][u].status = "active" THEN o ELSE NoOrg]
<1>1. ASSUME NEW v \in User, v # u
      PROVE  HomeOf(v)' = HomeOf(v)
  <2>1. CASE \A k \in Org : mem[k][v].status # "active"
    BY <1>1, <2>1, HomeIs, HomeIsNext
  <2>2. CASE \E k \in Org : mem[k][v].status = "active"
    BY <1>1, <2>2, HomeIs, HomeIsNext
  <2>. QED
    BY <2>1, <2>2
<1>2. HomeOf(u)' = IF mem'[o][u].status = "active" THEN o ELSE NoOrg
  <2>1. CASE mem'[o][u].status = "active"
    BY <2>1, HomeIsNext
  <2>2. CASE mem'[o][u].status # "active"
    <3>1. mem[o][u].status = "active"
      BY <2>2
    <3>2. \A k \in Org : k # o => mem[k][u].status # "active"
      BY <3>1 DEF MembershipInvariant, OneOrganizationPerUser
    <3>3. \A k \in Org : mem'[k][u].status # "active"
      BY <2>2, <3>2
    <3>. QED
      BY <2>2, <3>3, HomeIsNext
  <2>. QED
    BY <2>1, <2>2
<1>. QED
  BY <1>1, <1>2

-----------------------------------------------------------------------------
(* Membership implements Directory. *)

\* Entering an organization (joinOrganization), with an account that may be new.
LEMMA EntersAsAdmit ==
  ASSUME MembershipInvariant, MembershipInvariant', NEW u \in User, NEW o \in Org,
         NEW role, joinOrganization(o, u, role),
         \A k \in Org : mem[k][u].status # "active",
         \A v \in User : dep'[v].status = IF v = u THEN "active" ELSE dep[v].status,
         dep[u].status # "revoked",
         \A k \in Org : (org'[k] = "disabled" <=> org[k] = "disabled"),
         org[o] # "disabled"
  PROVE  D!Admit(u, o)
<1>1. \A k \in Org, v \in User :
        mem'[k][v] = IF k = o /\ v = u THEN [role |-> role, status |-> "active"] ELSE mem[k][v]
  BY DEF MembershipInvariant, TypeOK, joinOrganization, ActiveRow
<1>2. HomeOf(u) = NoOrg
  BY HomeIs
<1>3. [w \in User |-> HomeOf(w)]' = [[w \in User |-> HomeOf(w)] EXCEPT ![u] = o]
  <2>1. mem'[o][u].status = "active" /\ mem[o][u].status # "active"
    BY <1>1
  <2>2. \A k \in Org, v \in User : k # o \/ v # u =>
          (mem'[k][v].status = "active" <=> mem[k][v].status = "active")
    BY <1>1
  <2>4. mem'[o][u].status = "active" <=> mem[o][u].status # "active"
    BY <2>1
  <2>3. [w \in User |-> HomeOf(w)]' =
          [[w \in User |-> HomeOf(w)] EXCEPT ![u] = IF mem'[o][u].status = "active" THEN o ELSE NoOrg]
    BY ONLY <2>2, <2>4, MembershipInvariant, MembershipInvariant', u \in User, o \in Org, HomeChanges
  <2>. QED
    BY <2>1, <2>3
<1>4. [v \in User |-> dep'[v].status] = [[v \in User |-> dep[v].status] EXCEPT ![u] = "active"]
  OBVIOUS
<1>. QED
  BY <1>2, <1>3, <1>4 DEF D!Admit

\* Leaving or being removed (revokeOrganizationMember): the owner stays behind.
LEMMA LeavesAsRemove ==
  ASSUME MembershipInvariant, MembershipInvariant', NEW u \in User, NEW o \in Org,
         org[o] = "active", mem[o][u].status = "active", mem[o][u].role # "owner",
         \A k \in Org, v \in User : k # o \/ v # u => mem'[k][v] = mem[k][v],
         mem'[o][u].status # "active", UNCHANGED <<dep, org>>
  PROVE  D!Remove(u)
<1>1. PICK v \in User : IsOwner(o, v)
  BY DEF MembershipInvariant, OneOwnerPerOrganization
<1>2. HomeOf(u) = o /\ HomeOf(v) = o /\ v # u /\ o # NoOrg
  BY <1>1, HomeIs, NoOrgAssumption DEF IsOwner
<1>3. [w \in User |-> HomeOf(w)]' = [[w \in User |-> HomeOf(w)] EXCEPT ![u] = NoOrg]
  BY HomeChanges
<1>4. v \in D!Members([w \in User |-> HomeOf(w)][u])
  BY <1>2 DEF D!Members
<1>. QED
  BY <1>2, <1>3, <1>4 DEF D!Remove

\* Each of these is a step of Directory.
LEMMA StepsOfDirectory ==
  /\ \A u \in User : D!Enroll(u) \/ D!Remove(u) \/ D!Suspend(u) \/ D!Restore(u) =>
                     D!DirectoryNext
  /\ \A o \in Org : D!Dissolve(o) => D!DirectoryNext
BY DEF D!DirectoryNext

\* One step per transaction that changes access, membership or an organization.
LEMMA DirectoryStep ==
  ASSUME MembershipInvariant, MembershipInvariant', [Next]_vars
  PROVE  [D!DirectoryNext]_(D!directoryVars)
<1>. USE DEF D!directoryVars
<1>0. TypeOK
  BY DEF MembershipInvariant
<1>1. ASSUME NEW u \in User, NEW o \in Org, CreateOwner(u, o)
      PROVE  D!DirectoryNext
  <2>1. \A k \in Org : mem[k][u].status # "active"
    BY <1>1 DEF CreateOwner, MembershipInvariant, MembersHaveAccounts
  <2>2. \A v \in User : dep'[v].status = IF v = u THEN "active" ELSE dep[v].status
    BY <1>0, <1>1 DEF CreateOwner, TypeOK, ActiveRow
  <2>3. \A k \in Org : (org'[k] = "disabled" <=> org[k] = "disabled")
    BY <1>0, <1>1 DEF CreateOwner, TypeOK
  <2>4. joinOrganization(o, u, "owner") /\ org[o] # "disabled" /\ dep[u].status # "revoked"
    BY <1>1 DEF CreateOwner
  <2>. QED
    BY <2>1, <2>2, <2>3, <2>4, EntersAsAdmit DEF D!DirectoryNext
<1>2. ASSUME NEW u \in User, NEW role, dep[u].status = "none",
             dep' = [dep EXCEPT ![u] = ActiveRow(role)], UNCHANGED <<org, mem>>
      PROVE  D!DirectoryNext
  <2>1. [v \in User |-> dep'[v].status] = [[v \in User |-> dep[v].status] EXCEPT ![u] = "active"]
    BY <1>0, <1>2 DEF TypeOK, ActiveRow
  <2>2. [v \in User |-> HomeOf(v)]' = [v \in User |-> HomeOf(v)]
    BY <1>2, HomesStay
  <2>3. D!Enroll(u)
    BY <1>2, <2>1, <2>2 DEF D!Enroll
  <2>. QED
    BY <2>3 DEF D!DirectoryNext
<1>3. ASSUME NEW r \in Request, NEW o \in Org, create(r, o)
      PROVE  D!DirectoryNext
  <2> DEFINE u == req[r].actor.user
  <2>1. u \in User
    BY <1>0, <1>3, RequestParts DEF create
  <2>2. \A k \in Org : mem[k][u].status # "active"
    BY <1>3, <2>1, NoCurrentOrg DEF create, MembershipInvariant
  <2>3. \A v \in User : dep'[v].status = IF v = u THEN "active" ELSE dep[v].status
    BY <1>3 DEF create, Enrolled
  <2>4. \A k \in Org : (org'[k] = "disabled" <=> org[k] = "disabled")
    BY <1>0, <1>3 DEF create, TypeOK
  <2>5. joinOrganization(o, u, "owner") /\ org[o] # "disabled" /\ dep[u].status # "revoked"
    BY <1>3 DEF create, Enrolled
  <2>. QED
    BY <2>1, <2>2, <2>3, <2>4, <2>5, EntersAsAdmit DEF D!DirectoryNext
<1>4. ASSUME NEW r \in Request, NEW i \in Invitation, join(r, i)
      PROVE  D!DirectoryNext
  <2> DEFINE u == req[r].actor.user
             o == inv[i].org
  <2>1. u \in User /\ o \in Org
    BY <1>0, <1>4, RequestParts DEF join, activeInvitation
  <2>2. \A k \in Org : mem[k][u].status # "active"
    BY <1>4, <2>1, NoCurrentOrg DEF join, MembershipInvariant
  <2>3. \A v \in User : dep'[v].status = IF v = u THEN "active" ELSE dep[v].status
    BY <1>4 DEF join, Enrolled
  <2>4. \A k \in Org : (org'[k] = "disabled" <=> org[k] = "disabled")
    BY <1>4 DEF join
  <2>5. joinOrganization(o, u, inv[i].role) /\ org[o] # "disabled" /\ dep[u].status # "revoked"
    BY <1>4 DEF join, Enrolled, activeInvitation
  <2>. QED
    BY <2>1, <2>2, <2>3, <2>4, <2>5, EntersAsAdmit DEF D!DirectoryNext
<1>5. ASSUME NEW u \in User, NEW i \in Invitation, AcceptOrganizationInvitation(u, i)
      PROVE  D!DirectoryNext
  <2> DEFINE o == inv[i].org
  <2>1. o \in Org
    BY <1>5 DEF AcceptOrganizationInvitation, activeInvitation
  <2>2. \A k \in Org : mem[k][u].status # "active"
    BY <1>5 DEF AcceptOrganizationInvitation, MembershipInvariant, MembersHaveAccounts
  <2>3. \A v \in User : dep'[v].status = IF v = u THEN "active" ELSE dep[v].status
    BY <1>0, <1>5 DEF AcceptOrganizationInvitation, TypeOK, ActiveRow
  <2>4. \A k \in Org : (org'[k] = "disabled" <=> org[k] = "disabled")
    BY <1>5 DEF AcceptOrganizationInvitation
  <2>5. joinOrganization(o, u, inv[i].role) /\ org[o] # "disabled" /\ dep[u].status # "revoked"
    BY <1>5 DEF AcceptOrganizationInvitation, activeInvitation
  <2>. QED
    BY <2>1, <2>2, <2>3, <2>4, <2>5, EntersAsAdmit DEF D!DirectoryNext
<1>6. ASSUME NEW r \in Request, leave(r)
      PROVE  D!DirectoryNext
  <2> DEFINE u == req[r].actor.user
             o == req[r].actor.org
  <2>1. u \in User /\ o \in Org
    BY <1>0, <1>6, RequestParts DEF leave, StillIn, CurrentOrgs
  <2>2. org[o] = "active" /\ mem[o][u].status = "active" /\ mem[o][u].role # "owner"
    BY <1>6 DEF leave, StillIn, CurrentOrgs, MemberOf
  <2>3. mem' = [mem EXCEPT ![o][u].status = "revoked"] /\ UNCHANGED <<dep, org>>
    BY <1>6 DEF leave, revokeOrganizationMember
  <2>4. /\ \A k \in Org, v \in User : k # o \/ v # u => mem'[k][v] = mem[k][v]
        /\ mem'[o][u] = [mem[o][u] EXCEPT !.status = "revoked"] /\ mem[o][u] \in Row
    BY <1>0, <2>1, <2>3 DEF TypeOK
  <2>5. mem'[o][u].status # "active"
    BY <2>4, RowParts
  <2>. HIDE DEF u, o
  <2>6. D!Remove(u)
    BY <2>1, <2>2, <2>3, <2>4, <2>5, LeavesAsRemove
  <2>. QED
    BY <2>1, <2>6 DEF D!DirectoryNext
<1>7. ASSUME NEW r \in Request, NEW role \in Roles, NEW st \in {"active", "revoked"},
             NEW n \in BOOLEAN, UpdateMember(r, role, st, n)
      PROVE  [D!DirectoryNext]_(D!directoryVars)
  <2> DEFINE u == req[r].target.user
             o == req[r].target.scope
  <2>1. u \in User /\ o \in Org
    BY <1>0, <1>7, RequestParts, Zenon DEF UpdateMember, Target
  <2>2. org[o] = "active" /\ mem[o][u].status = "active" /\ mem[o][u].role # "owner"
    BY <1>7, Zenon DEF UpdateMember, requireOrganizationManager, MayManage, MemberOf
  <2>3. /\ mem' = [mem EXCEPT ![o][u] = [role |-> role, status |-> st]]
        /\ UNCHANGED <<dep, org>>
    BY <1>7, Zenon DEF UpdateMember
  <2>4. /\ \A k \in Org, v \in User : k # o \/ v # u => mem'[k][v] = mem[k][v]
        /\ mem'[o][u].status = st
    BY <1>0, <2>1, <2>3 DEF TypeOK
  <2>. HIDE DEF u, o
  <2>5. CASE st = "revoked"
    <3>1. D!Remove(u)
      BY <2>1, <2>2, <2>3, <2>4, <2>5, LeavesAsRemove
    <3>. QED
      BY <2>1, <3>1 DEF D!DirectoryNext
  <2>6. CASE st = "active"
    <3>1. [v \in User |-> HomeOf(v)]' = [v \in User |-> HomeOf(v)]
      BY <2>2, <2>4, <2>6, HomesStay
    <3>. QED
      BY <2>3, <3>1
  <2>. QED
    BY <2>5, <2>6
<1>8. ASSUME NEW r \in Request, dissolve(r)
      PROVE  D!DirectoryNext
  <2>0. PICK o \in Org, a \in User : o = req[r].actor.org /\ a = req[r].actor.user
    BY <1>0, <1>8, RequestParts DEF dissolve, StillIn, CurrentOrgs
  <2>1. o \in Org /\ a \in User /\ Enrolled(a) /\ mem[o][a].status = "active"
    BY <2>0, <1>8 DEF dissolve, StillIn, CurrentOrgs, MemberOf
  <2>2. /\ mem' = [mem EXCEPT ![o] =
                     [u \in User |-> IF u \in ActiveMembers(o)
                                     THEN [mem[o][u] EXCEPT !.status = "revoked"]
                                     ELSE mem[o][u]]]
        /\ org' = [org EXCEPT ![o] = "disabled"] /\ UNCHANGED dep
    BY <2>0, <1>8 DEF dissolve
  <2>3. \A v \in User : mem'[o][v].status # "active"
    <3>1. \A v \in User : mem[o][v] \in Row
      BY <1>0, <2>1 DEF TypeOK
    <3>2. \A v \in User : [mem[o][v] EXCEPT !.status = "revoked"].status = "revoked"
      BY <3>1, RowParts
    <3>. QED
      BY <1>0, <2>1, <2>2, <3>2 DEF TypeOK, ActiveMembers
  <2>4. \A k \in Org, v \in User : k # o => mem'[k][v] = mem[k][v]
    BY <1>0, <2>1, <2>2 DEF TypeOK
  <2>5. ASSUME NEW v \in User
        PROVE  HomeOf(v)' = IF HomeOf(v) = o THEN NoOrg ELSE HomeOf(v)
    <3>1. CASE HomeOf(v) = o
      <4>1. \A k \in Org : k # o => mem[k][v].status # "active"
        BY <2>1, <3>1, HomeIs
      <4>. QED
        BY <2>3, <2>4, <3>1, <4>1, HomeIsNext
    <3>2. CASE HomeOf(v) = NoOrg /\ HomeOf(v) # o
      <4>1. \A k \in Org : mem'[k][v].status # "active"
        BY <2>3, <2>4, <3>2, HomeIs
      <4>. QED
        BY <3>2, <4>1, HomeIsNext
    <3>3. CASE HomeOf(v) # NoOrg /\ HomeOf(v) # o
      <4>1. PICK k \in Org : mem[k][v].status = "active"
        BY <3>3, HomeIs
      <4>2. HomeOf(v) = k
        BY <4>1, HomeIs
      <4>3. mem'[k][v].status = "active"
        BY <2>4, <3>3, <4>1, <4>2
      <4>. QED
        BY <3>3, <4>2, <4>3, HomeIsNext
    <3>. QED
      BY <3>1, <3>2, <3>3
  <2>6. {k \in Org : org'[k] = "disabled"} = {k \in Org : org[k] = "disabled"} \union {o}
    BY <1>0, <2>1, <2>2 DEF TypeOK
  <2>7. a \in D!Members(o) /\ dep[a].status = "active"
    BY <2>1, HomeIs DEF D!Members, Enrolled
  <2>8. D!Dissolve(o)
    <3>1. [v \in User |-> HomeOf(v)]' =
            [v \in User |-> IF [w \in User |-> HomeOf(w)][v] = o THEN NoOrg
                           ELSE [w \in User |-> HomeOf(w)][v]]
      BY <2>5
    <3>2. \E v \in D!Members(o) : [w \in User |-> dep[w].status][v] = "active"
      BY <2>1, <2>7
    <3>3. [v \in User |-> dep'[v].status] = [v \in User |-> dep[v].status]
      BY <2>2
    <3>. QED
      BY <2>6, <3>1, <3>2, <3>3 DEF D!Dissolve
  <2>. QED
    BY <2>8, StepsOfDirectory
<1>9. ASSUME NEW r \in Request, NEW role \in Roles, NEW st \in {"active", "revoked"},
             NEW n \in BOOLEAN, UpdateDeploymentMember(r, role, st, n)
      PROVE  [D!DirectoryNext]_(D!directoryVars)
  <2>0. PICK u \in User, a \in User : u = req[r].target.user /\ a = req[r].actor.user
    BY <1>0, <1>9, RequestParts DEF UpdateDeploymentMember, Target
  <2>1. u \in User /\ a \in User /\ dep[u].status \in {"active", "revoked"}
    BY <1>0, <2>0, <1>9, RequestParts DEF UpdateDeploymentMember, Target, TargetUnchanged
  <2>2. dep[a].status = "active" /\ ~(a = u /\ st = "revoked")
    BY <2>0, <1>9 DEF UpdateDeploymentMember, requireDeploymentManager, Enrolled
  <2>3. dep' = [dep EXCEPT ![u] = [role |-> role, status |-> st]] /\ UNCHANGED <<org, mem>>
    BY <2>0, <1>9 DEF UpdateDeploymentMember
  <2>4. [v \in User |-> dep'[v].status] = [[v \in User |-> dep[v].status] EXCEPT ![u] = st]
    BY <1>0, <2>1, <2>3 DEF TypeOK
  <2>5. [v \in User |-> HomeOf(v)]' = [v \in User |-> HomeOf(v)]
    BY <2>3, HomesStay
  <2>6. CASE dep[u].status = st
    <3>1. [v \in User |-> dep'[v].status] = [v \in User |-> dep[v].status]
      BY <2>1, <2>4, <2>6
    <3>. QED
      BY <2>3, <2>5, <3>1
  <2>7. CASE dep[u].status # st
    <3>1. a # u
      BY <2>1, <2>2, <2>7
    <3>2. D!SomebodyElse(u)
      BY <2>1, <2>2, <3>1 DEF D!SomebodyElse
    <3>3. CASE dep[u].status = "active"
      <4>1. st = "revoked"
        BY <2>7, <3>3
      <4>2. D!Suspend(u)
        BY <2>1, <2>3, <2>4, <2>5, <3>2, <3>3, <4>1 DEF D!Suspend
      <4>. QED
        BY <4>2, StepsOfDirectory
    <3>4. CASE dep[u].status = "revoked"
      <4>1. st = "active"
        BY <2>7, <3>4
      <4>2. D!Restore(u)
        BY <2>1, <2>3, <2>4, <2>5, <3>2, <3>4, <4>1 DEF D!Restore
      <4>. QED
        BY <4>2, StepsOfDirectory
    <3>. QED
      BY <2>1, <3>3, <3>4
  <2>. QED
    BY <2>6, <2>7
<1>10. ASSUME NEW r \in Request, NEW v \in User, transfer(r, v)
       PROVE  UNCHANGED D!directoryVars
  <2> DEFINE u == req[r].actor.user
             o == req[r].actor.org
  <2>1. u \in User /\ o \in Org
    BY <1>0, <1>10, RequestParts, Zenon DEF transfer, StillIn, CurrentOrgs
  <2>2. mem' = [mem EXCEPT ![o][u].role = "admin", ![o][v].role = "owner"] /\ u # v
    BY <1>10, Zenon DEF transfer
  <2>3. \A k \in Org, w \in User :
          mem'[k][w] = IF k = o /\ w = u THEN [mem[k][w] EXCEPT !.role = "admin"]
                       ELSE IF k = o /\ w = v THEN [mem[k][w] EXCEPT !.role = "owner"]
                       ELSE mem[k][w]
    BY <1>0, <2>1, <2>2, Zenon DEF TypeOK
  <2>. HIDE DEF u, o
  <2>4. ASSUME NEW k \in Org, NEW w \in User
        PROVE  mem'[k][w].status = mem[k][w].status
    <3>1. mem[k][w] \in Row
      BY <1>0 DEF TypeOK
    <3>2. /\ [mem[k][w] EXCEPT !.role = "admin"].status = mem[k][w].status
          /\ [mem[k][w] EXCEPT !.role = "owner"].status = mem[k][w].status
      BY <3>1, RowParts
    <3>. QED
      BY <2>3, <3>2
  <2>5. [w \in User |-> HomeOf(w)]' = [w \in User |-> HomeOf(w)]
    BY <2>4, HomesStay
  <2>. QED
    BY <1>10, <2>5, Zenon DEF transfer
<1>11. CASE UNCHANGED <<dep, org, mem>>
  <2>1. [w \in User |-> HomeOf(w)]' = [w \in User |-> HomeOf(w)]
    BY <1>11, HomesStay
  <2>. QED
    BY <1>11, <2>1
<1>. QED
  BY <1>1, <1>2, <1>3, <1>4, <1>5, <1>6, <1>7, <1>8, <1>9, <1>10, <1>11, ZenonT(60)
     DEF Next, vars, RegisterAccount, CreateDeploymentMember, TouchUser, ResolveSession, Abandon,
         ReadMember, ReadDeploymentMember, rename, CreateOrganizationInvitation,
         RevokeOrganizationInvitation, DeleteOrganizationInvitation, Expire

\* However requests interleave, access and membership change only as Directory
\* allows.
THEOREM DirectoryRefinement == Spec => ImplementsDirectory
<1>1. Init => D!DirectoryInit
  <2>. SUFFICES ASSUME Init PROVE D!DirectoryInit
    OBVIOUS
  <2>1. \A u \in User : CurrentOrgs(u) = {}
    BY Zenon DEF Init, CurrentOrgs, MemberOf
  <2>2. \A u \in User : HomeOf(u) = NoOrg
    BY <2>1, Zenon DEF HomeOf
  <2>. QED
    BY <2>2 DEF Init, NoRow, D!DirectoryInit
<1>2. MembershipInvariant /\ MembershipInvariant' /\ [Next]_vars =>
        [D!DirectoryNext]_(D!directoryVars)
  BY DirectoryStep
<1>. QED
  BY <1>1, <1>2, InvariantHolds, PTL DEF Spec, ImplementsDirectory, D!DirectorySpec
-----------------------------------------------------------------------------
(* Who changes a member's row, and what is announced. *)

\* A request that ends is idle afterwards, and was not before.
LEMMA RequestEnds ==
  ASSUME TypeOK, NEW r \in Request, NEW users, NEW scopes, Complete(r, users, scopes)
  PROVE  req'[r] = Idle
BY RestampedType DEF Complete

\* In an organization the owner outranks everybody else.
LEMMA OwnerOutranks ==
  ASSUME MembershipInvariant, NEW o \in Org, NEW a \in User, NEW v \in User,
         IsOwner(o, a), mem[o][v].status = "active"
  PROVE  a = v \/ Outranks(mem[o][a].role, mem[o][v].role)
BY DEF MembershipInvariant, OneOwnerPerOrganization, IsOwner, Outranks

\* Entering writes no row that was active.
LEMMA EntryKeepsActiveRows ==
  ASSUME MembershipInvariant, NEW k \in Org, NEW u \in User, NEW role,
         joinOrganization(k, u, role), \A j \in Org : mem[j][u].status # "active",
         NEW o \in Org, NEW v \in User, mem[o][v].status = "active"
  PROVE  mem'[o][v] = mem[o][v]
BY DEF MembershipInvariant, TypeOK, joinOrganization

\* A row that changes is changed by a request of the member or of a superior.
LEMMA SuperiorStep ==
  ASSUME MembershipInvariant, [Next]_vars, NEW o \in Org, NEW v \in User,
         mem[o][v].status = "active", mem'[o][v] # mem[o][v]
  PROVE  \E r \in Request :
           /\ req[r] # Idle /\ req'[r] = Idle
           /\ LET a == req[r].actor.user IN
                /\ Enrolled(a) /\ mem[o][a].status = "active"
                /\ a = v \/ Outranks(mem[o][a].role, mem[o][v].role)
<1>0. TypeOK /\ OneOwnerPerOrganization
  BY DEF MembershipInvariant
<1>1. ASSUME NEW u \in User, NEW k \in Org, CreateOwner(u, k)
      PROVE  FALSE
  <2>1. \A j \in Org : mem[j][u].status # "active"
    BY <1>1 DEF CreateOwner, MembershipInvariant, MembersHaveAccounts
  <2>. QED
    BY <1>1, <2>1, EntryKeepsActiveRows DEF CreateOwner
<1>2. ASSUME NEW r \in Request, NEW k \in Org, create(r, k)
      PROVE  FALSE
  <2>1. req[r].actor.user \in User
    BY <1>0, <1>2, RequestParts DEF create
  <2>2. \A j \in Org : mem[j][req[r].actor.user].status # "active"
    BY <1>0, <1>2, <2>1, NoCurrentOrg DEF create
  <2>. QED
    BY <1>2, <2>1, <2>2, EntryKeepsActiveRows DEF create
<1>3. ASSUME NEW r \in Request, NEW i \in Invitation, join(r, i)
      PROVE  FALSE
  <2>1. req[r].actor.user \in User /\ inv[i].org \in Org
    BY <1>0, <1>3, RequestParts DEF join, activeInvitation
  <2>2. \A j \in Org : mem[j][req[r].actor.user].status # "active"
    BY <1>0, <1>3, <2>1, NoCurrentOrg DEF join
  <2>. QED
    BY <1>3, <2>1, <2>2, EntryKeepsActiveRows DEF join
<1>4. ASSUME NEW u \in User, NEW i \in Invitation, AcceptOrganizationInvitation(u, i)
      PROVE  FALSE
  <2>1. \A j \in Org : mem[j][u].status # "active"
    BY <1>4 DEF AcceptOrganizationInvitation, MembershipInvariant, MembersHaveAccounts
  <2>. QED
    BY <1>4, <2>1, EntryKeepsActiveRows DEF AcceptOrganizationInvitation, activeInvitation
<1>5. ASSUME NEW r \in Request, leave(r)
      PROVE  req[r] # Idle /\ req'[r] = Idle /\ Enrolled(req[r].actor.user)
               /\ req[r].actor.user = v
  <2>1. /\ req[r].actor.org \in Org /\ req[r].actor.user \in User
        /\ mem' = [mem EXCEPT ![req[r].actor.org][req[r].actor.user].status = "revoked"]
    BY <1>0, <1>5, RequestParts, Zenon
       DEF leave, StillIn, CurrentOrgs, revokeOrganizationMember
  <2>2. req[r].actor.user = v
    BY <1>0, <2>1 DEF TypeOK
  <2>3. req'[r] = Idle
    BY <1>0, <1>5, RequestEnds DEF leave
  <2>4. req[r].phase = "resolved" /\ Enrolled(req[r].actor.user)
    BY <1>5 DEF leave, StillIn
  <2>5. req[r] # Idle
    BY <2>4 DEF Idle
  <2>. QED
    BY <2>2, <2>3, <2>4, <2>5
<1>6. ASSUME NEW r \in Request, NEW w \in User, transfer(r, w)
      PROVE  /\ req[r] # Idle /\ req'[r] = Idle
             /\ Enrolled(req[r].actor.user) /\ req[r].actor.user \in User
             /\ IsOwner(o, req[r].actor.user)
  <2>1. /\ req[r].actor.org \in Org /\ req[r].actor.user \in User
        /\ mem' = [mem EXCEPT ![req[r].actor.org][req[r].actor.user].role = "admin",
                              ![req[r].actor.org][w].role = "owner"]
    BY <1>0, <1>6, RequestParts, Zenon DEF transfer, StillIn, CurrentOrgs
  <2>2. req[r].actor.org = o
    BY <1>0, <2>1, Zenon DEF TypeOK
  <2>3. req'[r] = Idle
    BY <1>0, <1>6, RequestEnds, Zenon DEF transfer
  <2>4. /\ req[r].phase = "resolved" /\ StillIn(req[r].actor)
        /\ mem[o][req[r].actor.user].role = "owner"
    BY <1>6, <2>2 DEF transfer
  <2>5. req[r] # Idle
    BY <2>4 DEF Idle
  <2>6. Enrolled(req[r].actor.user) /\ mem[o][req[r].actor.user].status = "active"
    BY <2>2, <2>4 DEF StillIn, CurrentOrgs, MemberOf
  <2>. QED
    BY <2>1, <2>3, <2>4, <2>5, <2>6, Zenon DEF IsOwner
<1>7. ASSUME NEW r \in Request, dissolve(r)
      PROVE  /\ req[r] # Idle /\ req'[r] = Idle
             /\ Enrolled(req[r].actor.user) /\ req[r].actor.user \in User
             /\ IsOwner(o, req[r].actor.user)
  <2>1. /\ req[r].actor.org \in Org /\ req[r].actor.user \in User
        /\ \A k \in Org : k # req[r].actor.org => mem'[k] = mem[k]
    BY <1>0, <1>7, RequestParts DEF dissolve, StillIn, CurrentOrgs, TypeOK
  <2>2. req[r].actor.org = o
    BY <2>1
  <2>3. req'[r] = Idle
    BY <1>0, <1>7, RequestEnds DEF dissolve
  <2>4. /\ req[r].phase = "resolved" /\ StillIn(req[r].actor)
        /\ mem[o][req[r].actor.user].role = "owner"
    BY <1>7, <2>2 DEF dissolve
  <2>5. req[r] # Idle
    BY <2>4 DEF Idle
  <2>6. Enrolled(req[r].actor.user) /\ mem[o][req[r].actor.user].status = "active"
    BY <2>2, <2>4 DEF StillIn, CurrentOrgs, MemberOf
  <2>. QED
    BY <2>1, <2>3, <2>4, <2>5, <2>6 DEF IsOwner
<1>8. ASSUME NEW r \in Request, NEW role \in Roles, NEW st \in {"active", "revoked"},
             NEW n \in BOOLEAN, UpdateMember(r, role, st, n)
      PROVE  /\ req[r] # Idle /\ req'[r] = Idle /\ Enrolled(req[r].actor.user)
             /\ mem[o][req[r].actor.user].status = "active"
             /\ Outranks(mem[o][req[r].actor.user].role, mem[o][v].role)
  <2>1. req[r].target.user \in User /\ req[r].target.scope \in Org
    BY <1>0, <1>8, RequestParts, Zenon DEF UpdateMember, Target
  <2>2. req[r].target.user = v /\ req[r].target.scope = o
    BY <1>0, <1>8, <2>1, Zenon DEF UpdateMember, TypeOK
  <2>3. req'[r] = Idle
    BY <1>0, <1>8, RequestEnds, Zenon DEF UpdateMember
  <2>4. requireOrganizationManager(o, req[r].actor.user, mem[o][v].role)
    BY <1>8, <2>2 DEF UpdateMember
  <2>5. req[r].phase = "prepared"
    BY <1>8, Zenon DEF UpdateMember
  <2>6. req[r] # Idle
    BY <2>5 DEF Idle
  <2>. QED
    BY <2>3, <2>4, <2>6 DEF requireOrganizationManager, MayManage, MemberOf, Outranks
<1>. QED
  BY <1>1, <1>2, <1>3, <1>4, <1>5, <1>6, <1>7, <1>8, OwnerOutranks, ZenonT(60)
     DEF Next, vars, RegisterAccount, CreateDeploymentMember, TouchUser, ResolveSession, Abandon,
         ReadMember, ReadDeploymentMember, rename, CreateOrganizationInvitation,
         RevokeOrganizationInvitation, DeleteOrganizationInvitation, Expire,
         UpdateDeploymentMember, IsOwner

\* The row written by an entry, and what it says of a row that became active.
LEMMA EntryRows ==
  ASSUME TypeOK, NEW k \in Org, NEW w \in User, NEW role, joinOrganization(k, w, role)
  PROVE  /\ mem'[k][w].role = role
         /\ \A o \in Org, u \in User : o # k \/ u # w => mem'[o][u] = mem[o][u]
BY DEF TypeOK, joinOrganization, ActiveRow

\* Entering consumes the invitation; no other step makes a row of an existing
\* organization active.
LEMMA EntryStep ==
  ASSUME MembershipInvariant, [Next]_vars, NEW o \in Org, NEW u \in User, org[o] # "none",
         mem[o][u].status # "active", mem'[o][u].status = "active"
  PROVE  \E i \in Invitation :
           /\ inv[i].org = o /\ inv[i].state = "open" /\ inv'[i].state = "accepted"
           /\ mem'[o][u].role = inv[i].role
           /\ \A v \in User \ {u} : mem'[o][v] = mem[o][v]
<1>0. TypeOK
  BY DEF MembershipInvariant
<1>1. ASSUME NEW k \in Org, NEW w \in User, org[k] = "none", NEW role,
             joinOrganization(k, w, role)
      PROVE  FALSE
  BY <1>0, <1>1, EntryRows
<1>2. ASSUME NEW i \in Invitation, NEW w \in User, activeInvitation(i),
             joinOrganization(inv[i].org, w, inv[i].role),
             inv' = [inv EXCEPT ![i].state = "accepted"]
      PROVE  /\ inv[i].org = o /\ inv[i].state = "open" /\ inv'[i].state = "accepted"
             /\ mem'[o][u].role = inv[i].role
             /\ \A v \in User \ {u} : mem'[o][v] = mem[o][v]
  <2>1. inv[i].org \in Org /\ inv[i].state = "open"
    BY <1>2 DEF activeInvitation
  <2>2. inv[i].org = o /\ w = u
    BY <1>0, <1>2, <2>1, EntryRows
  <2>3. inv'[i].state = "accepted"
    BY <1>0, <1>2 DEF TypeOK, InvitationRow
  <2>. QED
    BY <1>0, <1>2, <2>1, <2>2, <2>3, EntryRows
<1>3. ASSUME NEW k \in Org, NEW w \in User, mem' = [mem EXCEPT ![k][w].status = "revoked"]
      PROVE  FALSE
  <2>1. mem[k][w] \in Row /\ mem'[k][w] = [mem[k][w] EXCEPT !.status = "revoked"]
    BY <1>0, <1>3 DEF TypeOK
  <2>2. mem'[k][w].status = "revoked"
    BY <2>1, RowParts
  <2>3. k # o \/ w # u => mem'[o][u] = mem[o][u]
    BY <1>0, <1>3 DEF TypeOK
  <2>. QED
    BY <2>2, <2>3
<1>4. ASSUME NEW r \in Request, NEW v \in User, transfer(r, v)
      PROVE  FALSE
  <2>0. PICK k \in Org, w \in User : k = req[r].actor.org /\ w = req[r].actor.user
    BY <1>0, <1>4, RequestParts, Zenon DEF transfer, StillIn, CurrentOrgs
  <2>1. mem' = [mem EXCEPT ![k][w].role = "admin", ![k][v].role = "owner"] /\ w # v
    BY <1>4, <2>0, Zenon DEF transfer
  <2>2. mem'[o][u] = IF o = k /\ u = w THEN [mem[o][u] EXCEPT !.role = "admin"]
                     ELSE IF o = k /\ u = v THEN [mem[o][u] EXCEPT !.role = "owner"]
                     ELSE mem[o][u]
    BY <1>0, <2>1 DEF TypeOK
  <2>3. /\ [mem[o][u] EXCEPT !.role = "admin"].status = mem[o][u].status
        /\ [mem[o][u] EXCEPT !.role = "owner"].status = mem[o][u].status
    BY <1>0, RowParts DEF TypeOK
  <2>. QED
    BY <2>2, <2>3
<1>5. ASSUME NEW r \in Request, dissolve(r)
      PROVE  FALSE
  <2>0. PICK k \in Org : k = req[r].actor.org
    BY <1>5 DEF dissolve, StillIn, CurrentOrgs
  <2>1. mem' = [mem EXCEPT ![k] = [w \in User |-> IF w \in ActiveMembers(k)
                                                  THEN [mem[k][w] EXCEPT !.status = "revoked"]
                                                  ELSE mem[k][w]]]
    BY <1>5, <2>0 DEF dissolve
  <2>2. mem'[o][u] = mem[o][u]
    BY <1>0, <2>1 DEF TypeOK, ActiveMembers
  <2>. QED
    BY <2>2
<1>6. ASSUME NEW r \in Request, NEW role \in Roles, NEW st \in {"active", "revoked"},
             NEW n \in BOOLEAN, UpdateMember(r, role, st, n)
      PROVE  FALSE
  <2>0. PICK v \in User, k \in Org : v = req[r].target.user /\ k = req[r].target.scope
    BY <1>0, <1>6, RequestParts, Zenon DEF UpdateMember, Target
  <2>1. /\ mem' = [mem EXCEPT ![k][v] = [role |-> role, status |-> st]]
        /\ mem[k][v].status = "active"
    BY <1>6, <2>0, Zenon DEF UpdateMember
  <2>2. mem'[o][u] = mem[o][u]
    BY <1>0, <2>1 DEF TypeOK
  <2>. QED
    BY <2>2
<1>7. ASSUME NEW w \in User, NEW k \in Org, CreateOwner(w, k)
      PROVE  FALSE
  BY <1>1, <1>7 DEF CreateOwner
<1>8. ASSUME NEW r \in Request, NEW k \in Org, create(r, k)
      PROVE  FALSE
  BY <1>0, <1>1, <1>8, RequestParts DEF create
<1>9. ASSUME NEW r \in Request, NEW i \in Invitation, join(r, i)
      PROVE  /\ inv[i].org = o /\ inv[i].state = "open" /\ inv'[i].state = "accepted"
             /\ mem'[o][u].role = inv[i].role
             /\ \A v \in User \ {u} : mem'[o][v] = mem[o][v]
  <2>0. PICK w \in User : w = req[r].actor.user
    BY <1>0, <1>9, RequestParts DEF join
  <2>1. /\ activeInvitation(i) /\ joinOrganization(inv[i].org, w, inv[i].role)
        /\ inv' = [inv EXCEPT ![i].state = "accepted"]
    BY <1>9, <2>0 DEF join
  <2>. QED
    BY <1>2, <2>1
<1>10. ASSUME NEW w \in User, NEW i \in Invitation, AcceptOrganizationInvitation(w, i)
       PROVE  /\ inv[i].org = o /\ inv[i].state = "open" /\ inv'[i].state = "accepted"
              /\ mem'[o][u].role = inv[i].role
              /\ \A v \in User \ {u} : mem'[o][v] = mem[o][v]
  BY <1>2, <1>10 DEF AcceptOrganizationInvitation
<1>11. ASSUME NEW r \in Request, leave(r)
       PROVE  FALSE
  <2>0. PICK k \in Org, w \in User : k = req[r].actor.org /\ w = req[r].actor.user
    BY <1>0, <1>11, RequestParts DEF leave, StillIn, CurrentOrgs
  <2>1. mem' = [mem EXCEPT ![k][w].status = "revoked"]
    BY <1>11, <2>0 DEF leave, revokeOrganizationMember
  <2>. QED
    BY <1>3, <2>1
<1>. QED
  BY <1>4, <1>5, <1>6, <1>7, <1>8, <1>9, <1>10, <1>11, ZenonT(60)
     DEF Next, vars, RegisterAccount, CreateDeploymentMember, TouchUser, ResolveSession, Abandon,
         ReadMember, ReadDeploymentMember, rename, CreateOrganizationInvitation,
         RevokeOrganizationInvitation, DeleteOrganizationInvitation, Expire,
         UpdateDeploymentMember

\* Events without an organization, with the organization of an active member,
\* and revocations of rows that are no longer active.
LEMMA FlagStep ==
  ASSUME MembershipInvariant, [Next]_vars, vars' # vars, NEW e \in appended', e.org # NoOrg
  PROVE  e.revoked <=> mem'[e.org][e.user].status # "active"
<1>0. TypeOK
  BY DEF MembershipInvariant
<1>. USE DEF Changed, Revoked
<1>1. ASSUME NEW r \in Request, NEW o \in Org, create(r, o)
      PROVE  e.revoked <=> mem'[e.org][e.user].status # "active"
  <2>1. e = [user |-> req[r].actor.user, org |-> o, revoked |-> FALSE]
    BY <1>1 DEF create
  <2>2. mem'[o][req[r].actor.user] = ActiveRow("owner")
    BY <1>0, <1>1, RequestParts DEF create, joinOrganization, TypeOK
  <2>. QED
    BY <2>1, <2>2 DEF ActiveRow
<1>2. ASSUME NEW r \in Request, NEW i \in Invitation, join(r, i)
      PROVE  e.revoked <=> mem'[e.org][e.user].status # "active"
  <2>1. e = [user |-> req[r].actor.user, org |-> inv[i].org, revoked |-> FALSE]
    BY <1>2 DEF join
  <2>2. mem'[inv[i].org][req[r].actor.user] = ActiveRow(inv[i].role)
    BY <1>0, <1>2, RequestParts DEF join, activeInvitation, joinOrganization, TypeOK
  <2>. QED
    BY <2>1, <2>2 DEF ActiveRow
<1>3. ASSUME NEW r \in Request, leave(r)
      PROVE  e.revoked <=> mem'[e.org][e.user].status # "active"
  <2> DEFINE u == req[r].actor.user
             o == req[r].actor.org
  <2>1. e = [user |-> u, org |-> o, revoked |-> TRUE]
    BY <1>3 DEF leave, revokeOrganizationMember
  <2>2. u \in User /\ o \in Org
    BY <1>0, <1>3, RequestParts DEF leave, StillIn, CurrentOrgs
  <2>3. mem'[o][u] = [mem[o][u] EXCEPT !.status = "revoked"] /\ mem[o][u] \in Row
    BY <1>0, <1>3, <2>2 DEF leave, revokeOrganizationMember, TypeOK
  <2>4. mem'[o][u].status = "revoked"
    BY <2>3, RowParts
  <2>. QED
    BY <2>1, <2>4
<1>4. ASSUME NEW r \in Request, NEW v \in User, transfer(r, v)
      PROVE  e.revoked <=> mem'[e.org][e.user].status # "active"
  <2> DEFINE u == req[r].actor.user
             o == req[r].actor.org
  <2>1. e = [user |-> u, org |-> o, revoked |-> FALSE] \/ e = [user |-> v, org |-> o, revoked |-> FALSE]
    BY <1>4, Zenon DEF transfer
  <2>2. /\ u \in User /\ o \in Org /\ u # v
        /\ mem[o][u].status = "active" /\ mem[o][v].status = "active"
    BY <1>0, <1>4, RequestParts, Zenon DEF transfer, StillIn, CurrentOrgs, MemberOf
  <2>3. /\ mem'[o][u] = [mem[o][u] EXCEPT !.role = "admin"] /\ mem[o][u] \in Row
        /\ mem'[o][v] = [mem[o][v] EXCEPT !.role = "owner"] /\ mem[o][v] \in Row
    BY <1>0, <1>4, <2>2, Zenon DEF transfer, TypeOK
  <2>. HIDE DEF u, o
  <2>4. mem'[o][u].status = "active" /\ mem'[o][v].status = "active"
    <3>1. /\ [mem[o][u] EXCEPT !.role = "admin"].status = mem[o][u].status
          /\ [mem[o][v] EXCEPT !.role = "owner"].status = mem[o][v].status
      BY <2>3, RowParts
    <3>. QED
      BY <2>2, <2>3, <3>1
  <2>. QED
    BY <2>1, <2>4
<1>5. ASSUME NEW r \in Request, rename(r)
      PROVE  e.revoked <=> mem'[e.org][e.user].status # "active"
  BY <1>5 DEF rename, ActiveMembers
<1>6. ASSUME NEW r \in Request, dissolve(r)
      PROVE  e.revoked <=> mem'[e.org][e.user].status # "active"
  <2> DEFINE o == req[r].actor.org
  <2>1. o \in Org
    BY <1>6 DEF dissolve, StillIn, CurrentOrgs
  <2>2. PICK u \in ActiveMembers(o) : e = [user |-> u, org |-> o, revoked |-> TRUE]
    BY <1>6 DEF dissolve
  <2>3. u \in User
    BY DEF ActiveMembers
  <2>4. mem'[o][u] = [mem[o][u] EXCEPT !.status = "revoked"] /\ mem[o][u] \in Row
    BY <1>0, <1>6, <2>1, <2>3 DEF dissolve, TypeOK
  <2>5. mem'[o][u].status = "revoked"
    BY <2>4, RowParts
  <2>. QED
    BY <2>2, <2>5
<1>7. ASSUME NEW r \in Request, NEW role \in Roles, NEW st \in {"active", "revoked"},
             NEW n \in BOOLEAN, UpdateMember(r, role, st, n)
      PROVE  e.revoked <=> mem'[e.org][e.user].status # "active"
  <2> DEFINE t == req[r].target
  <2>1. t.user \in User /\ t.scope \in Org
    BY <1>0, <1>7, RequestParts, Zenon DEF UpdateMember, Target
  <2>2. e \in (IF st = "revoked" THEN {Revoked(t.user, t.scope)}
              ELSE IF role # t.role THEN {Changed(t.user, t.scope)} ELSE {})
    <3>1. appendProfileInvalidations(t.user, dep[t.user].status) \subseteq {Changed(t.user, NoOrg)}
      BY DEF appendProfileInvalidations
    <3>2. e \notin {Changed(t.user, NoOrg)}
      OBVIOUS
    <3>. QED
      BY <1>7, <3>1, <3>2, Zenon DEF UpdateMember
  <2>3. mem'[t.scope][t.user].status = st
    BY <1>0, <1>7, <2>1, Zenon DEF UpdateMember, TypeOK
  <2>4. \/ e = Revoked(t.user, t.scope) /\ st = "revoked"
        \/ e = Changed(t.user, t.scope) /\ st = "active"
    BY <2>2
  <2>. QED
    BY <2>3, <2>4
<1>8. ASSUME NEW r \in Request, NEW role \in Roles, NEW st \in {"active", "revoked"},
             NEW n \in BOOLEAN, UpdateDeploymentMember(r, role, st, n)
      PROVE  FALSE
  BY <1>8 DEF UpdateDeploymentMember, appendProfileInvalidations
<1>9. ASSUME NEW u \in User, NEW profile \in BOOLEAN, TouchUser(u, profile)
      PROVE  FALSE
  BY <1>9 DEF TouchUser, appendProfileInvalidations
<1>. QED
  BY <1>1, <1>2, <1>3, <1>4, <1>5, <1>6, <1>7, <1>8, <1>9, ZenonT(60)
     DEF Next, vars, RegisterAccount, CreateDeploymentMember, ResolveSession, Abandon,
         ReadMember, ReadDeploymentMember, CreateOrganizationInvitation, CreateOwner,
         RevokeOrganizationInvitation, DeleteOrganizationInvitation, Expire,
         AcceptOrganizationInvitation

\* A user whose rows and current organizations stay has the Principal it had.
LEMMA SamePrincipal ==
  ASSUME NEW u \in User, dep'[u] = dep[u],
         \A o \in Org : MemberOf(o, u)' <=> MemberOf(o, u),
         \A o \in Org : MemberOf(o, u) => mem'[o][u].role = mem[o][u].role
  PROVE  PrincipalsOf(u)' = PrincipalsOf(u) /\ Enrolled(u)' = Enrolled(u)
<1>1. CurrentOrgs(u)' = CurrentOrgs(u)
  BY DEF CurrentOrgs
<1>2. \A o \in CurrentOrgs(u) : mem'[o][u].role = mem[o][u].role
  BY DEF CurrentOrgs
<1>. QED
  BY <1>1, <1>2, Zenon DEF PrincipalsOf, Enrolled

\* Entering by somebody else, even of a new organization, changes no Principal.
LEMMA OthersEnter ==
  ASSUME MembershipInvariant, NEW u \in User, NEW k \in Org, NEW w \in User, w # u, NEW role,
         joinOrganization(k, w, role), dep'[u] = dep[u],
         org' = org \/ (org[k] = "none" /\ org' = [org EXCEPT ![k] = "active"])
  PROVE  PrincipalsOf(u)' = PrincipalsOf(u) /\ Enrolled(u)' = Enrolled(u)
<1>1. \A o \in Org : mem'[o][u] = mem[o][u]
  BY DEF MembershipInvariant, TypeOK, joinOrganization
<1>2. \A o \in Org : MemberOf(o, u)' <=> MemberOf(o, u)
  BY <1>1 DEF MembershipInvariant, TypeOK, OneOwnerPerOrganization, ActiveMembers, MemberOf
<1>. QED
  BY <1>1, <1>2, SamePrincipal

\* A Principal that changes has an event of its user.
LEMMA AnnouncedStep ==
  ASSUME MembershipInvariant, [Next]_vars, NEW u \in User, dep[u].status # "none",
         PrincipalsOf(u)' # PrincipalsOf(u) \/ Enrolled(u)' # Enrolled(u)
  PROVE  \E e \in appended' : e.user = u
<1>0. TypeOK
  BY DEF MembershipInvariant
<1>1. ASSUME NEW w \in User, NEW o \in Org, CreateOwner(w, o)
      PROVE  FALSE
  <2>1. w # u /\ dep'[u] = dep[u]
    BY <1>0, <1>1 DEF CreateOwner, TypeOK
  <2>. QED
    BY <1>1, <2>1, OthersEnter DEF CreateOwner
<1>2. ASSUME NEW w \in User, NEW row, dep[w].status = "none",
             dep' = [dep EXCEPT ![w] = row], UNCHANGED <<org, mem>>
      PROVE  FALSE
  <2>1. dep'[u] = dep[u]
    BY <1>0, <1>2 DEF TypeOK
  <2>. QED
    BY <1>2, <2>1, SamePrincipal DEF MemberOf
<1>3. ASSUME NEW w \in User, NEW i \in Invitation, AcceptOrganizationInvitation(w, i)
      PROVE  FALSE
  <2>1. w # u /\ dep'[u] = dep[u]
    BY <1>0, <1>3 DEF AcceptOrganizationInvitation, TypeOK
  <2>. QED
    BY <1>3, <2>1, OthersEnter DEF AcceptOrganizationInvitation, activeInvitation
<1>4. ASSUME NEW r \in Request, NEW o \in Org, create(r, o)
      PROVE  \E e \in appended' : e.user = u
  <2>1. req[r].actor.user \in User
    BY <1>0, <1>4, RequestParts DEF create
  <2>2. req[r].actor.user = u
    BY <1>4, <2>1, OthersEnter DEF create
  <2>3. Changed(u, o) \in appended'
    BY <1>4, <2>2 DEF create
  <2>. QED
    BY <2>3 DEF Changed
<1>5. ASSUME NEW r \in Request, NEW i \in Invitation, join(r, i)
      PROVE  \E e \in appended' : e.user = u
  <2>1. req[r].actor.user \in User /\ inv[i].org \in Org
    BY <1>0, <1>5, RequestParts DEF join, activeInvitation
  <2>2. req[r].actor.user = u
    BY <1>5, <2>1, OthersEnter DEF join
  <2>3. Changed(u, inv[i].org) \in appended'
    BY <1>5, <2>2 DEF join
  <2>. QED
    BY <2>3 DEF Changed
<1>6. ASSUME NEW r \in Request, leave(r)
      PROVE  \E e \in appended' : e.user = u
  <2>1. req[r].actor.user \in User /\ req[r].actor.org \in Org
    BY <1>0, <1>6, RequestParts DEF leave, StillIn, CurrentOrgs
  <2>2. CASE req[r].actor.user # u
    <3>1. \A o \in Org : mem'[o][u] = mem[o][u]
      BY <1>0, <1>6, <2>1, <2>2 DEF leave, revokeOrganizationMember, TypeOK
    <3>. QED
      BY <1>6, <3>1, SamePrincipal DEF leave, MemberOf
  <2>3. CASE req[r].actor.user = u
    <3>1. Revoked(u, req[r].actor.org) \in appended'
      BY <1>6, <2>3 DEF leave, revokeOrganizationMember
    <3>. QED
      BY <3>1 DEF Revoked
  <2>. QED
    BY <2>2, <2>3
<1>7. ASSUME NEW r \in Request, NEW v \in User, transfer(r, v)
      PROVE  \E e \in appended' : e.user = u
  <2>1. req[r].actor.user \in User /\ req[r].actor.org \in Org
    BY <1>0, <1>7, RequestParts, Zenon DEF transfer, StillIn, CurrentOrgs
  <2>2. CASE u \notin {v, req[r].actor.user}
    <3>1. \A o \in Org : mem'[o][u] = mem[o][u]
      BY <1>0, <1>7, <2>1, <2>2, Zenon DEF transfer, TypeOK
    <3>. QED
      BY <1>7, <3>1, SamePrincipal, Zenon DEF transfer, MemberOf
  <2>3. CASE u \in {v, req[r].actor.user}
    <3>1. Changed(u, req[r].actor.org) \in appended'
      BY <1>7, <2>3, Zenon DEF transfer
    <3>. QED
      BY <3>1 DEF Changed
  <2>. QED
    BY <2>2, <2>3
<1>8. ASSUME NEW r \in Request, dissolve(r)
      PROVE  \E e \in appended' : e.user = u
  <2>1. req[r].actor.org \in Org
    BY <1>8 DEF dissolve, StillIn, CurrentOrgs
  <2>2. CASE u \notin ActiveMembers(req[r].actor.org)
    <3>1. \A o \in Org : mem'[o][u] = mem[o][u]
      BY <1>0, <1>8, <2>1, <2>2 DEF dissolve, TypeOK
    <3>2. \A o \in Org : o # req[r].actor.org => org'[o] = org[o]
      BY <1>0, <1>8, <2>1 DEF dissolve, TypeOK
    <3>3. \A o \in Org : MemberOf(o, u)' <=> MemberOf(o, u)
      BY <2>1, <2>2, <3>1, <3>2 DEF MemberOf, ActiveMembers
    <3>4. dep' = dep
      BY <1>8 DEF dissolve
    <3>. QED
      BY <3>1, <3>3, <3>4, SamePrincipal
  <2>3. CASE u \in ActiveMembers(req[r].actor.org)
    <3>1. Revoked(u, req[r].actor.org) \in appended'
      BY <1>8, <2>3 DEF dissolve
    <3>. QED
      BY <3>1 DEF Revoked
  <2>. QED
    BY <2>2, <2>3
<1>9. ASSUME NEW r \in Request, NEW role \in Roles, NEW st \in {"active", "revoked"},
             NEW n \in BOOLEAN, UpdateMember(r, role, st, n)
      PROVE  \E e \in appended' : e.user = u
  <2>0. PICK v \in User, o \in Org : v = req[r].target.user /\ o = req[r].target.scope
    BY <1>0, <1>9, RequestParts, Zenon DEF UpdateMember, Target
  <2>1. /\ mem' = [mem EXCEPT ![o][v] = [role |-> role, status |-> st]]
        /\ mem[o][v].role = req[r].target.role /\ mem[o][v].status = "active"
        /\ UNCHANGED <<dep, org>>
    BY <1>9, <2>0, Zenon DEF UpdateMember, TargetUnchanged
  <2>2. /\ \A k \in Org, w \in User : k # o \/ w # v => mem'[k][w] = mem[k][w]
        /\ mem'[o][v].role = role /\ mem'[o][v].status = st
    BY <1>0, <2>1 DEF TypeOK
  <2>3. (IF st = "revoked" THEN {Revoked(v, o)}
         ELSE IF role # req[r].target.role THEN {Changed(v, o)} ELSE {}) \subseteq appended'
    BY <1>9, <2>0, Zenon DEF UpdateMember
  <2>4. CASE v # u \/ (st = "active" /\ role = req[r].target.role)
    <3>1. \A k \in Org : /\ mem'[k][u].role = mem[k][u].role
                         /\ mem'[k][u].status = mem[k][u].status
      BY <2>1, <2>2, <2>4
    <3>. QED
      BY <2>1, <3>1, SamePrincipal DEF MemberOf
  <2>5. CASE v = u /\ st = "revoked"
    <3>1. Revoked(u, o) \in appended'
      BY <2>3, <2>5
    <3>. QED
      BY <3>1 DEF Revoked
  <2>6. CASE v = u /\ st # "revoked" /\ role # req[r].target.role
    <3>1. Changed(u, o) \in appended'
      BY <2>3, <2>6
    <3>. QED
      BY <3>1 DEF Changed
  <2>. QED
    BY <2>4, <2>5, <2>6
<1>10. ASSUME NEW r \in Request, NEW role \in Roles, NEW st \in {"active", "revoked"},
              NEW n \in BOOLEAN, UpdateDeploymentMember(r, role, st, n)
       PROVE  \E e \in appended' : e.user = u
  <2>0. PICK v \in User : v = req[r].target.user
    BY <1>0, <1>10, RequestParts DEF UpdateDeploymentMember, Target
  <2>1. /\ dep' = [dep EXCEPT ![v] = [role |-> role, status |-> st]]
        /\ dep[v].role = req[r].target.role /\ dep[v].status = req[r].target.status
        /\ UNCHANGED <<mem, org>>
    BY <1>10, <2>0 DEF UpdateDeploymentMember, TargetUnchanged
  <2>2. (IF role # req[r].target.role \/ st # req[r].target.status
         THEN {Changed(v, NoOrg)} ELSE {}) \subseteq appended'
    BY <1>10, <2>0 DEF UpdateDeploymentMember
  <2>3. CASE v # u
    <3>1. dep'[u] = dep[u]
      BY <1>0, <2>1, <2>3 DEF TypeOK
    <3>. QED
      BY <2>1, <3>1, SamePrincipal DEF MemberOf
  <2>4. CASE v = u /\ role = req[r].target.role /\ st = req[r].target.status
    <3>1. dep[u] \in Row
      BY <1>0 DEF TypeOK
    <3>2. dep[u] = [role |-> role, status |-> st]
      BY <2>1, <2>4, <3>1 DEF Row
    <3>3. dep'[u] = dep[u]
      BY <1>0, <2>1, <2>4, <3>2 DEF TypeOK
    <3>. QED
      BY <2>1, <3>3, SamePrincipal DEF MemberOf
  <2>5. CASE v = u /\ (role # req[r].target.role \/ st # req[r].target.status)
    <3>1. Changed(u, NoOrg) \in appended'
      BY <2>2, <2>5
    <3>. QED
      BY <3>1 DEF Changed
  <2>. QED
    BY <2>3, <2>4, <2>5
<1>11. CASE UNCHANGED <<dep, org, mem>>
  BY <1>11, SamePrincipal DEF MemberOf
<1>. QED
  BY <1>1, <1>2, <1>3, <1>4, <1>5, <1>6, <1>7, <1>8, <1>9, <1>10, <1>11, ZenonT(60)
     DEF Next, vars, RegisterAccount, CreateDeploymentMember, TouchUser, ResolveSession, Abandon,
         ReadMember, ReadDeploymentMember, rename, CreateOrganizationInvitation,
         RevokeOrganizationInvitation, DeleteOrganizationInvitation, Expire

\* Only an enrolled superior in the same organization, or the member itself, changes
\* an active member's row (requireOrganizationManager under the control lock).
THEOREM SuperiorsHold == Spec => OnlySuperiorsChangeMembers
<1>1. MembershipInvariant /\ [Next]_vars =>
        [\A o \in Org, v \in User :
           mem[o][v].status = "active" /\ mem'[o][v] # mem[o][v] =>
             \E r \in Request :
               /\ req[r] # Idle /\ req'[r] = Idle
               /\ LET a == req[r].actor.user IN
                    /\ Enrolled(a) /\ mem[o][a].status = "active"
                    /\ a = v \/ Outranks(mem[o][a].role, mem[o][v].role)]_vars
  BY SuperiorStep
<1>. QED
  BY <1>1, InvariantHolds, PTL DEF Spec, OnlySuperiorsChangeMembers

\* An invitation admits one user, once, with its role, and only while it is open
\* (join and AcceptOrganizationInvitation).
THEOREM EntriesHold == Spec => EntryConsumesInvitation
<1>1. MembershipInvariant /\ [Next]_vars =>
        [\A o \in Org, u \in User :
           org[o] # "none" /\ mem[o][u].status # "active" /\ mem'[o][u].status = "active" =>
             \E i \in Invitation :
               /\ inv[i].org = o /\ inv[i].state = "open" /\ inv'[i].state = "accepted"
               /\ mem'[o][u].role = inv[i].role
               /\ \A v \in User \ {u} : mem'[o][v] = mem[o][v]]_vars
  BY EntryStep
<1>. QED
  BY <1>1, InvariantHolds, PTL DEF Spec, EntryConsumesInvitation

\* Every commit that changes a Principal names its user in an event.
THEOREM AnnouncementsHold == Spec => ChangesAreAnnounced
<1>1. MembershipInvariant /\ [Next]_vars =>
        [\A u \in User :
           dep[u].status # "none" /\ (PrincipalsOf(u)' # PrincipalsOf(u)
                                      \/ Enrolled(u)' # Enrolled(u)) =>
             \E e \in appended' : e.user = u]_vars
  BY AnnouncedStep
<1>. QED
  BY <1>1, InvariantHolds, PTL DEF Spec, ChangesAreAnnounced

\* The membership_revoked flag says what the tables say after the commit.
THEOREM FlagsAreExact == Spec => RevocationFlagIsExact
<1>1. MembershipInvariant /\ [Next]_vars =>
        [\A e \in appended' :
           e.org # NoOrg => (e.revoked <=> mem'[e.org][e.user].status # "active")]_vars
  BY FlagStep
<1>. QED
  BY <1>1, InvariantHolds, PTL DEF Spec, RevocationFlagIsExact

=============================================================================
