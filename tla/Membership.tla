------------------------------ MODULE Membership ------------------------------
(****************************************************************************)
(* Who belongs to the deployment and to its organizations, and who may      *)
(* change that.  The tables are deployment_memberships, organizations,      *)
(* organization_memberships and organization_invitations; every operation   *)
(* is one transaction of internal/storage/auth that first locks the single  *)
(* control_state row (beginIdentityWrite), so it is one atomic step here.   *)
(*                                                                          *)
(* What is NOT atomic is the request around the transaction: the handler    *)
(* resolves the session to a Principal, the service checks that Principal   *)
(* and, for the member updates, reads the target row; only then does the    *)
(* transaction start.  A request therefore carries what it read (req), and  *)
(* other requests commit in between.                                        *)
(*                                                                          *)
(* The updated_at stamps are compared for equality only.  Instead of the    *)
(* stamp it read a request keeps whether the row still carries it (fresh).  *)
(* The two partial unique indexes of the schema are deliberately not        *)
(* guards: the invariants show that no transaction runs into them.          *)
(****************************************************************************)
CONSTANTS User,        \* accounts that may ever be created
          Org,         \* organizations that may ever be created
          Invitation,  \* invitations that may ever be created
          Request,     \* concurrent HTTP requests
          NoOrg        \* "no organization"; as a scope, the deployment itself

ASSUME NoOrgAssumption == NoOrg \notin Org

VARIABLES dep,      \* deployment_memberships, a row per user
          org,      \* organizations.status
          mem,      \* organization_memberships, a row per organization and user
          inv,      \* organization_invitations
          req,      \* what every request in flight has read so far
          appended  \* identity_invalidations rows of the last transaction

vars == <<dep, org, mem, inv, req, appended>>

Roles == {"owner", "admin", "member"}
Managers == {"owner", "admin"}

Row == [role : Roles, status : {"none", "active", "revoked"}]
NoRow == [role |-> "member", status |-> "none"]
ActiveRow(role) == [role |-> role, status |-> "active"]

InvitationRow ==
  [org : Org \union {NoOrg}, role : {"admin", "member"},
   state : {"none", "open", "expired", "accepted", "revoked", "deleted"}]
NoInvitation == [org |-> NoOrg, role |-> "member", state |-> "none"]

\* The columns of an event that tell two events apart here.
Event == [user : User, org : Org \union {NoOrg}, revoked : BOOLEAN]

\* PrincipalRecord: the session's user with the roles it had when resolved.
Principal ==
  {p \in [user : User, role : Roles, org : Org \union {NoOrg}, orgRole : Roles \union {""}] :
     p.orgRole # "" => p.org \in Org}

\* The member row an update read: whose, in which scope, and its role and
\* status; fresh while the row still carries the updated_at that was read.
Target == [user : User, scope : Org \union {NoOrg},
           role : Roles, status : {"active", "revoked"}, fresh : BOOLEAN]

Idle == [phase |-> "idle"]
RequestState ==
  {Idle} \union [phase : {"resolved"}, actor : Principal]
         \union [phase : {"prepared"}, actor : Principal, target : Target]

TypeOK ==
  /\ dep \in [User -> Row]
  /\ org \in [Org -> {"none", "active", "disabled"}]
  /\ mem \in [Org -> [User -> Row]]
  /\ inv \in [Invitation -> InvitationRow]
  /\ req \in [Request -> RequestState]
  /\ appended \subseteq Event

Init ==
  /\ dep = [u \in User |-> NoRow]
  /\ org = [o \in Org |-> "none"]
  /\ mem = [o \in Org |-> [u \in User |-> NoRow]]
  /\ inv = [i \in Invitation |-> NoInvitation]
  /\ req = [r \in Request |-> Idle]
  /\ appended = {}

-----------------------------------------------------------------------------
(* What the queries read. *)

Enrolled(u) == dep[u].status = "active"
MemberOf(o, u) == org[o] = "active" /\ mem[o][u].status = "active"
CurrentOrgs(u) == {o \in Org : MemberOf(o, u)}
IsSetUp == \E u \in User : dep[u].status # "none"

\* The Principal of u's live session; the organization side is a LEFT JOIN.
PrincipalsOf(u) ==
  IF CurrentOrgs(u) = {}
  THEN {[user |-> u, role |-> dep[u].role, org |-> NoOrg, orgRole |-> ""]}
  ELSE {[user |-> u, role |-> dep[u].role, org |-> o, orgRole |-> mem[o][u].role]
          : o \in CurrentOrgs(u)}

\* Which target roles a manager of role r may touch or grant.
MayManage(role, targetRole) ==
  /\ targetRole # "owner"
  /\ role = "owner" \/ (role = "admin" /\ targetRole = "member")

\* Seeded fault: the role is not read again inside the transaction.
requireOrganizationManager_stale(o, u, targetRole) ==
  o \in Org /\ targetRole # "owner"

requireOrganizationManager(o, u, targetRole) ==
  /\ o \in Org
  /\ MemberOf(o, u) /\ Enrolled(u)
  /\ MayManage(mem[o][u].role, targetRole)

requireDeploymentManager(u, targetRole) ==
  Enrolled(u) /\ MayManage(dep[u].role, targetRole)

\* The token lookup: neither used, revoked, expired nor deleted, and to an
\* organization that is still active.
activeInvitation(i) ==
  inv[i].state = "open" /\ inv[i].org \in Org /\ org[inv[i].org] = "active"

-----------------------------------------------------------------------------
(* What the transactions write. *)

\* Every in-flight update that read one of these rows has lost its stamp.
Restamped(users, scopes) ==
  [r \in Request |->
     IF /\ req[r].phase = "prepared"
        /\ req[r].target.user \in users /\ req[r].target.scope \in scopes
     THEN [req[r] EXCEPT !.target.fresh = FALSE]
     ELSE req[r]]

AllScopes == Org \union {NoOrg}

\* Request r ends; it wrote the rows of users in scopes.
Complete(r, users, scopes) ==
  req' = [Restamped(users, scopes) EXCEPT ![r] = Idle]

Changed(u, o) == [user |-> u, org |-> o, revoked |-> FALSE]
Revoked(u, o) == [user |-> u, org |-> o, revoked |-> TRUE]

\* Profile events go to the deployments in which the user is active.
appendProfileInvalidations(u, status) ==
  IF status = "active" THEN {Changed(u, NoOrg)} ELSE {}

joinOrganization(o, u, role) == mem' = [mem EXCEPT ![o][u] = ActiveRow(role)]

\* Seeded fault: the event lacks the membership_revoked flag.
revokeOrganizationMember_unflagged(o, u) ==
  /\ mem' = [mem EXCEPT ![o][u].status = "revoked"]
  /\ appended' = {Changed(u, o)}

\* Agents and nodes are revoked in the same transaction: module Devices.
revokeOrganizationMember(o, u) ==
  /\ mem' = [mem EXCEPT ![o][u].status = "revoked"]
  /\ appended' = {Revoked(u, o)}

ActiveMembers(o) == {u \in User : mem[o][u].status = "active"}

-----------------------------------------------------------------------------
(* Accounts. *)

\* Seeded fault: SetupRequired was checked before the lock, not under it.
CreateOwner_unchecked(u, o) ==
  /\ dep[u].status = "none" /\ org[o] = "none"
  /\ dep' = [dep EXCEPT ![u] = ActiveRow("owner")]
  /\ org' = [org EXCEPT ![o] = "active"]
  /\ joinOrganization(o, u, "owner")
  /\ appended' = {}
  /\ UNCHANGED <<inv, req>>

\* First start: the deployment, its first organization and their owner.
CreateOwner(u, o) ==
  /\ \A v \in User : ~Enrolled(v)
  /\ dep[u].status = "none" /\ org[o] = "none"
  /\ dep' = [dep EXCEPT ![u] = ActiveRow("owner")]
  /\ org' = [org EXCEPT ![o] = "active"]
  /\ joinOrganization(o, u, "owner")
  /\ appended' = {}
  /\ UNCHANGED <<inv, req>>

RegisterAccount(u) ==
  /\ IsSetUp
  /\ dep[u].status = "none"
  /\ dep' = [dep EXCEPT ![u] = ActiveRow("member")]
  /\ appended' = {}
  /\ UNCHANGED <<org, mem, inv, req>>

\* A login (CreateSession) or UpdateAvatar writes users.updated_at; the avatar
\* also appends a profile event, which carries no organization.
TouchUser(u, profile) ==
  /\ IF profile THEN dep[u].status # "none" ELSE Enrolled(u)
  /\ req' = Restamped({u}, AllScopes)
  /\ appended' = IF profile THEN appendProfileInvalidations(u, dep[u].status) ELSE {}
  /\ UNCHANGED <<dep, org, mem, inv>>

-----------------------------------------------------------------------------
(* Requests. *)

\* requireWebPrincipal: a live session resolves only for an enrolled user.
ResolveSession(r, u) ==
  /\ req[r] = Idle
  /\ Enrolled(u)
  /\ \E p \in PrincipalsOf(u) :
       req' = [req EXCEPT ![r] = [phase |-> "resolved", actor |-> p]]
  /\ appended' = {}
  /\ UNCHANGED <<dep, org, mem, inv>>

\* Every early return and every rolled back transaction: nothing is written.
Abandon(r) ==
  /\ req[r] # Idle
  /\ req' = [req EXCEPT ![r] = Idle]
  /\ appended' = {}
  /\ UNCHANGED <<dep, org, mem, inv>>

\* Service.UpdateMember checks the Principal and reads the target row.
ReadMember(r, v) ==
  /\ req[r].phase = "resolved"
  /\ LET p == req[r].actor IN
       /\ p.orgRole \in Managers
       /\ dep[v].status # "none"
       /\ mem[p.org][v].status = "active" /\ mem[p.org][v].role # "owner"
       /\ p.orgRole = "admin" => mem[p.org][v].role = "member"
       /\ req' = [req EXCEPT ![r] =
            [phase |-> "prepared", actor |-> p,
             target |-> [user |-> v, scope |-> p.org, role |-> mem[p.org][v].role,
                         status |-> mem[p.org][v].status, fresh |-> TRUE]]]
  /\ appended' = {}
  /\ UNCHANGED <<dep, org, mem, inv>>

\* Service.UpdateDeploymentMember, likewise; a revoked row may be restored.
ReadDeploymentMember(r, v) ==
  /\ req[r].phase = "resolved"
  /\ LET p == req[r].actor IN
       /\ p.role \in Managers
       /\ dep[v].status # "none" /\ dep[v].role # "owner"
       /\ p.role = "admin" => dep[v].role = "member"
       /\ req' = [req EXCEPT ![r] =
            [phase |-> "prepared", actor |-> p,
             target |-> [user |-> v, scope |-> NoOrg, role |-> dep[v].role,
                         status |-> dep[v].status, fresh |-> TRUE]]]
  /\ appended' = {}
  /\ UNCHANGED <<dep, org, mem, inv>>

-----------------------------------------------------------------------------
(* MutateOrganization: create, join, leave, transfer, rename, dissolve.     *)

\* The snapshot's organization must still be the actor's current one.
StillIn(p) == Enrolled(p.user) /\ p.org \in CurrentOrgs(p.user)

create(r, o) ==
  /\ req[r].phase = "resolved"
  /\ LET p == req[r].actor IN
       /\ Enrolled(p.user) /\ CurrentOrgs(p.user) = {}
       /\ org[o] = "none"
       /\ org' = [org EXCEPT ![o] = "active"]
       /\ joinOrganization(o, p.user, "owner")
       /\ appended' = {Changed(p.user, o)}
       /\ Complete(r, {p.user}, {o})
  /\ UNCHANGED <<dep, inv>>

\* Seeded fault: the Principal's organization is trusted instead of read again.
join_stale(r, i) ==
  /\ req[r].phase = "resolved"
  /\ LET p == req[r].actor
         o == inv[i].org IN
       /\ Enrolled(p.user) /\ p.org = NoOrg
       /\ activeInvitation(i)
       /\ joinOrganization(o, p.user, inv[i].role)
       /\ appended' = {Changed(p.user, o)}
       /\ Complete(r, {p.user}, {o})
  /\ inv' = [inv EXCEPT ![i].state = "accepted"]
  /\ UNCHANGED <<dep, org>>

\* Seeded fault: revoked_at IS NULL is missing from the token lookup.
join_revoked(r, i) ==
  /\ req[r].phase = "resolved"
  /\ LET p == req[r].actor
         o == inv[i].org IN
       /\ Enrolled(p.user) /\ CurrentOrgs(p.user) = {}
       /\ inv[i].state \in {"open", "revoked"} /\ o \in Org /\ org[o] = "active"
       /\ joinOrganization(o, p.user, inv[i].role)
       /\ appended' = {Changed(p.user, o)}
       /\ Complete(r, {p.user}, {o})
  /\ inv' = [inv EXCEPT ![i].state = "accepted"]
  /\ UNCHANGED <<dep, org>>

join(r, i) ==
  /\ req[r].phase = "resolved"
  /\ LET p == req[r].actor
         o == inv[i].org IN
       /\ Enrolled(p.user) /\ CurrentOrgs(p.user) = {}
       /\ activeInvitation(i)
       /\ joinOrganization(o, p.user, inv[i].role)
       /\ appended' = {Changed(p.user, o)}
       /\ Complete(r, {p.user}, {o})
  /\ inv' = [inv EXCEPT ![i].state = "accepted"]
  /\ UNCHANGED <<dep, org>>

\* Seeded fault: the ErrLastOwner check is missing.
leave_owner(r) ==
  /\ req[r].phase = "resolved"
  /\ LET p == req[r].actor IN
       /\ StillIn(p)
       /\ revokeOrganizationMember(p.org, p.user)
       /\ Complete(r, {p.user}, {p.org})
  /\ UNCHANGED <<dep, org, inv>>

leave(r) ==
  /\ req[r].phase = "resolved"
  /\ LET p == req[r].actor IN
       /\ StillIn(p)
       /\ mem[p.org][p.user].role # "owner"
       /\ revokeOrganizationMember(p.org, p.user)
       /\ Complete(r, {p.user}, {p.org})
  /\ UNCHANGED <<dep, org, inv>>

\* Seeded fault: only the new owner is announced.
transfer_quiet(r, v) ==
  /\ req[r].phase = "resolved"
  /\ LET p == req[r].actor IN
       /\ StillIn(p)
       /\ mem[p.org][p.user].role = "owner" /\ v # p.user
       /\ mem[p.org][v].status = "active" /\ Enrolled(v)
       /\ mem' = [mem EXCEPT ![p.org][p.user].role = "admin", ![p.org][v].role = "owner"]
       /\ appended' = {Changed(v, p.org)}
       /\ Complete(r, {p.user, v}, {p.org})
  /\ UNCHANGED <<dep, org, inv>>

transfer(r, v) ==
  /\ req[r].phase = "resolved"
  /\ LET p == req[r].actor IN
       /\ StillIn(p)
       /\ mem[p.org][p.user].role = "owner" /\ v # p.user
       /\ mem[p.org][v].status = "active" /\ Enrolled(v)
       /\ mem' = [mem EXCEPT ![p.org][p.user].role = "admin", ![p.org][v].role = "owner"]
       /\ appended' = {Changed(v, p.org), Changed(p.user, p.org)}
       /\ Complete(r, {p.user, v}, {p.org})
  /\ UNCHANGED <<dep, org, inv>>

\* The name itself is data no property tells apart; its event is for everyone.
rename(r) ==
  /\ req[r].phase = "resolved"
  /\ LET p == req[r].actor IN
       /\ StillIn(p)
       /\ mem[p.org][p.user].role \in Managers
       /\ appended' = {Changed(u, p.org) : u \in ActiveMembers(p.org)}
       /\ Complete(r, {}, {})
  /\ UNCHANGED <<dep, org, mem, inv>>

\* Seeded fault: the members go, the organization stays active.
dissolve_undone(r) ==
  /\ req[r].phase = "resolved"
  /\ LET p == req[r].actor IN
       /\ StillIn(p)
       /\ mem[p.org][p.user].role = "owner"
       /\ mem' = [mem EXCEPT ![p.org] =
                    [u \in User |-> IF u \in ActiveMembers(p.org)
                                    THEN [mem[p.org][u] EXCEPT !.status = "revoked"]
                                    ELSE mem[p.org][u]]]
       /\ appended' = {Revoked(u, p.org) : u \in ActiveMembers(p.org)}
       /\ Complete(r, ActiveMembers(p.org), {p.org})
  /\ UNCHANGED <<dep, org, inv>>

dissolve(r) ==
  /\ req[r].phase = "resolved"
  /\ LET p == req[r].actor IN
       /\ StillIn(p)
       /\ mem[p.org][p.user].role = "owner"
       /\ mem' = [mem EXCEPT ![p.org] =
                    [u \in User |-> IF u \in ActiveMembers(p.org)
                                    THEN [mem[p.org][u] EXCEPT !.status = "revoked"]
                                    ELSE mem[p.org][u]]]
       /\ org' = [org EXCEPT ![p.org] = "disabled"]
       /\ appended' = {Revoked(u, p.org) : u \in ActiveMembers(p.org)}
       /\ Complete(r, ActiveMembers(p.org), {p.org})
  /\ UNCHANGED <<dep, inv>>

-----------------------------------------------------------------------------
(* Member management. *)

\* The compare-and-swap both update transactions start with.
TargetUnchanged(t, row) ==
  t.role = row.role /\ t.status = row.status /\ t.fresh

\* named: the update also changes the display name (users.updated_at and a
\* profile event).  The role checks of the service used the read target.
UpdateMember(r, nextRole, nextStatus, named) ==
  /\ req[r].phase = "prepared" /\ req[r].target.scope # NoOrg
  /\ LET p == req[r].actor
         t == req[r].target
         o == req[r].target.scope IN
       /\ p.orgRole = "admin" => nextRole = "member"
       /\ TargetUnchanged(t, mem[o][t.user])
       /\ mem[o][t.user].status = "active"
       /\ requireOrganizationManager(o, p.user, mem[o][t.user].role)
       /\ requireOrganizationManager(o, p.user, nextRole)
       /\ ~(p.user = t.user /\ nextStatus = "revoked")
       /\ mem' = [mem EXCEPT ![o][t.user] = [role |-> nextRole, status |-> nextStatus]]
       /\ appended' =
            (IF named THEN appendProfileInvalidations(t.user, dep[t.user].status) ELSE {}) \union
            (IF nextStatus = "revoked" THEN {Revoked(t.user, o)}
             ELSE IF nextRole # t.role THEN {Changed(t.user, o)} ELSE {})
       /\ Complete(r, {t.user}, IF named THEN AllScopes ELSE {o})
  /\ UNCHANGED <<dep, org, inv>>

\* Service.CreateDeploymentMember, on the Principal of the request.
mayCreateMember(p, role) == MayManage(p.role, role)

CreateDeploymentMember(r, v, role) ==
  /\ req[r].phase = "resolved"
  /\ LET p == req[r].actor IN
       /\ mayCreateMember(p, role)
       /\ requireDeploymentManager(p.user, role)
  /\ dep[v].status = "none"
  /\ dep' = [dep EXCEPT ![v] = ActiveRow(role)]
  /\ appended' = {}
  /\ Complete(r, {}, {})
  /\ UNCHANGED <<org, mem, inv>>

\* Revoking also revokes every session of the target: module Devices.
UpdateDeploymentMember(r, nextRole, nextStatus, named) ==
  /\ req[r].phase = "prepared" /\ req[r].target.scope = NoOrg
  /\ LET p == req[r].actor
         t == req[r].target IN
       /\ nextRole # "owner"
       /\ p.role = "admin" => nextRole = "member"
       /\ TargetUnchanged(t, dep[t.user])
       /\ requireDeploymentManager(p.user, dep[t.user].role)
       /\ requireDeploymentManager(p.user, nextRole)
       /\ ~(p.user = t.user /\ nextStatus = "revoked")
       /\ dep' = [dep EXCEPT ![t.user] = [role |-> nextRole, status |-> nextStatus]]
       /\ appended' =
            (IF named THEN appendProfileInvalidations(t.user, nextStatus) ELSE {}) \union
            (IF nextRole # t.role \/ nextStatus # t.status THEN {Changed(t.user, NoOrg)} ELSE {})
       /\ Complete(r, {t.user}, IF named THEN AllScopes ELSE {NoOrg})
  /\ UNCHANGED <<org, mem, inv>>

-----------------------------------------------------------------------------
(* Invitations. *)

\* Service.CreateOrganizationInvitation, on the Principal of the request.
mayInvite(p, role) == MayManage(p.orgRole, role)

CreateOrganizationInvitation(r, i, role) ==
  /\ req[r].phase = "resolved"
  /\ LET p == req[r].actor IN
       /\ mayInvite(p, role)
       /\ requireOrganizationManager(p.org, p.user, role)
       /\ inv[i].state = "none"
       /\ inv' = [inv EXCEPT ![i] = [org |-> p.org, role |-> role, state |-> "open"]]
  /\ appended' = {}
  /\ Complete(r, {}, {})
  /\ UNCHANGED <<dep, org, mem>>

\* The service's check; an invitation never changes its role, so that the
\* service reads it before the transaction makes no difference.
mutateOrganizationInvitation(p, i) ==
  /\ p.orgRole \in Managers
  /\ p.orgRole = "admin" => inv[i].role = "member"

requireInvitationManager(p, i) ==
  /\ inv[i].state \notin {"none", "deleted"} /\ inv[i].org = p.org
  /\ requireOrganizationManager(p.org, p.user, inv[i].role)

RevokeOrganizationInvitation(r, i) ==
  /\ req[r].phase = "resolved"
  /\ mutateOrganizationInvitation(req[r].actor, i)
  /\ requireInvitationManager(req[r].actor, i)
  /\ inv[i].state = "open"
  /\ inv' = [inv EXCEPT ![i].state = "revoked"]
  /\ appended' = {}
  /\ Complete(r, {}, {})
  /\ UNCHANGED <<dep, org, mem>>

DeleteOrganizationInvitation(r, i) ==
  /\ req[r].phase = "resolved"
  /\ mutateOrganizationInvitation(req[r].actor, i)
  /\ requireInvitationManager(req[r].actor, i)
  /\ inv[i].state \in {"accepted", "revoked", "expired"}
  /\ inv' = [inv EXCEPT ![i].state = "deleted"]
  /\ appended' = {}
  /\ Complete(r, {}, {})
  /\ UNCHANGED <<dep, org, mem>>

\* Seeded fault: the statement for deployment_memberships is missing.
AcceptOrganizationInvitation_half(u, i) ==
  /\ activeInvitation(i)
  /\ dep[u].status = "none"
  /\ joinOrganization(inv[i].org, u, inv[i].role)
  /\ inv' = [inv EXCEPT ![i].state = "accepted"]
  /\ appended' = {}
  /\ UNCHANGED <<dep, org, req>>

\* A new account created from the invitation link; no Principal is involved.
AcceptOrganizationInvitation(u, i) ==
  /\ activeInvitation(i)
  /\ dep[u].status = "none"
  /\ dep' = [dep EXCEPT ![u] = ActiveRow("member")]
  /\ joinOrganization(inv[i].org, u, inv[i].role)
  /\ inv' = [inv EXCEPT ![i].state = "accepted"]
  /\ appended' = {}
  /\ UNCHANGED <<org, req>>

\* expires_at passes: no transaction that commits later carries a clock reading
\* before it.  (A reading is taken before the lock is, so one that does may
\* commit while the clock is already past; it precedes this step.)
Expire(i) ==
  /\ inv[i].state = "open"
  /\ inv' = [inv EXCEPT ![i].state = "expired"]
  /\ appended' = {}
  /\ UNCHANGED <<dep, org, mem, req>>

-----------------------------------------------------------------------------
Next ==
  \/ \E u \in User, o \in Org : CreateOwner(u, o)
  \/ \E u \in User : RegisterAccount(u)
  \/ \E u \in User, profile \in BOOLEAN : TouchUser(u, profile)
  \/ \E r \in Request, u \in User : ResolveSession(r, u)
  \/ \E r \in Request : Abandon(r)
  \/ \E r \in Request, v \in User : ReadMember(r, v)
  \/ \E r \in Request, v \in User : ReadDeploymentMember(r, v)
  \/ \E r \in Request, o \in Org : create(r, o)
  \/ \E r \in Request, i \in Invitation : join(r, i)
  \/ \E r \in Request : leave(r)
  \/ \E r \in Request, v \in User : transfer(r, v)
  \/ \E r \in Request : rename(r)
  \/ \E r \in Request : dissolve(r)
  \/ \E r \in Request, role \in Roles, st \in {"active", "revoked"}, n \in BOOLEAN :
       UpdateMember(r, role, st, n)
  \/ \E r \in Request, v \in User, role \in Roles : CreateDeploymentMember(r, v, role)
  \/ \E r \in Request, role \in Roles, st \in {"active", "revoked"}, n \in BOOLEAN :
       UpdateDeploymentMember(r, role, st, n)
  \/ \E r \in Request, i \in Invitation, role \in Roles :
       CreateOrganizationInvitation(r, i, role)
  \/ \E r \in Request, i \in Invitation : RevokeOrganizationInvitation(r, i)
  \/ \E r \in Request, i \in Invitation : DeleteOrganizationInvitation(r, i)
  \/ \E u \in User, i \in Invitation : AcceptOrganizationInvitation(u, i)
  \/ \E i \in Invitation : Expire(i)

Spec == Init /\ [][Next]_vars

-----------------------------------------------------------------------------
(* Safety. *)

IsOwner(o, u) == mem[o][u].status = "active" /\ mem[o][u].role = "owner"

\* An active organization always has exactly one active owner, whatever
\* transfers, role updates and revocations commit in between; an organization
\* that is not active has no active member at all.
OneOwnerPerOrganization ==
  \A o \in Org :
    /\ org[o] = "active" => \E u \in User : IsOwner(o, u)
    /\ \A u, v \in User : IsOwner(o, u) /\ IsOwner(o, v) => u = v
    /\ org[o] # "active" => ActiveMembers(o) = {}

\* create and join check for a current organization under the control lock, so
\* no two requests of the same user can put it into two organizations.
OneOrganizationPerUser ==
  \A u \in User : \A o1, o2 \in Org :
    mem[o1][u].status = "active" /\ mem[o2][u].status = "active" => o1 = o2

\* Once set up, the deployment keeps exactly one owner, and it stays active:
\* this is why CreateOwner, which only counts active rows, runs once.
OnePlatformOwner ==
  /\ IsSetUp => \E u \in User : dep[u].role = "owner"
  /\ \A u \in User : dep[u].role = "owner" => dep[u].status = "active"
  /\ \A u, v \in User : dep[u].role = "owner" /\ dep[v].role = "owner" => u = v

\* A user with a membership row has an account in the deployment (a foreign
\* key of the schema, and a conjunct of the inductive invariant).
MembersHaveAccounts ==
  \A o \in Org, u \in User : mem[o][u].status # "none" => dep[u].status # "none"

\* The inductive invariant.  Accepting an invitation as a new account keeps
\* OneOrganizationPerUser only because of MembersHaveAccounts, and creating or
\* joining keeps it only because an inactive organization has no members.
MembershipInvariant ==
  /\ TypeOK
  /\ OneOwnerPerOrganization
  /\ OneOrganizationPerUser
  /\ OnePlatformOwner
  /\ MembersHaveAccounts

-----------------------------------------------------------------------------
(* Membership implements Directory. *)

HomeOf(u) == IF CurrentOrgs(u) = {} THEN NoOrg ELSE CHOOSE o \in CurrentOrgs(u) : TRUE

D == INSTANCE Directory WITH
       access <- [u \in User |-> dep[u].status],
       home <- [u \in User |-> HomeOf(u)],
       dissolved <- {o \in Org : org[o] = "disabled"}

\* Whatever requests interleave, deployment access and organization membership
\* change only the way Directory allows: nobody moves from one organization
\* to another without leaving, the last member never leaves, a dissolved
\* organization admits nobody, and access changes never touch the membership.
ImplementsDirectory == D!DirectorySpec

-----------------------------------------------------------------------------
(* Action properties. *)

Outranks(role, other) ==
  \/ role = "owner" /\ other # "owner"
  \/ role = "admin" /\ other = "member"

\* The row of an active member changes only through a request of that member
\* itself or of somebody who, when it commits, is an enrolled active member of
\* the same organization and outranks it: roles held when the session was
\* resolved count for nothing.
OnlySuperiorsChangeMembers ==
  [][\A o \in Org, v \in User :
       mem[o][v].status = "active" /\ mem'[o][v] # mem[o][v] =>
         \E r \in Request :
           /\ req[r] # Idle /\ req'[r] = Idle
           /\ LET a == req[r].actor.user IN
                /\ Enrolled(a) /\ mem[o][a].status = "active"
                /\ a = v \/ Outranks(mem[o][a].role, mem[o][v].role)]_vars

\* Nobody enters an existing organization without consuming an open invitation
\* to it, and enters with the invited role: an accepted, revoked, expired or
\* deleted invitation admits nobody, and one invitation admits one user.
EntryConsumesInvitation ==
  [][\A o \in Org, u \in User :
       org[o] # "none" /\ mem[o][u].status # "active" /\ mem'[o][u].status = "active" =>
         \E i \in Invitation :
           /\ inv[i].org = o /\ inv[i].state = "open" /\ inv'[i].state = "accepted"
           /\ mem'[o][u].role = inv[i].role
           /\ \A v \in User \ {u} : mem'[o][v] = mem[o][v]]_vars

\* Every commit that changes what an existing account's Principal says (its
\* deployment role or access, its organization or its role there) appends an
\* event that names the user, in the same transaction.
ChangesAreAnnounced ==
  [][\A u \in User :
       dep[u].status # "none" /\ (PrincipalsOf(u)' # PrincipalsOf(u)
                                  \/ Enrolled(u)' # Enrolled(u)) =>
         \E e \in appended' : e.user = u]_vars

\* An event says membership_revoked exactly when the named user has no active
\* membership in the named organization after the commit: the relay that
\* consumes the flag neither drops a member nor keeps one that is gone.
RevocationFlagIsExact ==
  [][\A e \in appended' :
       e.org # NoOrg => (e.revoked <=> mem'[e.org][e.user].status # "active")]_vars
=============================================================================
