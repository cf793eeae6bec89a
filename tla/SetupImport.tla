----------------------------- MODULE SetupImport -----------------------------
(****************************************************************************)
(* How a database comes to its first accounts: setup creates an owner,      *)
(* import-nexus copies the accounts of an old Nexus, import-control-sqlite  *)
(* those of another Control.  The commands may run next to a server that    *)
(* offers the setup form, next to each other, be killed and be run again.   *)
(*                                                                          *)
(* Accounts are numbered in the order of created_at.  A row is a role and a *)
(* status; dep are the platform memberships, om those of organizations.     *)
(* Plans, agents, invitations and events are copied with them and left out: *)
(* what matters of them is in Entitlement and IdentityLog.                  *)
(****************************************************************************)
EXTENDS Naturals, FiniteSets

CONSTANTS Accounts, \* number of accounts that a source may have
          Org,      \* organizations
          Home,     \* the one that import-nexus creates
          Own,      \* the one that setup creates
          Jobs      \* import commands that are used: "nexus", "control"

ASSUME ImportAssumption ==
  /\ Accounts \in Nat \ {0}
  /\ {Home, Own} \subseteq Org /\ Home # Own
  /\ Jobs \subseteq {"nexus", "control"}

VARIABLES source,      \* the two databases: accounts, and subscriptions or members
          job,         \* the import commands and what each has read
          deployments, \* target: who created the rows of deployments
          dep, om,     \* target: deployment_ and organization_memberships
          origin       \* history: what the import that succeeded had read

target == <<deployments, dep, om, origin>>
importVars == <<source, job, target>>

Account == 1 .. Accounts
Founder == 0                   \* the account that setup creates
User == Account \union {Founder}

Role == {"owner", "admin", "member"}
NoRow == [role |-> "none", status |-> "none"]
Row == [role : Role, status : {"active", "revoked"}]
NoMembers == [u \in User |-> NoRow]
NoOrgs == [o \in Org |-> NoMembers]

\* What the tables of a source may hold; the founder is not in them.
Tables(statuses) ==
  {m \in [User -> [role : Role, status : statuses] \union {NoRow}] : m[Founder] = NoRow}

HasActive(m) == \E u \in User : m[u].status = "active"
ActiveOwner == [role |-> "owner", status |-> "active"]
ActiveOwners(m) == {u \in User : m[u] = ActiveOwner}

Idle == [at |-> "idle", dep |-> NoMembers, om |-> NoOrgs, bound |-> {}]

\* The CHECK constraints of the tables.
ImportTypeOK ==
  /\ deployments \subseteq {"setup", "nexus", "control"}
  /\ dep \in [User -> Row \union {NoRow}]
  /\ om \in [Org -> [User -> Row \union {NoRow}]]

\* Every account has its password and its membership, else the source is refused
\* (Fail), and one of them is an active owner.
HasControlOwner(m) == ActiveOwners(m) # {}

\* What the keys and indexes of the source allow: an organization has one active
\* owner, an account is active in one organization, members have accounts.
ControlOrganizations ==
  {os \in [Org -> Tables({"active", "revoked"})] :
     /\ os[Own] = NoMembers
     /\ \A o \in Org : Cardinality(ActiveOwners(os[o])) <= 1
     /\ \A u \in Account : Cardinality({o \in Org : os[o][u].status = "active"}) <= 1}

ControlSources ==
  {c \in [dep : Tables({"active", "revoked"}), om : ControlOrganizations] :
     /\ HasControlOwner(c.dep)
     /\ \A o \in Org, u \in Account : c.om[o][u] # NoRow => c.dep[u] # NoRow}

\* All accounts may be disabled.  Of those with a subscription some may have no
\* password: they are in user_subscriptions and not among the accounts that can be
\* imported.
NexusSources == [users : Tables({"active", "disabled"}), bound : SUBSET Account]

ImportInit ==
  /\ source \in [nexus : IF "nexus" \in Jobs THEN NexusSources
                         ELSE {[users |-> NoMembers, bound |-> {}]},
                 control : IF "control" \in Jobs THEN ControlSources
                           ELSE {[dep |-> NoMembers, om |-> NoOrgs]}]
  /\ job = [j \in Jobs |-> Idle]
  /\ deployments = {}
  /\ dep = NoMembers
  /\ om = NoOrgs
  /\ origin = Idle

-----------------------------------------------------------------------------
(* The target. *)

\* COUNT(*) of the active deployment memberships.
SetupRequired == ~HasActive(dep)

\* COUNT(*) over the tables: none has a row.
TargetEmpty == deployments = {} /\ dep = NoMembers

\* Any error, and the death of the process: a transaction in progress is rolled
\* back with it.
Fail(j) ==
  /\ job[j].at # "idle"
  /\ job' = [job EXCEPT ![j] = Idle]
  /\ UNCHANGED <<source, target>>

\* Setup by form, API or environment, in one transaction under the control lock.
CreateOwner ==
  /\ SetupRequired
  /\ deployments' = deployments \union {"setup"}
  /\ dep' = [dep EXCEPT ![Founder] = ActiveOwner]
  /\ om' = [om EXCEPT ![Own][Founder] = ActiveOwner]
  /\ UNCHANGED <<source, job, origin>>

-----------------------------------------------------------------------------
(* importDeployment: one transaction under the control lock, from rows that *)
(* were read before.                                                        *)

membershipStatus(row) == IF row.status = "active" THEN "active" ELSE "revoked"

imported(row) ==
  IF row = NoRow THEN NoRow ELSE [role |-> row.role, status |-> membershipStatus(row)]

\* Seeded fault: an owner whose account is disabled counts as well.
organizationRole_any(m, u) ==
  IF m[u] = ActiveOwner /\ \E v \in User : v < u /\ m[v].role = "owner"
  THEN "admin" ELSE m[u].role

\* The accounts come in the order of created_at: the first active owner stays
\* owner of the organization, the others become admins of it.
organizationRole(m, u) ==
  IF m[u] = ActiveOwner /\ \E v \in ActiveOwners(m) : v < u
  THEN "admin" ELSE m[u].role

importUser(m, u) == [imported(m[u]) EXCEPT !.role = organizationRole(m, u)]

\* The foreign key of member_entitlements.
EntitlementsFit(j) == \A u \in job[j].bound : job[j].dep[u] # NoRow

\* Seeded fault: whether the target is empty has only been looked at before.
importDeployment_unlocked(j, organizations) ==
  /\ job[j].at = "ready" /\ EntitlementsFit(j)
  /\ deployments' = deployments \union {j}
  /\ dep' = [u \in User |-> imported(job[j].dep[u])]
  /\ om' = organizations
  /\ origin' = job[j]
  /\ job' = [job EXCEPT ![j] = Idle]
  /\ UNCHANGED source

importDeployment(j, organizations) ==
  /\ job[j].at = "ready" /\ TargetEmpty /\ EntitlementsFit(j)
  /\ deployments' = deployments \union {j}
  /\ dep' = [u \in User |-> imported(job[j].dep[u])]
  /\ om' = organizations
  /\ origin' = job[j]
  /\ job' = [job EXCEPT ![j] = Idle]
  /\ UNCHANGED source

-----------------------------------------------------------------------------
(* import-nexus. *)

\* Outside any transaction.
CheckState ==
  /\ job["nexus"].at = "idle" /\ SetupRequired
  /\ job' = [job EXCEPT !["nexus"].at = "checked"]
  /\ UNCHANGED <<source, target>>

\* A source without accounts, and one with a role or an algorithm that is not
\* supported, is refused (Fail).
ScanUsers ==
  /\ job["nexus"].at = "checked" /\ source.nexus.users # NoMembers
  /\ job' = [job EXCEPT !["nexus"].at = "scanned", !["nexus"].dep = source.nexus.users]
  /\ UNCHANGED <<source, target>>

\* A second query, not of the same snapshot.
scanImportedSubscriptions ==
  /\ job["nexus"].at = "scanned"
  /\ job' = [job EXCEPT !["nexus"].at = "ready", !["nexus"].bound = source.nexus.bound]
  /\ UNCHANGED <<source, target>>

ImportNexusSQLite ==
  importDeployment("nexus",
    [NoOrgs EXCEPT ![Home] = [u \in User |-> importUser(job["nexus"].dep, u)]])

\* A Nexus that should have been stopped writes a new account with a subscription.
SourceWrites ==
  \E u \in Account, row \in [role : Role, status : {"active"}] :
    /\ source.nexus.users[u] = NoRow
    /\ source' = [source EXCEPT !.nexus.users[u] = row,
                                !.nexus.bound = @ \union {u}]
    /\ UNCHANGED <<job, target>>

-----------------------------------------------------------------------------
(* import-control-sqlite. *)

\* Accounts and organizations of one read transaction, without a look at the
\* target.  Another schema version or a second deployment is refused (Fail).
scanControlSnapshot ==
  /\ job["control"].at = "idle"
  /\ job' = [job EXCEPT !["control"] = [at |-> "ready", dep |-> source.control.dep,
                                        om |-> source.control.om, bound |-> {}]]
  /\ UNCHANGED <<source, target>>

\* Seeded fault: the memberships are derived from the platform roles.
ImportControlSQLite_derived ==
  importDeployment("control",
    [NoOrgs EXCEPT ![Home] = [u \in User |-> importUser(job["control"].dep, u)]])

\* The organizations come as they are.
ImportControlSQLite == importDeployment("control", job["control"].om)

NexusNext ==
  \/ CheckState \/ ScanUsers \/ scanImportedSubscriptions \/ ImportNexusSQLite
  \/ SourceWrites

ControlNext == scanControlSnapshot \/ ImportControlSQLite

ImportNext ==
  \/ CreateOwner
  \/ "nexus" \in Jobs /\ NexusNext
  \/ "control" \in Jobs /\ ControlNext
  \/ \E j \in Jobs : Fail(j)

ImportSpec == ImportInit /\ [][ImportNext]_importVars

-----------------------------------------------------------------------------
(* Properties. *)

OneDeploymentAtMost == Cardinality(deployments) <= 1

\* Setup and imports that run at the same time, are cut off and repeated leave
\* one deployment at most (CreateOwner, importDeployment): nobody's active accounts
\* come next to another's.  Setup counts active members and not deployments: after
\* the import of a Nexus without an active account, and only then, it adds its own.
SingleDeployment ==
  \/ OneDeploymentAtMost
  \/ deployments = {"nexus", "setup"} /\ ~HasActive(origin.dep)

\* What a Nexus import leaves (importUser): every account is a member of the one
\* organization with the access it had; the organization has one active owner if
\* the source had any, the earliest of them, and all others keep platform role.
FirstOwnerKeepsOrganization ==
  deployments = {"nexus"} =>
    LET owners == ActiveOwners(origin.dep)
    IN /\ ActiveOwners(dep) = owners
       /\ owners # {} => \E u \in owners :
            ActiveOwners(om[Home]) = {u} /\ \A v \in owners : u <= v
       /\ owners = {} => ActiveOwners(om[Home]) = {}
       /\ \A u \in User :
            /\ om[Home][u].status = dep[u].status
            /\ dep[u].status = "active" <=> origin.dep[u].status = "active"

\* A Control import keeps platform and organization roles apart, and brings a
\* platform owner (scanControlOrganizations, scanControlUsers): nobody becomes
\* owner or member of an organization by an import.
ControlImportKeepsRoles ==
  deployments = {"control"} =>
    om = origin.om /\ dep = origin.dep /\ ActiveOwners(dep) # {}
=============================================================================
