# Nexus Control: a TLA+ model

Nexus Control is the authority for accounts, organizations, sessions, execution
nodes and service entitlements of a Nexus deployment. It is a stateless Go
service over one SQL database (SQLite or PostgreSQL); several replicas may run
against the same PostgreSQL database. All of its correctness therefore lies in
what each request reads, when it reads it, and what its transaction locks,
checks and writes. That is what these modules model.

## The system

| Component | State (tables) | Operations | Hard part |
|---|---|---|---|
| Accounts and memberships (`storage/auth/account.go`, `registration.go`, `deployment_member.go`) | `users`, `deployment_memberships` | set up the owner, register, create, update, suspend, restore | the actor's Principal and the target row are read before the transaction |
| Organizations (`organization.go`, `member.go`) | `organizations`, `organization_memberships` | create, join, leave, transfer, rename, dissolve, update and remove members | one owner per organization, one organization per user, under racing requests |
| Invitations (`invitation.go`) | `organization_invitations` | create, revoke, delete, preview, accept | single use; races with expiry, revocation and dissolution |
| Sessions (`session.go`) | `sessions` | log in, log out, resolve, clean up | login is a read and a later insert; the cleanup cascades to nodes |
| Agents (`agent.go`) | `agents` | publish, verify | publication locks another row than the revocation of members |
| Nodes (`node.go`) | `execution_nodes` | register, revoke, exchange a credential for a token | late registrations, tombstones, three reads outside a transaction |
| Password change (`password.go`, `service/auth/user.go`) | `password_credentials`, `password_change_receipts` | change, settle, query the outcome | retries with the same request id, settlement racing a late commit |
| Invalidation feed (`identity_invalidation.go`) | `identity_invalidations` | append in every transaction above; list by cursor | ids are drawn before they become visible |
| Entitlements (`entitlement.go`) | `subscription_plans`, `member_entitlements` | upsert a plan, bind a member, read the effective entitlement | members on the default plan have no row; suspended members get no event |
| Imports (`service/auth/import.go`, `import_organization.go`, `storage/auth/account.go`) | all of them | import from Nexus, from another Control, subscriptions only | the source is read before the target is locked; they run next to setup and to each other |
| Row locks of PostgreSQL (all of `storage/auth`) | locks of transactions | – | logins take no control lock: deadlocks, and statements that wait and look again |
| Member versions (`member.go`, `deployment_member.go`) | `updated_at` of three rows | list, update at two endpoints, log in, join, leave, transfer | a version is a time that was read before the lock, by the clock of a replica |
| Start and stop (`cmd/nexus-control`, `config`, `storage/database.go`, `service/auth/signing.go`, `app/server`) | data directory, schema version | prepare the token, migrate, load the key, initialise the owner, serve, stop | several processes, killed between two steps |
| Log files (`infra/logx/rolling.go`) | a directory | write, rotate, clean up | restarts, full files, a clock set back |
| Internal endpoints, validation, HTTP plumbing | – | – | see "What is not modelled" |

A request runs through three layers: the handler resolves the session cookie to
a *Principal*; the service checks that Principal and, for member updates, reads
the target row; the storage layer runs one transaction. Almost every
transaction starts with `beginIdentityWrite`, which locks the single
`control_state` row, checks what matters again, writes, and appends rows to
`identity_invalidations`. Nexus replicas and the Relay poll that table and drop
what they had cached for the users it names.

On SQLite there is one connection and every transaction begins immediate: a
transaction excludes everything else. On PostgreSQL (READ COMMITTED) only the
locked rows exclude each other. Publications of agents (deployment row only),
logins, settlements of password requests and the reads of a token exchange do
not take the control lock.

## Modules

| Module | What it models | Proofs |
|---|---|---|
| `Membership` | accounts, organizations, invitations, and the requests in flight with what they have read | `MembershipProofs` (invariants, action properties, refinement) |
| `Directory` | abstract: who has access and which organization each user is in. `Membership` implements it, `Devices` extends it | |
| `Devices` | sessions, agents, nodes and token exchanges on top of `Directory`; the variable `database`, chosen from `Databases`, says whose interleavings apply | `DevicesProofs` |
| `PasswordChange` | the interleaved steps of password calls | `PasswordProofs` |
| `PasswordOutcome` | abstract: one decision per request id; `PasswordChange` implements it | |
| `IdentityLog` | writers that draw ids and commit, consumers that poll by cursor | `IdentityLogProofs` |
| `EventFeed` | abstract: in-order, gapless delivery; `IdentityLog` implements it | |
| `Entitlement` | plans, bindings, imports of both, and the projection Nexus keeps | `EntitlementProofs` |
| `Stamps` | the versions that member updates compare, as times of three rows and of requests | `StorageProofs` |
| `RowLocks` | the transactions of PostgreSQL as statements that lock rows one by one | `StorageProofs` |
| `SetupImport` | setup, both account imports and what each has read | `SetupProofs` |
| `Startup` | processes from the start of `run` to their end, over one data directory and one database | `ProcessProofs` |
| `RollingLog` | the files of a log directory over days and restarts | `ProcessProofs` |
| `MC*` | small instances for TLC: symmetry sets, views and bounds | |

### Membership

`dep`, `org`, `mem` and `inv` are the tables, one row per user, organization,
organization and user, and invitation; a row that does not exist has status
`"none"`. `appended` holds the events of the last transaction. `req` holds what
every request in flight has read: nothing (`Idle`), a Principal (`"resolved"`),
or a Principal and a target row (`"prepared"`). `ResolveSession`, `ReadMember`
and `ReadDeploymentMember` are the reads; every other action is one whole
transaction with the service's checks (on what was read) and the storage
layer's checks (on the tables as they are) as guards. `Abandon` is every early
return and rollback.

Abstractions. `updated_at` is compared for equality only, so a prepared request
keeps one bit, `fresh`, cleared by every write to a row its version is computed
from (the membership row or the `users` row). Names, avatars, hashes and
`web_access_disabled` are data that no property tells apart. An expiry is an
action that may happen at any time; it stands for the moment after which no
transaction with an earlier clock reading commits. What a version is made of,
and when two changes may leave it as it was, is the subject of `Stamps`. The partial unique indexes of
the schema are not guards, so that the invariants show no transaction ever runs
into them. The initial state is the empty database; what an import leaves is the
subject of `SetupImport`.

### Devices

A login is `LoginRecord`, then the `DELETE` of the cleanup (`SweepSessions`),
then the commit with the new session and the cascade (`CreateSession`). The
transaction takes no control lock: on PostgreSQL others commit between the last
two, on SQLite `NoTransaction` keeps them out. `sweep` is what the `DELETE` has
found, with (history) the sessions that had a live node then. Publishing is
`PublishCheck` followed by `PublishCommit`; a token exchange is
`NodeByCredential`, `ResolveNodeOwner`, `SignNodeToken`. `snap` is the set of
Principals that requests hold; a request may use one at any later time.
`killed` (history) are the nodes that have been revoked. `NoTransaction` and
`DeploymentUnlocked` say which transactions a publication or a login in progress
excludes.
All agents of a user in one organization are revoked together, so one agent per
user and organization stands for them.

### PasswordChange

One user. `credential` and `receipt` are the tables, `call` the calls in
progress with the hash each has verified against. A hash is salted, so it is
modelled by the password and the call that computed it. `Fail` cuts a call off
anywhere; `TryCommitPasswordChange` may commit without the caller hearing of it.

### IdentityLog

Only ids matter. `open` are the transactions that hold the control lock,
`staged` the ids they have drawn, `visible` the committed ones. A rollback
leaves a gap (PostgreSQL) or gives the ids back (SQLite). The consumers are in
other repositories; they are modelled from the endpoints: start from
`latest`, poll after the cursor, move to `next_cursor`, possibly losing a
response or crashing before the cursor is stored.

### Entitlement

`plan`, `bound` and `access` are the tables, `unread` the users with an event
that Nexus has not dealt with, `fetched` and `proj` what it has read and what it
applies. Limits are opaque values. Reads of a user follow one another in Nexus;
the README of the repository describes when it refreshes the projection.

### Stamps

One account, member of the platform and of one organization: `user` is its row
of `users`, `row` its two membership rows, each with its `updated_at`. Every
editor calls either endpoint at any time: the client lists members and keeps a
version (`ListMembers`), the service reads the target, compares the version
(`ReadTarget`, `RefuseVersion`), reads the clock (`ReadClock`) and starts the
transaction, which compares what was read with what is there (`Unchanged`) and
writes the time it carries (`ApplyUpdate`). The others write the same rows
without any comparison, also with a time read before: logins and avatars the row
of `users` (`Touch`); joining, leaving and transfers the organization row
(`Move`). A clock may read anything (`Reads`). Two history variables tell the
cases apart: `ordered`, every time that was read was later than all before it,
and `crossed`, which of the views of a call somebody has outdated by another way
than the endpoint of the call: a rename at the other endpoint, or a `Move` under a
listing.

### RowLocks

`Program` gives the statements of a transaction as the sets of rows they lock;
`LockRow` locks one row after the other, in any order, waits when another
transaction has it, and looks at the row again afterwards. `known` is what the
first statement of a login has seen, `overdue` what it takes to be expired.
`DetectDeadlock` aborts a member of a minimal cycle. Lock modes and the behaviour
of foreign keys are those of PostgreSQL's manual, and external. Kinds of
transactions that lock the same rows in the same order stand for one another:
`suspend` is the update of a deployment member, `remove` that of an organization
member, `leave` stands for dissolution too.

### SetupImport

`source` are the two databases that are read, `job` what a command has read so
far; `deployments`, `dep` and `om` are the target, `origin` (history) what the
import that succeeded had read. Accounts are numbered in the order of
`created_at`, which decides who stays owner of the organization. A Nexus that
should have been stopped may write between the two queries of `import-nexus`
(`SourceWrites`). Accounts of a source may all be disabled. The target is looked at twice, without and with the lock
(`CheckState`, `importDeployment`).

### Startup

A process walks through the stages of `run`: `pc` is the stage, `mem` what it has
read or generated, `file` the data directory, `schema` the number of applied
migrations. `os.WriteFile` is two steps, truncation and write. `Crash` ends a
process anywhere; `Signal`, `Deadline` and `Leave` are the end of a server that
is told to stop, with the requests in `open`. The variable `env` is the
configuration of the deployment, chosen from `Environments`.

### RollingLog

`files` maps a day and a part to a modification time; part 0 is the active file,
the others are the backups that lumberjack splits off. `Write` is one line: it
rotates, cleans up and appends. `NewWriter`, `Close` and `Killed` are the life of the
process; `SetBack` sets the clock back. A limit (`MaxBackups`, `MaxAgeDays`) of 0
is none. lumberjack removes surplus backups in a goroutine of its own; the model
removes them with the line that splits the file, so the bound is exceeded for
the moment that goroutine takes, or by the backups it could not remove.

## What the runs check

| Run | Instance | States | Shows |
|---|---|---|---|
| `membership` | 3 users with 1 organization or 2 with 2, 1 invitation, 2 requests | 0.33 M | one owner per organization; nobody in two organizations; one platform owner; the inductive invariant; only superiors change members; entries consume an invitation; every change of a Principal is announced; the revocation flag tells the truth; `Membership` implements `Directory` |
| `devices` | 2 users, 2 organizations, 2 sessions, 1 node, 1 exchange, both databases | 1.1 M | live nodes are grounded in membership, agent and session; no token for a node that was unusable when asked; unusable nodes stay unusable; tombstones hold; losses are announced, save for a node registered under a cleanup's `DELETE`; on SQLite active agents belong to active members |
| `password` | 3 calls, 2 request ids, 2 passwords | 0.5 M | receipts never missing; answers agree; `PasswordChange` implements `PasswordOutcome`; every request id is decided (liveness) |
| `identity_log` | 2 writers, 2 consumers, limit 2, 5 ids | 87 k | nothing skipped; drawn ids are new; `IdentityLog` implements `EventFeed`; every committed event is seen (liveness) |
| `entitlement` | 2 users, 2 plans, 2 limits | 25 k | every account resolves; no stale limit |
| `startup` | 2 servers, 1 import, 4 environments, 3 ends by force | 0.1 M | a server signs with the persisted key; it has schema and owner under it; every server comes up again (liveness) |
| `setup_import` | sources of 1 and 2 accounts, both imports and setup | 0.45 M | one deployment, or setup's after an import without an active account; the earliest active owner gets the organization; a Control import keeps roles |
| `row_locks` | 2 transactions of 8 kinds, 2 sessions of one user | 0.18 M | every deadlock has a login in it; a cleanup spares the nodes it can see; every transaction ends (liveness) |
| `stamps` | 2 editors, 1 other, both endpoints, 3 readings of 3 times | 0.86 M | while times increase, stale updates are refused, save for what went another way; always, no update changes a role or status it does not name |
| `rolling_log` | 3 days, 2 backups, 2 days of age, 1 clock set back | 0.56 M | the directory is bounded; the latest lines are kept |
| `agents_postgres`, `shutdown_graceful` | – | – | violated, see the findings |

Why the bounds are enough to meet the interesting cases: two requests in flight
are one that holds stale data and one that made it stale; three users are an
owner, an admin and a member, or an owner and two candidates; two organizations
let a user leave one and enter another while a request still names the first;
two sessions let one be cleaned up while the other registers a node; three
password calls over two request ids let two calls share an id while a change
away and back happens beside them; a response limit of two with five ids cuts
batches in the middle. Three forced ends let a process die while it writes a
file, its successor die over what it finds, and a server be stopped in between.
Two transactions meet every pair of programs; a cycle of three can be looked at
by adding a third to `MCRowLocks.cfg`. Two accounts in a source are an owner and
an earlier or later rival; two editors and another one are one whose view is
stale and two who outdate it, each may call again, and three readings are enough
for times that are equal, run backwards or are written in another order.

Bounds that cut behaviour: `MaxId` (ids drawn), `MaxSecret` and `MaxCrash`
(secrets, forced ends), `MaxClock` and `MaxReads` (times, readings of a clock), `MaxTime` and `MaxBack` (the
clock of the log). `FewRows` in `MCMembership` keeps three users to one
organization, to one update in flight, to one request at a time once there is an
invitation, and ends with the dissolution (two users with two organizations are
kept to none of these);
`OneLargeSource` in `MCSetupImport` keeps one of the two sources to one account.

The views leave `appended` out of the state: no action reads it, and the action
properties look at its next value on every transition. The view of `MCStamps`
also leaves out what no later step and no property reads: what a client was shown
once times are out of order, and calls that cannot read a clock any more. Runs with a liveness
property use neither symmetry nor views.

Deadlock is checked where the system has no end: `membership`, `devices`,
`identity_log`, `entitlement`, `startup`, `rolling_log`. The calls of `password`,
the transactions of `row_locks`, the calls and times of `stamps` and the imports
of `setup_import` come to an end.

Fairness. `PasswordSpec` assumes that a call which was accepted goes on (weak
fairness of its steps): an HTTP handler runs to its end unless it fails, and
failing is an action of its own. `LogSpec` assumes that a consumer keeps polling
(weak) and that not every response is lost or forgotten (strong): both are what
a polling loop with retries does. Nothing is assumed of writers. `StartupSpec`
assumes that a process goes on by itself and that the supervisor starts servers
again, each in its turn where starts do not overlap (strong); nothing is assumed
of imports and of signals. `RowLocksSpec` assumes that PostgreSQL runs the
statements it was given and looks for deadlocks; a transaction that nobody
continues does not exist in this code, which issues all statements of one from
one function.

Every property of a passing run comes with a seeded fault in the module it is
about (the definitions commented "Seeded fault"), a small slip of the kind the
code could have; `PROJECT.json` names them.

## Findings

Two runs show where the code does less than a comment says.

* **`agents_postgres`.** `agent.go:61` says that publishing shares the
  deployment lock with the revocation of members, so that a stale request cannot
  publish after a revocation has committed. Removal by a manager takes that
  lock; `leave` and `dissolve` do not. On PostgreSQL: check the membership,
  leave, upsert. The agent is active without a member; after a readmission it is
  valid although `docs/organization-lifecycle.md` says that rejoining restores no
  machine authorization. On SQLite the property holds
  (`SQLiteAgentsBelongToMembers`).
* **`shutdown_graceful`.** `server.go:38` says that `ListenAndServe` exits
  gracefully when the context ends. `http.Server.ListenAndServe` returns as soon
  as `Shutdown` has closed the listener; `run` returns, the database is closed
  and the process ends while the goroutine that called `Shutdown` still waits for
  the requests in flight.

Seven further configurations are kept beside the runs. TLC finds each of them
violated with `tlc -config <file>.cfg <module>`.

* `MCRevocationIsFinal.cfg` (`MCDevices`). `node.go:149` says that a revocation
  leaves a terminal record even for an unknown node so that a late registration
  cannot succeed. That record references a session with `ON DELETE CASCADE`, and
  every login deletes expired and revoked sessions that have no live node. Revoke
  the node, log out, log in: the record is gone and the registration goes through.
  `TombstonesHold` is what remains true.
* `MCRestoreRevivesNoSession.cfg` (`MCDevices`).
  `docs/organization-lifecycle.md:33` says that restoring access does not bring
  sessions back. `CreateSession` does not check the membership again: a login that
  passed the password check before the suspension inserts its session after it,
  and the session works once access is restored.
* `MCStartupToken.cfg` (`MCStartup`). A process that dies, or finds the disk full,
  between opening and filling the service token file (`config.go:125`) leaves an
  empty file. Every later start reads it without an error and `Validate` refuses
  the empty token, until the file is removed by hand. `LoadSigner` takes an empty
  key file for a missing one.
* `MCStartupOverlap.cfg` (`MCStartup`). Two processes that start at the same time
  on an empty data directory both find no key and generate one (`signing.go:27`);
  the one whose files are overwritten signs with a key that is not persisted and
  does not belong to the published public key.
* `MCSetupDisabled.cfg` (`MCSetupImport`). `SetupRequired` and `CreateOwner` count
  active memberships. After an import of accounts that are all disabled the
  database has a deployment and still asks for setup, which adds a second one;
  the repository's `README.md:5` speaks of a single deployment
  (`OneDeploymentAtMost`). `SingleDeployment` is what remains true.
* `MCExpiryCutsNoDevice.cfg` (`MCRowLocks`). The `DELETE` of the cleanup
  (`session.go:48`) waits for the row of an expired session that a registration
  holds for its foreign key. When the registration commits, the row itself has not
  changed, so `NOT EXISTS` is not evaluated again and the cascade takes the node
  that was just registered; `node_test.go:131` says that the natural expiry of a
  browser session must not cut a device off. In
  `Devices` this is the exception `SweptAfterDelete` of `LossIsAnnounced`.
* `MCStampsTwoTables.cfg` (`MCStamps`). The version of a member is the later of
  two stamps in two tables. A rename through the organization endpoint with an
  early time commits after the deployment row has got a newer stamp: the version
  does not change, and an update based on the old name writes it back
  (`EveryStaleUpdateIsRefused`). With equal readings, or clocks that disagree, one
  endpoint is enough: two renames at one microsecond make one version.

## What is proved

All theorems hold for every value of the constants (no bound on users,
organizations, requests, calls, writers, consumers, plans).

* `MembershipProofs`: `TypeCorrect`, `InvariantHolds`, `SingleOwner`,
  `SingleOrganization`, `SinglePlatformOwner`. The invariant `MembershipInvariant`
  joins the three properties, which are not inductive apart: creating or joining
  an organization keeps `OneOrganizationPerUser` only because an organization
  that is not active has no active members, and accepting an invitation as a new
  account keeps it only because members have accounts (`MembersHaveAccounts`).
  `CreateOwner` counts active members only; that it runs once rests on the owner
  being active for good. Assumption: `NoOrg` is not an organization.
* `MembershipProofs`, about steps: `SuperiorsHold`, `EntriesHold`, `AnnouncementsHold`,
  `FlagsAreExact` and the refinement `DirectoryRefinement`, all from
  `MembershipInvariant` before and after a step. The organization of a user is
  well defined because there is at most one (`HomeIs`); whoever leaves or is
  removed leaves the owner behind (`LeavesAsRemove`); an entry finds no active row
  of its user (`EntersAsAdmit`).
* `DevicesProofs`: `DevicesTypes`, `NodesAreGrounded`, `UnusableGetsNoToken`,
  `SQLiteAgentsHold`, `UnusableHolds`, `TombstonesAreKept`, `LossHolds`, and
  `DevicesExtendDirectory`: what `DirectoryRefinement` shows of the membership
  tables is all that `Devices` takes from them. `DevicesInvariant` strengthens
  the grounding of a live node by why it may be unusable: its session is revoked
  (`Grounded`). A revoked session is never live again, so the node stays
  unusable, and an exchange that has looked it up fails at the owner
  (`Refusable`). For a login between its two steps it adds that what the
  `DELETE` has doomed is still expired, revoked or deleted, and that on SQLite
  its sessions have no live node (`SweepHolds`). On SQLite a publication in
  progress still has the membership it has checked (`SQLitePublications`).
* `PasswordProofs`: `PasswordHolds`, `ReceiptAlwaysThere`, `AnswersAlwaysAgree`
  and the refinement `PasswordRefinement`. The invariant adds that a verified
  call knows the password behind the hash it holds (this is what makes the
  compare-and-swap a check of the password) and that running calls have not
  answered.
* `IdentityLogProofs`: `LogHolds`, `NothingIsSkipped`, `DrawnIdsStayNew` and the
  refinement `FeedRefinement`. The invariant adds that only the holder of the lock
  has drawn ids (`OneWriter`), that a response on its way has no gap even if
  events became visible since (`RepliesAreGapless`), and that no cursor has
  reached an id that a rollback may give back. What a consumer has seen is thus a
  prefix of the visible events, and a reply continues it. Assumptions: the limit
  is positive, the imported ids lie within `MaxId`.
* `EntitlementProofs`: `EntitlementHolds`, `AccountsResolve`,
  `ProjectionCurrent`. The invariant adds that the default plan has an active row
  once there is an account, that bound plans have rows, and that a read under way
  is as current as the events it dealt with (`ReadsAreCurrent`). Assumption: the
  default plans are distinct and `None` is neither a plan nor a limit.
* `SetupProofs`: `OneDeployment`, `FirstOwnerIsKept`, `ControlRolesAreKept`, for
  any sources. The invariant says that a deployment has an active member from the
  transaction that creates it on, unless it was imported from a source without one
  (`OneWithMembers`): otherwise neither the count of active members nor that of
  deployments lets a second one in. `ImportKept` then compares the target with what
  the import had read.
* `ProcessProofs`, about `Startup`: `ServingAlwaysReady`, `SigningKeyStays`. The
  invariant says that no process counts on more migrations than there are and that
  whoever is past the migration finds all of them (`SchemaOK`, `OwnerOK`); and,
  where starts do not overlap, that a process which generates a key finds none and
  is the only one coming up, so that whoever has a key has that of the deployment
  (`KeyOK`). The number of processes, migrations, secrets and crashes is arbitrary.
* `ProcessProofs`, about `RollingLog`: `RollingTypesHold`, `FilesStayBounded`,
  `LatestLinesStay`, for any `MaxBackups` and `MaxAgeDays` (0 too), any length of a
  day and a clock that is set back any number of times. `FilesAreBounded` is not inductive:
  a directory just as full, but with the wrong files, has no room for the next
  part. The invariant adds what a cleanup leaves for its day (`Roomy`): few files of
  other days, and of this day no more parts than lumberjack keeps, or than the
  cleanup has left. That lumberjack keeps `MaxBackups` parts is `LatestParts`: the
  number of later parts is an injection of those that stay into `0 .. MaxBackups-1`.
* `StorageProofs`, about `RowLocks`: `DeadlocksNeedLogins`,
  `CleanupsSpareNodes`, for any number of transactions, which is more than the
  two of the run: circles of waits may have any length. The invariant says what
  a transaction may have asked for at each of its statements: an identity write
  nothing before `control_state` (`ControlFirst`); rows of agents only after the
  deployment or `control_state` (`DeploymentBeforeAgents`, `LockMayBe`); a
  cleanup nothing of nodes that were alive when its `DELETE` began
  (`CleanupSpares`). In a circle without logins nobody waits for a publication,
  so each member waits for an identity write that holds `control_state`; two of
  them would hold it at once, which the lock table excludes
  (`LocksAreCompatible`).
* `StorageProofs`, about `Stamps`: `StaleUpdatesRefused` and `AuthorityKept`, for
  any number of editors and others, both endpoints and any clocks. `AuthorityKept`
  needs no more than that a call keeps what its service has read. The invariant
  behind `StaleUpdatesRefused` says that while times are ordered nobody has a time
  that another has or that is written (`StampsAreApart`), and that a view nobody has
  crossed, if its version is still there, is what the member is, while a version that
  is gone never comes back (`Fixed`; `NameFixed` says it of the name alone, for a
  membership may move under what the service has read, which compares role and
  status themselves). A login may write an early time late; the version it brings back
  is nobody's. Both exceptions are needed: `MCStampsTwoTables.cfg` violates the
  property without them.
The inductive invariants of `RowLocks`, `Stamps` and `RollingLog` were checked by
TLC on the instances of their runs before they were proved.

Only model-checked are the four liveness properties (`EveryRequestDecided`,
`EventuallySeen`, `EveryServerComesUp`, `EveryTransactionEnds`), which with
fairness and ENABLED are out of the prover's reach, as is induction over recursive
data (no module needs it). Every safety property and every action property of a
passing run is proved.

## What is not modelled

* Columns that an import copies as they are: profiles, hashes, agents,
  invitations and events. Plans, bindings and event ids are in `Entitlement` and
  `IdentityLog`.
* The internal verification endpoints beyond the two that `Devices` and
  `Entitlement` use: each is one read that changes nothing.
* The lifetime of signed tokens and the leases of Nexus and the Relay.
* The signature, encoding, validation of lengths and characters, routing, cookies
  and decoding, the reading of variables and `.env` files, DSN handling, the
  layout of log lines: no shared state, or plain text.
* Migrations as text: `Startup` knows their number and order only.
* A log without `RotateDaily`, which leaves everything to lumberjack.

## Plan

Order of the work, most important first; all but the twelfth are done.

1. `Membership` with `Directory`, checked; its invariant proved.
2. `Devices` on `Directory`, for both databases.
3. `PasswordChange` implementing `PasswordOutcome`, checked and proved.
4. `IdentityLog` implementing `EventFeed`, checked; its invariant proved.
5. `Entitlement` with the projection, checked and proved.
6. `Startup`: processes, files, migrations, and the end of a server.
7. `SetupImport`: the import commands and concurrent setup.
8. `RowLocks`: the row locks of PostgreSQL transactions and deadlock.
9. `Stamps`: the versions of member updates.
10. `RollingLog`: rotation and cleanup of log files.
11. Proofs of `Devices`, `SetupImport` and `Startup`, of the refinements to
    `Directory` and `EventFeed`, and of the action properties of `Membership`.
12. `LeaseCache`: the invalidation feed composed with the Principal leases of
    Nexus, fed by `Membership` and `Devices` events.
13. Proofs of `Stamps`, of `RowLocks` and of `RollingLog`.
