-------------------------------- MODULE Devices --------------------------------
(****************************************************************************)
(* Sessions, published agents and execution nodes: the three tables that    *)
(* carry authority derived from a membership, and that must lose it when    *)
(* the membership goes.  Membership itself is the specification Directory.  *)
(*                                                                          *)
(* Transactions that lock control_state are one step.  Three operations do  *)
(* not, and take several steps: Login (LoginRecord, then the transaction of *)
(* CreateSession, which locks nothing beforehand: what its DELETE sees, and *)
(* its commit), the publication of an agent (its own transaction, which     *)
(* locks only the deployment row), and the exchange of a node credential    *)
(* for a token (three queries outside any transaction).  SQLite has one     *)
(* connection, so there a transaction excludes everything else; PostgreSQL  *)
(* lets the others commit in between.                                       *)
(*                                                                          *)
(* A user publishes one agent per organization: agents of the same user are *)
(* only ever revoked together.                                              *)
(****************************************************************************)
EXTENDS Directory

CONSTANTS Session, Node, Exchange,
          Databases  \* "postgres", "sqlite": what the deployment may run on

ASSUME DatabasesAssumption == Databases \subseteq {"postgres", "sqlite"}
ASSUME DeviceNoOrgAssumption == NoOrg \notin Org

VARIABLES database,  \* the one that was configured
          sess,      \* sessions
          sweep,     \* what the DELETE of a login in progress saw
          agent,     \* agents.status per organization and owner
          node,      \* execution_nodes
          snap,      \* Principals (session, organization) held by requests in flight
          pub,       \* publications between their membership check and their write
          exch,      \* node token exchanges
          killed,    \* history: nodes whose revocation has been committed
          appended   \* identity_invalidations rows of the last transaction

deviceVars == <<sess, sweep, agent, node, snap, pub, exch, killed>>
allVars == <<database, access, home, dissolved, sess, sweep, agent, node, snap, pub, exch, killed,
             appended>>

\* "login": the password was verified; "sweep": the transaction that inserts the
\* row is in progress.  Neither is a row yet.
SessionRow == [user : User,
               state : {"none", "login", "sweep", "live", "expired", "revoked", "deleted"}]
\* The sessions a DELETE removes; inUse is history: those that had a live node then.
Sweep == [doomed : SUBSET Session, inUse : SUBSET Session]
NoSweep == [doomed |-> {}, inUse |-> {}]
LiveNode == [state : {"live", "revoked"}, org : Org, owner : User, parent : Session]
NoNode == [state |-> "none"]
Snapshot == [session : Session, org : Org]
Publication == [user : User, org : Org]
NoExchange == [phase |-> "idle"]
ExchangeState ==
  {NoExchange} \union
  [phase : {"found", "resolved", "signed"}, id : Node, record : LiveNode, usable : BOOLEAN]

\* What an event names: a user in an organization, a whole user, a session, a node.
DeviceEvent == [about : {"organization"}, user : User, org : Org]
                 \union [about : {"user"}, user : User]
                 \union [about : {"session"}, session : Session]
                 \union [about : {"node"}, node : Node]

DevicesTypeOK ==
  /\ DirectoryTypeOK
  /\ database \in Databases
  /\ sess \in [Session -> SessionRow]
  /\ sweep \in [Session -> Sweep]
  /\ agent \in [Org -> [User -> {"none", "active", "revoked"}]]
  /\ node \in [Node -> LiveNode \union {NoNode}]
  /\ snap \subseteq Snapshot
  /\ pub \subseteq Publication
  /\ exch \in [Exchange -> ExchangeState]
  /\ killed \subseteq Node
  /\ appended \subseteq DeviceEvent

DevicesInit ==
  /\ DirectoryInit
  /\ database \in Databases
  /\ \E u \in User : sess = [s \in Session |-> [user |-> u, state |-> "none"]]
  /\ sweep = [s \in Session |-> NoSweep]
  /\ agent = [o \in Org |-> [u \in User |-> "none"]]
  /\ node = [n \in Node |-> NoNode]
  /\ snap = {} /\ pub = {}
  /\ exch = [x \in Exchange |-> NoExchange]
  /\ killed = {} /\ appended = {}

-----------------------------------------------------------------------------
(* What the queries read. *)

\* activeAgentOwner, and the check of UpsertOwnedAgent.
ActiveIn(u, o) == access[u] = "active" /\ home[u] = o

Unrevoked(s) == sess[s].state \in {"live", "expired"}
NodesOf(s) == {n \in Node : node[n].state # "none" /\ node[n].parent = s}
LiveNodes == {n \in Node : node[n].state = "live"}

\* ResolveNodeOwner and the organization check after it, for the node row rec
\* that was read under id n.
NodeOwnerResolves(n, rec) ==
  /\ node[n].state = "live" /\ node[n].parent = rec.parent /\ node[n].owner = rec.owner
  /\ Unrevoked(rec.parent) /\ sess[rec.parent].user = rec.owner
  /\ access[rec.owner] = "active"
  /\ home[rec.owner] = rec.org

\* The node could obtain a token if nothing changed.
Usable(n) ==
  /\ node[n].state = "live"
  /\ NodeOwnerResolves(n, node[n])
  /\ agent[node[n].org][node[n].owner] = "active"

\* On SQLite a transaction in progress holds the only connection; on PostgreSQL
\* a publication excludes only those who lock the deployment row, a login nobody.
NoTransaction ==
  database = "postgres" \/ (pub = {} /\ \A s \in Session : sess[s].state # "sweep")
DeploymentUnlocked == pub = {} /\ NoTransaction

-----------------------------------------------------------------------------
(* What the transactions write. *)

\* Seeded fault: the row is cleared instead of marked.
RevokeNodes_cleared(ns) ==
  /\ node' = [n \in Node |-> IF n \in ns THEN [node[n] EXCEPT !.state = "none"] ELSE node[n]]
  /\ killed' = killed \union ns

RevokeNodes(ns) ==
  /\ node' = [n \in Node |-> IF n \in ns THEN [node[n] EXCEPT !.state = "revoked"] ELSE node[n]]
  /\ killed' = killed \union ns

\* Seeded fault: the statement for execution_nodes is missing.
revokeMembers_nodes(o, us) ==
  /\ agent' = [agent EXCEPT ![o] =
                 [u \in User |-> IF u \in us /\ agent[o][u] # "none" THEN "revoked" ELSE agent[o][u]]]
  /\ appended' = {[about |-> "organization", user |-> u, org |-> o] : u \in us}
  /\ UNCHANGED <<sess, sweep, node, snap, pub, exch, killed>>

\* Seeded fault: the statement for agents is missing.
revokeMembers_agents(o, us) ==
  /\ RevokeNodes({n \in LiveNodes : node[n].org = o /\ node[n].owner \in us})
  /\ appended' = {[about |-> "organization", user |-> u, org |-> o] : u \in us}
  /\ UNCHANGED <<sess, sweep, agent, snap, pub, exch>>

\* revokeOrganizationMember for every user of us: agents, nodes, event.
revokeMembers(o, us) ==
  /\ agent' = [agent EXCEPT ![o] =
                 [u \in User |-> IF u \in us /\ agent[o][u] # "none" THEN "revoked" ELSE agent[o][u]]]
  /\ RevokeNodes({n \in LiveNodes : node[n].org = o /\ node[n].owner \in us})
  /\ appended' = {[about |-> "organization", user |-> u, org |-> o] : u \in us}
  /\ UNCHANGED <<sess, sweep, snap, pub, exch>>

-----------------------------------------------------------------------------
(* Membership changes and what they take with them. *)

\* An account is created, or somebody enters an organization: nothing of the
\* three tables is touched, in particular no agent or node comes back.
Join(u) ==
  /\ NoTransaction
  /\ Enroll(u) \/ \E o \in Org : Admit(u, o)
  /\ appended' = {}
  /\ UNCHANGED deviceVars

\* leave and dissolve lock control_state but not the deployment row.
LeaveOrganization(u) ==
  /\ NoTransaction
  /\ access[u] = "active" /\ Remove(u)
  /\ revokeMembers(home[u], {u})

DissolveOrganization(o) ==
  /\ NoTransaction
  /\ Dissolve(o)
  /\ revokeMembers(o, Members(o))

\* UpdateMember with status revoked locks both.
RemoveMember(u) ==
  /\ DeploymentUnlocked
  /\ Remove(u)
  /\ \E v \in Members(home[u]) \ {u} : access[v] = "active"
  /\ revokeMembers(home[u], {u})

\* Seeded fault: the sessions are left alone, since a suspended user's
\* session does not resolve anyway.
SuspendMember_lazily(u) ==
  /\ DeploymentUnlocked
  /\ Suspend(u)
  /\ appended' = {[about |-> "user", user |-> u]}
  /\ UNCHANGED deviceVars

\* UpdateDeploymentMember with status revoked: every session is revoked, the
\* nodes keep their rows.  The member may have been revoked before.
SuspendMember(u) ==
  /\ DeploymentUnlocked
  /\ \/ /\ Suspend(u)
        /\ appended' = {[about |-> "user", user |-> u]}
     \/ /\ access[u] = "revoked" /\ SomebodyElse(u)
        /\ appended' = {}
        /\ UNCHANGED directoryVars
  /\ sess' = [s \in Session |-> IF sess[s].user = u /\ Unrevoked(s)
                                THEN [sess[s] EXCEPT !.state = "revoked"] ELSE sess[s]]
  /\ UNCHANGED <<sweep, agent, node, snap, pub, exch, killed>>

RestoreMember(u) ==
  /\ DeploymentUnlocked
  /\ Restore(u)
  /\ appended' = {[about |-> "user", user |-> u]}
  /\ UNCHANGED deviceVars

\* TryCommitPasswordChange, when it commits (module PasswordChange): every
\* node of the user is revoked and announced; its sessions stay.
ChangePassword(u) ==
  /\ NoTransaction
  /\ access[u] # "none"
  /\ LET ns == {n \in LiveNodes : node[n].owner = u} IN
       /\ RevokeNodes(ns)
       /\ appended' = {[about |-> "node", node |-> n] : n \in ns}
  /\ UNCHANGED <<access, home, dissolved, sess, sweep, agent, snap, pub, exch>>

-----------------------------------------------------------------------------
(* Sessions. *)

\* Login reads the account and verifies the password outside a transaction.
LoginRecord(s, u) ==
  /\ NoTransaction
  /\ sess[s].state = "none"
  /\ access[u] = "active"
  /\ sess' = [sess EXCEPT ![s] = [user |-> u, state |-> "login"]]
  /\ appended' = {}
  /\ UNCHANGED <<access, home, dissolved, sweep, agent, node, snap, pub, exch, killed>>

\* Seeded fault: the sweep does not look for live nodes.
SweepSessions_blind(s) ==
  /\ NoTransaction
  /\ sess[s].state = "login"
  /\ sess' = [sess EXCEPT ![s].state = "sweep"]
  /\ sweep' = [sweep EXCEPT ![s] = [doomed |-> {k \in Session : sess[k].state \in {"expired", "revoked"}},
                                   inUse |-> {k \in Session : NodesOf(k) \intersect LiveNodes # {}}]]
  /\ appended' = {}
  /\ UNCHANGED <<access, home, dissolved, agent, node, snap, pub, exch, killed>>

\* The DELETE of CreateSession sees every expired or revoked session without a
\* live node.  On PostgreSQL it then waits for the rows that others have locked,
\* and they commit; of such a row only the session itself is looked at again.
\* (A login that fails here leaves nothing: it is one that has not begun.)
SweepSessions(s) ==
  /\ NoTransaction
  /\ sess[s].state = "login"
  /\ LET inUse == {k \in Session : NodesOf(k) \intersect LiveNodes # {}} IN
       sweep' = [sweep EXCEPT ![s] =
         [doomed |-> {k \in Session : sess[k].state \in {"expired", "revoked"}} \ inUse,
          inUse |-> inUse]]
  /\ sess' = [sess EXCEPT ![s].state = "sweep"]
  /\ appended' = {}
  /\ UNCHANGED <<access, home, dissolved, agent, node, snap, pub, exch, killed>>

\* Its commit, with the inserted session: the foreign key takes every node along
\* that hangs from a deleted session by now.
CreateSession(s) ==
  /\ sess[s].state = "sweep"
  /\ LET doomed == sweep[s].doomed IN
       /\ sess' = [k \in Session |->
                     IF k = s THEN [sess[k] EXCEPT !.state = "live"]
                     ELSE IF k \in doomed THEN [sess[k] EXCEPT !.state = "deleted"] ELSE sess[k]]
       /\ node' = [n \in Node |-> IF \E k \in doomed : n \in NodesOf(k) THEN NoNode ELSE node[n]]
  /\ sweep' = [sweep EXCEPT ![s] = NoSweep]
  /\ appended' = {}
  /\ UNCHANGED <<access, home, dissolved, agent, snap, pub, exch, killed>>

\* Logout (RevokeSession): an expired session is revoked as well.
Logout(s) ==
  /\ NoTransaction
  /\ Unrevoked(s)
  /\ sess' = [sess EXCEPT ![s].state = "revoked"]
  /\ appended' = {[about |-> "session", session |-> s]}
  /\ UNCHANGED <<access, home, dissolved, sweep, agent, node, snap, pub, exch, killed>>

\* expires_at passes.
ExpireSession(s) ==
  /\ sess[s].state = "live"
  /\ sess' = [sess EXCEPT ![s].state = "expired"]
  /\ appended' = {}
  /\ UNCHANGED <<access, home, dissolved, sweep, agent, node, snap, pub, exch, killed>>

\* requireWebPrincipal: the request keeps the Principal for as long as it runs.
\* Without an organization it can do nothing that is modelled here.
ResolveSession(s) ==
  /\ NoTransaction
  /\ sess[s].state = "live"
  /\ access[sess[s].user] = "active" /\ home[sess[s].user] \in Org
  /\ snap' = snap \union {[session |-> s, org |-> home[sess[s].user]]}
  /\ appended' = {}
  /\ UNCHANGED <<access, home, dissolved, sess, sweep, agent, node, pub, exch, killed>>

-----------------------------------------------------------------------------
(* Agents. *)

\* UpsertOwnedAgent up to its membership check.
PublishCheck(p) ==
  /\ DeploymentUnlocked
  /\ p \in snap
  /\ ActiveIn(sess[p.session].user, p.org)
  /\ pub' = {[user |-> sess[p.session].user, org |-> p.org]}
  /\ appended' = {}
  /\ UNCHANGED <<access, home, dissolved, sess, sweep, agent, node, snap, exch, killed>>

\* Its upsert and commit: the status becomes active whatever it was.
PublishCommit(q) ==
  /\ q \in pub
  /\ agent' = [agent EXCEPT ![q.org][q.user] = "active"]
  /\ pub' = {}
  /\ appended' = {}
  /\ UNCHANGED <<access, home, dissolved, sess, sweep, node, snap, exch, killed>>

-----------------------------------------------------------------------------
(* Nodes. *)

\* Seeded fault: the Principal's session and organization are not read again.
RegisterNode_stale(p, n) ==
  /\ NoTransaction
  /\ p \in snap
  /\ node[n] = NoNode
  /\ node' = [node EXCEPT ![n] = [state |-> "live", org |-> p.org,
                                  owner |-> sess[p.session].user, parent |-> p.session]]
  /\ appended' = {}
  /\ UNCHANGED <<access, home, dissolved, sess, sweep, agent, snap, pub, exch, killed>>

\* Seeded fault: the insert overwrites a revoked row.
RegisterNode_upsert(p, n) ==
  /\ NoTransaction
  /\ p \in snap
  /\ Unrevoked(p.session)
  /\ LET u == sess[p.session].user IN
       /\ ActiveIn(u, p.org) /\ agent[p.org][u] = "active"
       /\ node[n].state # "live"
       /\ node' = [node EXCEPT ![n] = [state |-> "live", org |-> p.org, owner |-> u,
                                       parent |-> p.session]]
  /\ appended' = {}
  /\ UNCHANGED <<access, home, dissolved, sess, sweep, agent, snap, pub, exch, killed>>

\* A session that expired since the request read the clock still counts.  A
\* replay of the same registration changes nothing; any other use of a known
\* node id is a conflict.
RegisterNode(p, n) ==
  /\ NoTransaction
  /\ p \in snap
  /\ Unrevoked(p.session)
  /\ LET u == sess[p.session].user IN
       /\ ActiveIn(u, p.org) /\ agent[p.org][u] = "active"
       /\ node[n] = NoNode
       /\ node' = [node EXCEPT ![n] = [state |-> "live", org |-> p.org, owner |-> u,
                                       parent |-> p.session]]
  /\ appended' = {}
  /\ UNCHANGED <<access, home, dissolved, sess, sweep, agent, snap, pub, exch, killed>>

\* An unknown id gets a revoked row, so that a registration still on its way
\* finds it; that row hangs from the session of the revoking request.
RevokeNode(p, n) ==
  /\ NoTransaction
  /\ p \in snap
  /\ LET u == sess[p.session].user IN
       \/ /\ node[n] = NoNode /\ Unrevoked(p.session)
          /\ node' = [node EXCEPT ![n] = [state |-> "revoked", org |-> p.org, owner |-> u,
                                          parent |-> p.session]]
          /\ killed' = killed \union {n}
          /\ appended' = {}
       \/ /\ node[n].state = "live" /\ node[n].org = p.org /\ node[n].owner = u
          /\ RevokeNodes({n})
          /\ appended' = {[about |-> "node", node |-> n]}
  /\ UNCHANGED <<access, home, dissolved, sess, sweep, agent, snap, pub, exch>>

-----------------------------------------------------------------------------
(* ExchangeNodeToken. *)

\* NodeByCredential; usable records whether the node was usable at that moment.
NodeByCredential(x, n) ==
  /\ NoTransaction
  /\ exch[x].phase \in {"idle", "signed"}
  /\ node[n].state = "live"
  /\ exch' = [exch EXCEPT ![x] = [phase |-> "found", id |-> n, record |-> node[n],
                                  usable |-> Usable(n)]]
  /\ appended' = {}
  /\ UNCHANGED <<access, home, dissolved, sess, sweep, agent, node, snap, pub, killed>>

\* ResolveNodeOwner and the comparison of deployment and organization.
ResolveNodeOwner(x) ==
  /\ NoTransaction
  /\ exch[x].phase = "found"
  /\ exch' = [exch EXCEPT ![x] =
                IF NodeOwnerResolves(exch[x].id, exch[x].record)
                THEN [exch[x] EXCEPT !.phase = "resolved"] ELSE NoExchange]
  /\ appended' = {}
  /\ UNCHANGED <<access, home, dissolved, sess, sweep, agent, node, snap, pub, killed>>

\* VerifyOwnedAgents, then the signature.
SignNodeToken(x) ==
  /\ NoTransaction
  /\ exch[x].phase = "resolved"
  /\ LET rec == exch[x].record IN
       exch' = [exch EXCEPT ![x] =
                  IF agent[rec.org][rec.owner] = "active" /\ ActiveIn(rec.owner, rec.org)
                  THEN [exch[x] EXCEPT !.phase = "signed"] ELSE NoExchange]
  /\ appended' = {}
  /\ UNCHANGED <<access, home, dissolved, sess, sweep, agent, node, snap, pub, killed>>

-----------------------------------------------------------------------------
DevicesStep ==
  \/ \E u \in User : \/ Join(u) \/ LeaveOrganization(u) \/ RemoveMember(u)
                     \/ SuspendMember(u) \/ RestoreMember(u) \/ ChangePassword(u)
  \/ \E o \in Org : DissolveOrganization(o)
  \/ \E s \in Session, u \in User : LoginRecord(s, u)
  \/ \E s \in Session : \/ SweepSessions(s) \/ CreateSession(s) \/ Logout(s)
                        \/ ExpireSession(s) \/ ResolveSession(s)
  \/ \E p \in Snapshot : PublishCheck(p)
  \/ \E q \in Publication : PublishCommit(q)
  \/ \E p \in Snapshot, n \in Node : RegisterNode(p, n) \/ RevokeNode(p, n)
  \/ \E x \in Exchange, n \in Node : NodeByCredential(x, n)
  \/ \E x \in Exchange : ResolveNodeOwner(x) \/ SignNodeToken(x)

DevicesNext == DevicesStep /\ UNCHANGED database

DevicesSpec == DevicesInit /\ [][DevicesNext]_allVars

-----------------------------------------------------------------------------
(* Safety. *)

\* A live node row always has the membership, the agent and the session row it
\* was granted from: every transaction that takes one of them away takes the
\* node too, and the session cleanup spares the sessions of live nodes.
LiveNodesAreGrounded ==
  \A n \in LiveNodes :
    /\ home[node[n].owner] = node[n].org
    /\ agent[node[n].org][node[n].owner] = "active"
    /\ sess[node[n].parent].state \in {"live", "expired", "revoked"}
    /\ sess[node[n].parent].user = node[n].owner

\* A token is never signed for a node that was unusable when the exchange
\* began, although the exchange reads the database three times: restoring the
\* owner's access or readmitting it in between does not help.
NoTokenForUnusableNode ==
  \A x \in Exchange : exch[x].phase = "signed" => exch[x].usable

\* An active agent belongs to an active member of its organization.
AgentsBelongToMembers ==
  \A o \in Org, u \in User : agent[o][u] = "active" => home[u] = o

\* SQLite has one connection: there it always does.
SQLiteAgentsBelongToMembers == database = "sqlite" => AgentsBelongToMembers

\* A revoked node id is never live again.
RevocationIsFinal == \A n \in killed : node[n].state # "live"

-----------------------------------------------------------------------------
(* Action properties. *)

\* A registered node that has become unusable stays unusable: signing in
\* again, restored access, readmission or a republished agent never revive it.
UnusableStaysUnusable ==
  [][\A n \in Node : node[n].state = "live" /\ ~Usable(n) => ~Usable(n)']_allVars

\* The row of a revoked node, that of an id nobody had registered included, keeps
\* late registrations out as long as it is there: it goes with its session or not
\* at all (RegisterNode, the cleanup of CreateSession).
TombstonesHold ==
  [][\A n \in Node : node[n].state = "revoked" =>
       \/ node'[n] = node[n]
       \/ node'[n] = NoNode /\ sess'[node[n].parent].state = "deleted"]_allVars

\* On PostgreSQL the commit of a login takes an expired session away whose first
\* node was registered after the DELETE began (MCExpiryCutsNoDevice).
SweptAfterDelete(n) ==
  /\ database = "postgres" /\ sess[node[n].parent].state = "expired"
  /\ \E s \in Session : /\ sess[s].state = "sweep" /\ sess'[s].state = "live"
                        /\ node[n].parent \in sweep[s].doomed \ sweep[s].inUse

\* Every commit that makes a node unusable appends an event in the same
\* transaction that names the node, its session, its owner or the owner's
\* membership, so that whoever holds a token of the node can learn of it.  The one
\* exception is the cleanup of a login that overlaps with the registration.
LossIsAnnounced ==
  [][\A n \in Node : Usable(n) /\ ~Usable(n)' =>
       \/ \E e \in appended' :
            \/ e.about = "node" /\ e.node = n
            \/ e.about = "session" /\ e.session = node[n].parent
            \/ e.about \in {"user", "organization"} /\ e.user = node[n].owner
       \/ SweptAfterDelete(n)]_allVars

\* Restoring a member's access does not bring any of its sessions back.
RestoreRevivesNoSession ==
  [][\A s \in Session :
       sess[s].state = "live" /\ access[sess[s].user] = "revoked" =>
         access'[sess[s].user] = "revoked" \/ sess'[s].state # "live"]_allVars
================================================================================
