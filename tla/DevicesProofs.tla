----------------------------- MODULE DevicesProofs -----------------------------
(* Authority that hangs from a membership goes with it, for any numbers of *)
(* users, organizations, sessions, nodes and exchanges.                    *)
EXTENDS Devices, TLAPS

Rows == LiveNode \union {NoNode}

\* What a live node rests on (LiveNodesAreGrounded).  If its owner has no access its
\* session is revoked: a node is registered with access, and the suspension revokes
\* every session of its member.
Grounded(n) ==
  /\ home[node[n].owner] = node[n].org
  /\ agent[node[n].org][node[n].owner] = "active"
  /\ sess[node[n].parent].state \in {"live", "expired", "revoked"}
  /\ sess[node[n].parent].user = node[n].owner
  /\ access[node[n].owner] = "active" \/ sess[node[n].parent].state = "revoked"

\* An exchange that found an unusable node found one of a session that is revoked
\* for good, and it cannot get past ResolveNodeOwner.
Refusable(x) ==
  exch[x].phase # "idle" /\ ~exch[x].usable =>
    exch[x].phase = "found" /\ sess[exch[x].record.parent].state \in {"revoked", "deleted"}

\* On SQLite a publication holds its membership until it commits.
SQLitePublications ==
  database = "sqlite" => \A q \in pub : home[q.user] = q.org

\* What the DELETE of a login saw stays over, whoever commits before the login does;
\* on SQLite nobody does, and it stays without a live node.
SweepHolds(s) ==
  sess[s].state = "sweep" =>
    \A k \in sweep[s].doomed :
      /\ sess[k].state \in {"expired", "revoked", "deleted"}
      /\ k \notin sweep[s].inUse
      /\ database = "sqlite" => NodesOf(k) \intersect LiveNodes = {}

DevicesInvariant ==
  /\ DevicesTypeOK
  /\ \A n \in LiveNodes : Grounded(n)
  /\ \A x \in Exchange : Refusable(x)
  /\ \A s \in Session : SweepHolds(s)
  /\ SQLitePublications
  /\ SQLiteAgentsBelongToMembers

-----------------------------------------------------------------------------
(* Lemmas about the statements that several transactions share. *)

\* A row says what it is.
LEMMA RowFields ==
  ASSUME NEW r \in Rows
  PROVE  /\ r.state = "none" <=> r = NoNode
         /\ r.state # "none" => r \in LiveNode
BY DEF Rows, LiveNode, NoNode

\* RevokeNodes keeps everything of a row but its state.
LEMMA RevokedRows ==
  ASSUME DevicesTypeOK, NEW ns, ns \subseteq LiveNodes, RevokeNodes(ns)
  PROVE  /\ node' \in [Node -> Rows]
         /\ killed' \subseteq Node
         /\ \A n \in Node : \/ n \notin ns /\ node'[n] = node[n]
                            \/ n \in ns /\ node'[n] = [node[n] EXCEPT !.state = "revoked"]
         /\ LiveNodes' = LiveNodes \ ns
<1>1. \A n \in ns : n \in Node /\ node[n] \in LiveNode
  BY RowFields DEF DevicesTypeOK, LiveNodes, Rows, NoNode
<1>2. \A n \in ns : [node[n] EXCEPT !.state = "revoked"] \in LiveNode
  BY <1>1 DEF LiveNode
<1>3. \A n \in ns : [node[n] EXCEPT !.state = "revoked"].state = "revoked"
  BY <1>1 DEF LiveNode
<1>4. \A n \in Node : \/ n \notin ns /\ node'[n] = node[n]
                      \/ n \in ns /\ node'[n] = [node[n] EXCEPT !.state = "revoked"]
  BY DEF RevokeNodes
<1>5. node' \in [Node -> Rows]
  BY <1>2 DEF RevokeNodes, DevicesTypeOK, Rows
<1>6. LiveNodes' = LiveNodes \ ns
  BY <1>3, <1>4 DEF LiveNodes
<1>7. killed' \subseteq Node
  BY <1>1 DEF RevokeNodes, DevicesTypeOK
<1>. QED
  BY <1>4, <1>5, <1>6, <1>7

\* revokeMembers is well typed, and takes agents and nodes of the same members.
LEMMA RevokedMembers ==
  ASSUME DevicesTypeOK, NEW o \in Org, NEW us \in SUBSET User, revokeMembers(o, us)
  PROVE  /\ agent' \in [Org -> [User -> {"none", "active", "revoked"}]]
         /\ \A p \in Org, u \in User :
              \/ agent'[p][u] = agent[p][u]
              \/ p = o /\ u \in us /\ agent'[p][u] = "revoked"
         /\ \A u \in us : agent'[o][u] # "active"
         /\ node' \in [Node -> Rows]
         /\ \A n \in LiveNodes' : n \in LiveNodes /\ node'[n] = node[n]
         /\ \A n \in LiveNodes' : node[n].org # o \/ node[n].owner \notin us
         /\ \A n \in LiveNodes \ LiveNodes' : node[n].org = o /\ node[n].owner \in us
         /\ killed' \subseteq Node
         /\ appended' \subseteq DeviceEvent
         /\ sess' = sess /\ sweep' = sweep /\ snap' = snap /\ pub' = pub /\ exch' = exch
<1> DEFINE ns == {n \in LiveNodes : node[n].org = o /\ node[n].owner \in us}
<1>1. RevokeNodes(ns) /\ ns \subseteq LiveNodes
  BY DEF revokeMembers
<1>2. /\ node' \in [Node -> Rows]
      /\ killed' \subseteq Node
      /\ \A n \in Node : \/ n \notin ns /\ node'[n] = node[n]
                         \/ n \in ns /\ node'[n] = [node[n] EXCEPT !.state = "revoked"]
      /\ LiveNodes' = LiveNodes \ ns
  BY <1>1, RevokedRows
<1>3. LiveNodes' \subseteq Node
  BY DEF LiveNodes
<1>4. /\ agent' \in [Org -> [User -> {"none", "active", "revoked"}]]
      /\ \A p \in Org, u \in User :
           \/ agent'[p][u] = agent[p][u]
           \/ p = o /\ u \in us /\ agent'[p][u] = "revoked"
      /\ \A u \in us : agent'[o][u] # "active"
  BY DEF revokeMembers, DevicesTypeOK
<1>5. appended' \subseteq DeviceEvent
  BY DEF revokeMembers, DeviceEvent
<1>. QED
  BY <1>2, <1>3, <1>4, <1>5 DEF revokeMembers

-----------------------------------------------------------------------------
(* Type correctness. *)

\* The actions on membership are those of Directory, and nothing else changes it.
LEMMA DirectorySteps ==
  ASSUME [DevicesNext]_allVars
  PROVE  [DirectoryNext]_directoryVars
<1>1. ASSUME NEW u \in User, Join(u)
      PROVE  DirectoryNext
  BY <1>1 DEF Join, DirectoryNext
<1>2. ASSUME NEW u \in User, LeaveOrganization(u) \/ RemoveMember(u)
      PROVE  DirectoryNext
  BY <1>2 DEF LeaveOrganization, RemoveMember, DirectoryNext
<1>3. ASSUME NEW u \in User, SuspendMember(u) \/ RestoreMember(u)
      PROVE  [DirectoryNext]_directoryVars
  BY <1>3 DEF SuspendMember, RestoreMember, DirectoryNext
<1>4. ASSUME NEW o \in Org, DissolveOrganization(o)
      PROVE  DirectoryNext
  BY <1>4 DEF DissolveOrganization, DirectoryNext
<1>5. CASE UNCHANGED allVars
  BY <1>5 DEF allVars, directoryVars
<1>. QED
  BY <1>1, <1>2, <1>3, <1>4, <1>5
     DEF DevicesNext, DevicesStep, directoryVars, ChangePassword, LoginRecord, SweepSessions,
         CreateSession, Logout, ExpireSession, ResolveSession, PublishCheck, PublishCommit, RegisterNode,
         RevokeNode, NodeByCredential, ResolveNodeOwner, SignNodeToken

\* The steps of Directory keep its types.
LEMMA DirectoryTypes ==
  ASSUME DirectoryTypeOK, [DirectoryNext]_directoryVars
  PROVE  DirectoryTypeOK'
BY DEF DirectoryTypeOK, DirectoryNext, directoryVars, Enroll, Remove, Suspend, Restore,
       Admit, Dissolve

\* Every action keeps the types (the CHECK constraints of the three tables).
LEMMA TypeStep ==
  ASSUME DevicesTypeOK, [DevicesNext]_allVars
  PROVE  DevicesTypeOK'
<1>. USE DEF DevicesTypeOK, Rows
<1>t. DirectoryTypeOK'
  BY DirectorySteps, DirectoryTypes
<1>1. ASSUME NEW u \in User, Join(u), UNCHANGED database
      PROVE  DevicesTypeOK'
  BY <1>1, <1>t DEF Join, deviceVars
<1>2. ASSUME NEW u \in User, LeaveOrganization(u), UNCHANGED database
      PROVE  DevicesTypeOK'
  <2>1. home[u] \in Org /\ {u} \in SUBSET User
    BY <1>2 DEF LeaveOrganization, Remove, DirectoryTypeOK
  <2>. QED
    BY <1>2, <1>t, <2>1, RevokedMembers DEF LeaveOrganization
<1>3. ASSUME NEW u \in User, RemoveMember(u), UNCHANGED database
      PROVE  DevicesTypeOK'
  <2>1. home[u] \in Org /\ {u} \in SUBSET User
    BY <1>3 DEF RemoveMember, Remove, DirectoryTypeOK
  <2>. QED
    BY <1>3, <1>t, <2>1, RevokedMembers DEF RemoveMember
<1>4. ASSUME NEW o \in Org, DissolveOrganization(o), UNCHANGED database
      PROVE  DevicesTypeOK'
  <2>1. Members(o) \in SUBSET User
    BY DEF Members
  <2>. QED
    BY <1>4, <1>t, <2>1, RevokedMembers DEF DissolveOrganization
<1>5. ASSUME NEW u \in User, SuspendMember(u), UNCHANGED database
      PROVE  DevicesTypeOK'
  BY <1>5, <1>t DEF SuspendMember, SessionRow, DeviceEvent
<1>6. ASSUME NEW u \in User, RestoreMember(u), UNCHANGED database
      PROVE  DevicesTypeOK'
  BY <1>6, <1>t DEF RestoreMember, deviceVars, DeviceEvent
<1>7. ASSUME NEW u \in User, ChangePassword(u), UNCHANGED database
      PROVE  DevicesTypeOK'
  <2> DEFINE ns == {n \in LiveNodes : node[n].owner = u}
  <2>1. node' \in [Node -> Rows] /\ killed' \subseteq Node
    BY <1>7, RevokedRows DEF ChangePassword
  <2>2. appended' \subseteq DeviceEvent
    BY <1>7 DEF ChangePassword, DeviceEvent, LiveNodes
  <2>. QED
    BY <1>7, <1>t, <2>1, <2>2 DEF ChangePassword
<1>8. ASSUME NEW s \in Session, NEW u \in User, LoginRecord(s, u), UNCHANGED database
      PROVE  DevicesTypeOK'
  BY <1>8, <1>t DEF LoginRecord, SessionRow
<1>9. ASSUME NEW s \in Session, SweepSessions(s) \/ CreateSession(s), UNCHANGED database
      PROVE  DevicesTypeOK'
  <2>1. sess' \in [Session -> SessionRow]
    BY <1>9 DEF SweepSessions, CreateSession, SessionRow
  <2>2. sweep' \in [Session -> Sweep]
    BY <1>9 DEF SweepSessions, CreateSession, Sweep, NoSweep
  <2>. QED
    BY <1>9, <1>t, <2>1, <2>2 DEF SweepSessions, CreateSession
<1>10. ASSUME NEW s \in Session, Logout(s) \/ ExpireSession(s), UNCHANGED database
       PROVE  DevicesTypeOK'
  BY <1>10, <1>t DEF Logout, ExpireSession, SessionRow, DeviceEvent
<1>11. ASSUME NEW s \in Session, ResolveSession(s), UNCHANGED database
       PROVE  DevicesTypeOK'
  BY <1>11, <1>t DEF ResolveSession, Snapshot
<1>12. ASSUME NEW p \in Snapshot, PublishCheck(p), UNCHANGED database
       PROVE  DevicesTypeOK'
  BY <1>12, <1>t DEF PublishCheck, Snapshot, Publication, SessionRow
<1>13. ASSUME NEW q \in Publication, PublishCommit(q), UNCHANGED database
       PROVE  DevicesTypeOK'
  BY <1>13, <1>t DEF PublishCommit, Publication
<1>14. ASSUME NEW p \in Snapshot, NEW n \in Node, RegisterNode(p, n), UNCHANGED database
       PROVE  DevicesTypeOK'
  BY <1>14, <1>t DEF RegisterNode, Snapshot, SessionRow, LiveNode
<1>15. ASSUME NEW p \in Snapshot, NEW n \in Node, RevokeNode(p, n), UNCHANGED database
       PROVE  DevicesTypeOK'
  <2>1. CASE RevokeNodes({n}) /\ node[n].state = "live"
    <3>1. {n} \subseteq LiveNodes
      BY <2>1 DEF LiveNodes
    <3>2. node' \in [Node -> Rows] /\ killed' \subseteq Node
      BY <2>1, <3>1, RevokedRows
    <3>3. appended' \subseteq DeviceEvent
      BY <1>15 DEF RevokeNode, DeviceEvent
    <3>. QED
      BY <1>15, <1>t, <3>2, <3>3 DEF RevokeNode
  <2>2. CASE ~(RevokeNodes({n}) /\ node[n].state = "live")
    BY <1>15, <1>t, <2>2 DEF RevokeNode, Snapshot, SessionRow, LiveNode
  <2>. QED
    BY <2>1, <2>2
<1>16. ASSUME NEW x \in Exchange, NEW n \in Node, NodeByCredential(x, n), UNCHANGED database
       PROVE  DevicesTypeOK'
  <2>1. node[n] \in LiveNode
    BY <1>16, RowFields DEF NodeByCredential, NoNode
  <2>2. Usable(n) \in BOOLEAN
    BY DEF Usable, NodeOwnerResolves
  <2>. QED
    BY <1>16, <1>t, <2>1, <2>2 DEF NodeByCredential, ExchangeState
<1>17. ASSUME NEW x \in Exchange, ResolveNodeOwner(x) \/ SignNodeToken(x), UNCHANGED database
       PROVE  DevicesTypeOK'
  BY <1>17, <1>t DEF ResolveNodeOwner, SignNodeToken, ExchangeState, NoExchange
<1>18. CASE UNCHANGED allVars
  BY <1>18, <1>t DEF allVars
<1>. QED
  BY <1>1, <1>2, <1>3, <1>4, <1>5, <1>6, <1>7, <1>8, <1>9, <1>10, <1>11, <1>12, <1>13,
     <1>14, <1>15, <1>16, <1>17, <1>18 DEF DevicesNext, DevicesStep

-----------------------------------------------------------------------------
(* Live nodes. *)

\* An expired session stays over, a revoked one is not used again, a deleted one does
\* not come back.
LEMMA SessionsStayOver ==
  ASSUME DevicesTypeOK, [DevicesNext]_allVars, NEW s \in Session,
         sess[s].state \in {"expired", "revoked", "deleted"}
  PROVE  /\ sess'[s].state \in {"expired", "revoked", "deleted"}
         /\ sess[s].state # "expired" => sess'[s].state # "expired"
<1>. USE DEF DevicesTypeOK, SessionRow
<1>1. ASSUME NEW o \in Org, NEW us, revokeMembers(o, us)
      PROVE  sess' = sess
  BY <1>1 DEF revokeMembers
<1>2. ASSUME NEW u \in User,
             Join(u) \/ LeaveOrganization(u) \/ RemoveMember(u) \/ RestoreMember(u) \/ ChangePassword(u)
      PROVE  sess' = sess
  BY <1>2 DEF Join, LeaveOrganization, RemoveMember, RestoreMember, ChangePassword,
              deviceVars, revokeMembers
<1>3. ASSUME NEW u \in User, SuspendMember(u)
      PROVE  sess'[s] = sess[s] \/ sess'[s].state = "revoked"
  BY <1>3 DEF SuspendMember, Unrevoked
<1>4. ASSUME NEW o \in Org, DissolveOrganization(o)
      PROVE  sess' = sess
  BY <1>4 DEF DissolveOrganization, revokeMembers
<1>5. ASSUME NEW k \in Session, NEW u \in User, LoginRecord(k, u)
      PROVE  sess'[s] = sess[s]
  BY <1>5 DEF LoginRecord
<1>6. ASSUME NEW k \in Session,
             SweepSessions(k) \/ CreateSession(k) \/ Logout(k) \/ ExpireSession(k)
      PROVE  sess'[s] = sess[s] \/ sess'[s].state \in {"revoked", "deleted"}
  BY <1>6 DEF SweepSessions, CreateSession, Logout, ExpireSession
<1>7. ASSUME NEW k \in Session, ResolveSession(k)
      PROVE  sess' = sess
  BY <1>7 DEF ResolveSession
<1>8. ASSUME NEW p \in Snapshot, NEW n \in Node, RegisterNode(p, n) \/ RevokeNode(p, n) \/ PublishCheck(p)
      PROVE  sess' = sess
  BY <1>8 DEF RegisterNode, RevokeNode, PublishCheck
<1>9. ASSUME NEW x \in Exchange, NEW n \in Node,
             NodeByCredential(x, n) \/ ResolveNodeOwner(x) \/ SignNodeToken(x)
      PROVE  sess' = sess
  BY <1>9 DEF NodeByCredential, ResolveNodeOwner, SignNodeToken
<1>. QED
  BY <1>2, <1>3, <1>4, <1>5, <1>6, <1>7, <1>8, <1>9
     DEF DevicesNext, DevicesStep, allVars, PublishCheck, PublishCommit, ResolveNodeOwner, SignNodeToken

\* A live node is a row of which every part has its type.
LEMMA LiveRows ==
  ASSUME DevicesTypeOK, NEW n \in LiveNodes
  PROVE  /\ n \in Node /\ node[n] \in LiveNode
         /\ node[n].org \in Org /\ node[n].owner \in User /\ node[n].parent \in Session
BY RowFields DEF DevicesTypeOK, LiveNodes, Rows, NoNode, LiveNode

\* Members who leave, are removed or dissolved take their nodes along.
LEMMA LeaversTakeNodes ==
  ASSUME DevicesTypeOK, \A n \in LiveNodes : Grounded(n),
         NEW o \in Org, NEW us \in SUBSET User, revokeMembers(o, us),
         UNCHANGED access, \A u \in User \ us : home'[u] = home[u],
         \A u \in us : home[u] = o
  PROVE  \A n \in LiveNodes' : Grounded(n)'
<1>1. SUFFICES ASSUME NEW n \in LiveNodes'
               PROVE  Grounded(n)'
  OBVIOUS
<1>2. n \in LiveNodes /\ node'[n] = node[n]
  BY RevokedMembers
<1>3. Grounded(n) /\ node[n].org \in Org /\ node[n].owner \in User
  BY <1>2, LiveRows
<1>4. node[n].owner \notin us
  BY <1>2, <1>3, RevokedMembers DEF Grounded
<1>5. agent'[node[n].org][node[n].owner] = agent[node[n].org][node[n].owner]
  BY <1>3, <1>4, RevokedMembers
<1>. QED
  BY <1>2, <1>3, <1>4, <1>5, RevokedMembers DEF Grounded

\* No step takes something from under a live node (LiveNodesAreGrounded).
LEMMA GroundedStep ==
  ASSUME DevicesTypeOK, \A n \in LiveNodes : Grounded(n), [DevicesNext]_allVars
  PROVE  \A n \in LiveNodes' : Grounded(n)'
<1>. USE DEF Grounded
<1>1. ASSUME NEW u \in User, Join(u)
      PROVE  \A n \in LiveNodes' : Grounded(n)'
  <2>1. \A n \in LiveNodes : node[n].org # NoOrg
    BY LiveRows, DeviceNoOrgAssumption
  <2>2. LiveNodes' = LiveNodes
    BY <1>1 DEF Join, deviceVars, LiveNodes
  <2>. QED
    BY <1>1, <2>1, <2>2, LiveRows
       DEF Join, deviceVars, Enroll, Admit, DevicesTypeOK, DirectoryTypeOK
<1>2. ASSUME NEW u \in User, LeaveOrganization(u)
      PROVE  \A n \in LiveNodes' : Grounded(n)'
  <2>1. home[u] \in Org /\ {u} \in SUBSET User
    BY <1>2 DEF LeaveOrganization, Remove, DevicesTypeOK, DirectoryTypeOK
  <2>2. UNCHANGED access /\ \A v \in User \ {u} : home'[v] = home[v]
    BY <1>2 DEF LeaveOrganization, Remove, DevicesTypeOK, DirectoryTypeOK
  <2>. QED
    BY <1>2, <2>1, <2>2, LeaversTakeNodes DEF LeaveOrganization
<1>3. ASSUME NEW u \in User, RemoveMember(u)
      PROVE  \A n \in LiveNodes' : Grounded(n)'
  <2>1. home[u] \in Org /\ {u} \in SUBSET User
    BY <1>3 DEF RemoveMember, Remove, DevicesTypeOK, DirectoryTypeOK
  <2>2. UNCHANGED access /\ \A v \in User \ {u} : home'[v] = home[v]
    BY <1>3 DEF RemoveMember, Remove, DevicesTypeOK, DirectoryTypeOK
  <2>. QED
    BY <1>3, <2>1, <2>2, LeaversTakeNodes DEF RemoveMember
<1>4. ASSUME NEW o \in Org, DissolveOrganization(o)
      PROVE  \A n \in LiveNodes' : Grounded(n)'
  <2>1. Members(o) \in SUBSET User
    BY DEF Members
  <2>2. UNCHANGED access /\ \A v \in User \ Members(o) : home'[v] = home[v]
    BY <1>4 DEF DissolveOrganization, Dissolve, Members
  <2>3. \A v \in Members(o) : home[v] = o
    BY DEF Members
  <2>. QED
    BY <1>4, <2>1, <2>2, <2>3, LeaversTakeNodes DEF DissolveOrganization
<1>5. ASSUME NEW u \in User, SuspendMember(u)
      PROVE  \A n \in LiveNodes' : Grounded(n)'
  <2>1. UNCHANGED <<home, agent, node>> /\ LiveNodes' = LiveNodes
    BY <1>5 DEF SuspendMember, Suspend, directoryVars, LiveNodes
  <2>2. \A v \in User \ {u} : access'[v] = access[v]
    BY <1>5 DEF SuspendMember, Suspend, directoryVars, DevicesTypeOK, DirectoryTypeOK
  <2>3. \A s \in Session :
          IF sess[s].user = u /\ Unrevoked(s)
          THEN sess'[s].user = u /\ sess'[s].state = "revoked" ELSE sess'[s] = sess[s]
    BY <1>5 DEF SuspendMember, DevicesTypeOK, SessionRow
  <2>. QED
    BY <2>1, <2>2, <2>3, LiveRows DEF Unrevoked
<1>6. ASSUME NEW u \in User, RestoreMember(u)
      PROVE  \A n \in LiveNodes' : Grounded(n)'
  <2>1. UNCHANGED <<home, agent, node, sess>> /\ LiveNodes' = LiveNodes
    BY <1>6 DEF RestoreMember, Restore, deviceVars, LiveNodes
  <2>2. \A v \in User : access[v] = "active" => access'[v] = "active"
    BY <1>6 DEF RestoreMember, Restore, DevicesTypeOK, DirectoryTypeOK
  <2>. QED
    BY <2>1, <2>2, LiveRows
<1>7. ASSUME NEW u \in User, ChangePassword(u)
      PROVE  \A n \in LiveNodes' : Grounded(n)'
  <2> DEFINE ns == {n \in LiveNodes : node[n].owner = u}
  <2>1. \A n \in LiveNodes' : n \in LiveNodes /\ node'[n] = node[n]
    BY <1>7, RevokedRows DEF ChangePassword, LiveNodes
  <2>. QED
    BY <1>7, <2>1, LiveRows DEF ChangePassword
<1>8. ASSUME NEW s \in Session, NEW u \in User, LoginRecord(s, u)
      PROVE  \A n \in LiveNodes' : Grounded(n)'
  <2>1. LiveNodes' = LiveNodes
    BY <1>8 DEF LoginRecord, LiveNodes
  <2>2. \A n \in LiveNodes : sess'[node[n].parent] = sess[node[n].parent]
    BY <1>8, LiveRows DEF LoginRecord, DevicesTypeOK
  <2>. QED
    BY <1>8, <2>1, <2>2, LiveRows DEF LoginRecord
<1>9. ASSUME NEW s \in Session, CreateSession(s)
      PROVE  \A n \in LiveNodes' : Grounded(n)'
  <2>1. SUFFICES ASSUME NEW n \in LiveNodes'
                 PROVE  Grounded(n)'
    OBVIOUS
  <2>2. /\ n \in LiveNodes /\ node'[n] = node[n]
        /\ \A k \in sweep[s].doomed : n \notin NodesOf(k)
    BY <1>9 DEF CreateSession, LiveNodes, NoNode
  <2>3. node[n].parent \in Session /\ node[n].parent \notin sweep[s].doomed
    BY <2>2, LiveRows DEF NodesOf, LiveNodes
  <2>4. node[n].parent # s
    BY <1>9, <2>2 DEF CreateSession
  <2>5. sess'[node[n].parent] = sess[node[n].parent]
    BY <1>9, <2>3, <2>4 DEF CreateSession
  <2>. QED
    BY <1>9, <2>2, <2>5, LiveRows DEF CreateSession
<1>15. ASSUME NEW s \in Session, SweepSessions(s)
       PROVE  \A n \in LiveNodes' : Grounded(n)'
  <2>1. LiveNodes' = LiveNodes
    BY <1>15 DEF SweepSessions, LiveNodes
  <2>2. \A n \in LiveNodes : sess'[node[n].parent] = sess[node[n].parent]
    BY <1>15, LiveRows DEF SweepSessions, DevicesTypeOK
  <2>. QED
    BY <1>15, <2>1, <2>2, LiveRows DEF SweepSessions
<1>10. ASSUME NEW s \in Session, Logout(s) \/ ExpireSession(s)
       PROVE  \A n \in LiveNodes' : Grounded(n)'
  <2>1. LiveNodes' = LiveNodes
    BY <1>10 DEF Logout, ExpireSession, LiveNodes
  <2>2. \A k \in Session : \/ sess'[k] = sess[k]
                           \/ /\ sess'[k].user = sess[k].user
                              /\ \/ sess'[k].state = "revoked"
                                 \/ sess[k].state = "live" /\ sess'[k].state = "expired"
    BY <1>10 DEF Logout, ExpireSession, DevicesTypeOK, SessionRow
  <2>. QED
    BY <1>10, <2>1, <2>2, LiveRows DEF Logout, ExpireSession
<1>11. CASE UNCHANGED <<access, home, agent, node, sess>>
  BY <1>11 DEF LiveNodes
<1>12. ASSUME NEW q \in Publication, PublishCommit(q)
       PROVE  \A n \in LiveNodes' : Grounded(n)'
  <2>1. \A o \in Org, u \in User : agent[o][u] = "active" => agent'[o][u] = "active"
    BY <1>12 DEF PublishCommit, Publication, DevicesTypeOK
  <2>. QED
    BY <1>12, <2>1, LiveRows DEF PublishCommit, LiveNodes
<1>13. ASSUME NEW p \in Snapshot, NEW n \in Node, RegisterNode(p, n)
       PROVE  \A m \in LiveNodes' : Grounded(m)'
  <2>1. Grounded(n)'
    BY <1>13 DEF RegisterNode, ActiveIn, Unrevoked, DevicesTypeOK
  <2>2. \A m \in LiveNodes' : m = n \/ (m \in LiveNodes /\ node'[m] = node[m])
    BY <1>13 DEF RegisterNode, LiveNodes, DevicesTypeOK
  <2>. QED
    BY <1>13, <2>1, <2>2, LiveRows DEF RegisterNode
<1>14. ASSUME NEW p \in Snapshot, NEW n \in Node, RevokeNode(p, n)
       PROVE  \A m \in LiveNodes' : Grounded(m)'
  <2>1. \A m \in LiveNodes' : m \in LiveNodes /\ node'[m] = node[m]
    <3>1. CASE RevokeNodes({n}) /\ node[n].state = "live"
      BY <3>1, RevokedRows DEF LiveNodes
    <3>2. CASE ~(RevokeNodes({n}) /\ node[n].state = "live")
      BY <1>14, <3>2 DEF RevokeNode, LiveNodes, DevicesTypeOK
    <3>. QED
      BY <3>1, <3>2
  <2>. QED
    BY <1>14, <2>1, LiveRows DEF RevokeNode
<1>. QED
  BY <1>1, <1>2, <1>3, <1>4, <1>5, <1>6, <1>7, <1>8, <1>9, <1>10, <1>11, <1>12, <1>13, <1>14,
     <1>15
     DEF DevicesNext, DevicesStep, allVars, ResolveSession, PublishCheck, NodeByCredential,
         ResolveNodeOwner, SignNodeToken

-----------------------------------------------------------------------------
(* Exchanges and publications. *)

\* What an exchange holds names a session.
LEMMA ExchangeFields ==
  ASSUME DevicesTypeOK, NEW x \in Exchange, exch[x].phase # "idle"
  PROVE  /\ exch[x] \in [phase : {"found", "resolved", "signed"}, id : Node,
                         record : LiveNode, usable : BOOLEAN]
         /\ exch[x].record \in LiveNode /\ exch[x].record.parent \in Session
BY DEF DevicesTypeOK, ExchangeState, NoExchange, LiveNode

\* A node that is live and not usable hangs from a revoked session.
LEMMA UnusableIsRevoked ==
  ASSUME DevicesTypeOK, \A n \in LiveNodes : Grounded(n), NEW n \in LiveNodes, ~Usable(n)
  PROVE  sess[node[n].parent].state = "revoked"
BY LiveRows DEF Grounded, Usable, NodeOwnerResolves, Unrevoked, LiveNodes

\* ResolveNodeOwner refuses what was found unusable, whatever has happened since.
LEMMA ExchangeStep ==
  ASSUME DevicesTypeOK, \A n \in LiveNodes : Grounded(n), [DevicesNext]_allVars,
         \A x \in Exchange : Refusable(x)
  PROVE  \A x \in Exchange : Refusable(x)'
<1>. USE DEF Refusable
<1>1. CASE exch' = exch
  BY <1>1, ExchangeFields, SessionsStayOver
<1>2. ASSUME NEW y \in Exchange, NEW n \in Node, NodeByCredential(y, n)
      PROVE  \A x \in Exchange : Refusable(x)'
  <2>1. n \in LiveNodes /\ UNCHANGED sess
    BY <1>2 DEF NodeByCredential, LiveNodes
  <2>2. exch'[y] = [phase |-> "found", id |-> n, record |-> node[n], usable |-> Usable(n)]
    BY <1>2 DEF NodeByCredential, DevicesTypeOK
  <2>3. \A x \in Exchange \ {y} : exch'[x] = exch[x]
    BY <1>2 DEF NodeByCredential, DevicesTypeOK
  <2>4. Refusable(y)'
    BY <2>1, <2>2, UnusableIsRevoked
  <2>. QED
    BY <2>1, <2>3, <2>4
<1>3. ASSUME NEW y \in Exchange, ResolveNodeOwner(y)
      PROVE  \A x \in Exchange : Refusable(x)'
  <2>1. exch[y].phase = "found" /\ UNCHANGED sess
    BY <1>3 DEF ResolveNodeOwner
  <2>2. \A x \in Exchange \ {y} : exch'[x] = exch[x]
    BY <1>3 DEF ResolveNodeOwner, DevicesTypeOK
  <2>3. CASE exch[y].usable
    <3>1. exch'[y].phase = "idle" \/ exch'[y].usable
      BY <1>3, <2>1, <2>3, ExchangeFields DEF ResolveNodeOwner, DevicesTypeOK, NoExchange
    <3>. QED
      BY <2>1, <2>2, <3>1
  <2>4. CASE ~exch[y].usable
    <3>1. ~NodeOwnerResolves(exch[y].id, exch[y].record)
      BY <2>1, <2>4 DEF NodeOwnerResolves, Unrevoked
    <3>2. exch'[y].phase = "idle"
      BY <1>3, <3>1 DEF ResolveNodeOwner, DevicesTypeOK, NoExchange
    <3>. QED
      BY <2>1, <2>2, <3>2
  <2>. QED
    BY <2>3, <2>4
<1>4. ASSUME NEW y \in Exchange, SignNodeToken(y)
      PROVE  \A x \in Exchange : Refusable(x)'
  <2>1. exch[y].usable /\ exch[y].phase = "resolved" /\ UNCHANGED sess
    BY <1>4 DEF SignNodeToken
  <2>2. \A x \in Exchange \ {y} : exch'[x] = exch[x]
    BY <1>4 DEF SignNodeToken, DevicesTypeOK
  <2>3. exch'[y].phase = "idle" \/ exch'[y].usable
    BY <1>4, <2>1, ExchangeFields DEF SignNodeToken, DevicesTypeOK, NoExchange
  <2>. QED
    BY <2>1, <2>2, <2>3
<1>5. DevicesStep /\ exch' # exch =>
        \E x \in Exchange : \/ \E n \in Node : NodeByCredential(x, n)
                            \/ ResolveNodeOwner(x) \/ SignNodeToken(x)
  BY DEF DevicesStep, Join, deviceVars, LeaveOrganization, RemoveMember, SuspendMember,
         RestoreMember, ChangePassword, DissolveOrganization, revokeMembers, LoginRecord,
         SweepSessions, CreateSession, Logout, ExpireSession, ResolveSession, PublishCheck, PublishCommit,
         RegisterNode, RevokeNode
<1>. QED
  BY <1>1, <1>2, <1>3, <1>4, <1>5 DEF DevicesNext, allVars

\* A login in progress has begun with its sweep, which is kept until it commits.
LEMMA SweepBegins ==
  ASSUME DevicesTypeOK, [DevicesNext]_allVars, NEW s \in Session, sess'[s].state = "sweep",
         ~SweepSessions(s)
  PROVE  sess[s].state = "sweep" /\ sweep'[s] = sweep[s]
<1>. USE DEF DevicesTypeOK, SessionRow
<1>1. ASSUME NEW u \in User,
             Join(u) \/ LeaveOrganization(u) \/ RemoveMember(u) \/ RestoreMember(u) \/ ChangePassword(u)
      PROVE  UNCHANGED <<sess, sweep>>
  BY <1>1 DEF Join, LeaveOrganization, RemoveMember, RestoreMember, ChangePassword,
              deviceVars, revokeMembers
<1>2. ASSUME NEW u \in User, SuspendMember(u)
      PROVE  sess'[s] = sess[s] /\ sweep' = sweep
  BY <1>2 DEF SuspendMember
<1>3. ASSUME NEW o \in Org, DissolveOrganization(o)
      PROVE  UNCHANGED <<sess, sweep>>
  BY <1>3 DEF DissolveOrganization, revokeMembers
<1>4. ASSUME NEW k \in Session, NEW u \in User, LoginRecord(k, u)
      PROVE  sess'[s] = sess[s] /\ sweep' = sweep
  BY <1>4 DEF LoginRecord
<1>5. ASSUME NEW k \in Session, SweepSessions(k)
      PROVE  sess'[s] = sess[s] /\ sweep'[s] = sweep[s]
  BY <1>5 DEF SweepSessions
<1>6. ASSUME NEW k \in Session, CreateSession(k)
      PROVE  sess'[s] = sess[s] /\ sweep'[s] = sweep[s]
  BY <1>6 DEF CreateSession
<1>7. ASSUME NEW k \in Session, Logout(k) \/ ExpireSession(k)
      PROVE  sess'[s] = sess[s] /\ sweep' = sweep
  BY <1>7 DEF Logout, ExpireSession
<1>8. ASSUME NEW k \in Session, ResolveSession(k)
      PROVE  UNCHANGED <<sess, sweep>>
  BY <1>8 DEF ResolveSession
<1>9. ASSUME NEW p \in Snapshot, NEW n \in Node, RegisterNode(p, n) \/ RevokeNode(p, n)
      PROVE  UNCHANGED <<sess, sweep>>
  BY <1>9 DEF RegisterNode, RevokeNode
<1>10. ASSUME NEW x \in Exchange, NEW n \in Node, NodeByCredential(x, n)
       PROVE  UNCHANGED <<sess, sweep>>
  BY <1>10 DEF NodeByCredential
<1>11. CASE UNCHANGED <<sess, sweep>>
  BY <1>11
<1>. QED
  BY <1>1, <1>2, <1>3, <1>4, <1>5, <1>6, <1>7, <1>8, <1>9, <1>10, <1>11
     DEF DevicesNext, DevicesStep, allVars, PublishCheck, PublishCommit, ResolveNodeOwner, SignNodeToken

\* What a login in progress has seen is over, and stays over.
LEMMA SweepStep ==
  ASSUME DevicesTypeOK, [DevicesNext]_allVars, \A s \in Session : SweepHolds(s)
  PROVE  \A s \in Session : SweepHolds(s)'
<1>1. SUFFICES ASSUME NEW s \in Session, sess'[s].state = "sweep", NEW k \in sweep'[s].doomed
               PROVE  /\ sess'[k].state \in {"expired", "revoked", "deleted"}
                      /\ k \notin sweep'[s].inUse
                      /\ database' = "sqlite" => (NodesOf(k) \intersect LiveNodes)' = {}
  BY DEF SweepHolds
<1>2. CASE SweepSessions(s)
  <2>1. /\ k \in Session \ sweep'[s].inUse /\ k # s
        /\ sess[k].state \in {"expired", "revoked"}
        /\ NodesOf(k) \intersect LiveNodes = {}
    BY <1>2 DEF SweepSessions, DevicesTypeOK
  <2>2. sess'[k] = sess[k]
    BY <1>2, <2>1 DEF SweepSessions, DevicesTypeOK
  <2>3. (NodesOf(k) \intersect LiveNodes)' = NodesOf(k) \intersect LiveNodes
    BY <1>2 DEF SweepSessions, NodesOf, LiveNodes
  <2>. QED
    BY <2>1, <2>2, <2>3
<1>3. CASE ~SweepSessions(s)
  <2>1. sess[s].state = "sweep" /\ sweep'[s] = sweep[s]
    BY <1>1, <1>3, SweepBegins
  <2>2. k \in Session /\ k \in sweep[s].doomed
    BY <1>1, <2>1 DEF DevicesTypeOK, Sweep
  <2>3. /\ sess[k].state \in {"expired", "revoked", "deleted"}
        /\ k \notin sweep[s].inUse
        /\ database = "sqlite" => NodesOf(k) \intersect LiveNodes = {}
    BY <2>1, <2>2 DEF SweepHolds
  <2>4. sess'[k].state \in {"expired", "revoked", "deleted"}
    BY <2>2, <2>3, SessionsStayOver
  <2>5. ASSUME database = "sqlite"
        PROVE  (NodesOf(k) \intersect LiveNodes)' = {}
    <3>1. ~NoTransaction /\ ~DeploymentUnlocked
      BY <2>1, <2>5 DEF NoTransaction, DeploymentUnlocked
    <3>2. \/ \E t \in Session : CreateSession(t)
          \/ UNCHANGED node
      BY <3>1 DEF DevicesNext, DevicesStep, allVars, Join, LeaveOrganization, RemoveMember,
         SuspendMember, RestoreMember, ChangePassword, DissolveOrganization, LoginRecord,
         SweepSessions, Logout, ExpireSession, ResolveSession, PublishCheck, PublishCommit,
         RegisterNode, RevokeNode, NodeByCredential, ResolveNodeOwner, SignNodeToken
    <3>3. \A n \in Node : node'[n] = node[n] \/ node'[n] = NoNode
      BY <3>2 DEF CreateSession
    <3>. QED
      BY <2>3, <2>5, <3>3 DEF NodesOf, LiveNodes, NoNode
  <2>6. database' = database
    BY DEF DevicesNext, allVars
  <2>. QED
    BY <2>1, <2>3, <2>4, <2>5, <2>6
<1>. QED
  BY <1>2, <1>3

\* SQLite has one connection: what a publication has checked holds until it commits.
LEMMA SQLiteStep ==
  ASSUME DevicesTypeOK, SQLitePublications, SQLiteAgentsBelongToMembers,
         [DevicesNext]_allVars
  PROVE  SQLitePublications' /\ SQLiteAgentsBelongToMembers'
<1>. USE DEF SQLitePublications, SQLiteAgentsBelongToMembers, AgentsBelongToMembers
<1>. SUFFICES ASSUME database = "sqlite", database' = "sqlite"
              PROVE  SQLitePublications' /\ SQLiteAgentsBelongToMembers'
  BY DEF DevicesNext, allVars
<1>a. /\ \A q \in pub : home[q.user] = q.org
      /\ \A o \in Org, u \in User : agent[o][u] = "active" => home[u] = o
  OBVIOUS
<1>1. ASSUME NEW u \in User, Join(u)
      PROVE  SQLitePublications' /\ SQLiteAgentsBelongToMembers'
  <2>1. pub = {} /\ UNCHANGED <<pub, agent>>
    BY <1>1 DEF Join, NoTransaction, deviceVars
  <2>2. \A v \in User : home[v] \in Org => home'[v] = home[v]
    BY <1>1, DeviceNoOrgAssumption DEF Join, Enroll, Admit, DevicesTypeOK, DirectoryTypeOK
  <2>. QED
    BY <1>a, <2>1, <2>2
<1>2. ASSUME NEW o \in Org, NEW us \in SUBSET User, revokeMembers(o, us), pub = {},
             \A u \in User \ us : home'[u] = home[u], \A u \in us : home[u] = o
      PROVE  SQLitePublications' /\ SQLiteAgentsBelongToMembers'
  BY <1>a, <1>2, RevokedMembers
<1>3. ASSUME NEW u \in User, LeaveOrganization(u) \/ RemoveMember(u)
      PROVE  SQLitePublications' /\ SQLiteAgentsBelongToMembers'
  <2>1. home[u] \in Org /\ \A v \in User \ {u} : home'[v] = home[v]
    BY <1>3 DEF LeaveOrganization, RemoveMember, Remove, DevicesTypeOK, DirectoryTypeOK
  <2>2. pub = {} /\ revokeMembers(home[u], {u})
    BY <1>3 DEF LeaveOrganization, RemoveMember, NoTransaction, DeploymentUnlocked
  <2>. QED
    BY <1>2, <2>1, <2>2
<1>4. ASSUME NEW o \in Org, DissolveOrganization(o)
      PROVE  SQLitePublications' /\ SQLiteAgentsBelongToMembers'
  <2>1. \A v \in User \ Members(o) : home'[v] = home[v]
    BY <1>4 DEF DissolveOrganization, Dissolve, Members
  <2>2. pub = {} /\ revokeMembers(o, Members(o))
    BY <1>4 DEF DissolveOrganization, NoTransaction
  <2>. QED
    BY <1>2, <2>1, <2>2 DEF Members
<1>5. ASSUME NEW p \in Snapshot, PublishCheck(p)
      PROVE  SQLitePublications' /\ SQLiteAgentsBelongToMembers'
  BY <1>a, <1>5 DEF PublishCheck, ActiveIn
<1>6. ASSUME NEW q \in Publication, PublishCommit(q)
      PROVE  SQLitePublications' /\ SQLiteAgentsBelongToMembers'
  BY <1>a, <1>6 DEF PublishCommit, Publication, DevicesTypeOK
<1>7. CASE UNCHANGED <<home, agent, pub>>
  BY <1>a, <1>7
<1>. QED
  BY <1>1, <1>3, <1>4, <1>5, <1>6, <1>7
     DEF DevicesNext, DevicesStep, allVars, SuspendMember, Suspend, directoryVars, RestoreMember,
         Restore, deviceVars, ChangePassword, LoginRecord, SweepSessions, CreateSession, Logout,
         ExpireSession,
         ResolveSession, RegisterNode, RevokeNode, NodeByCredential, ResolveNodeOwner,
         SignNodeToken

-----------------------------------------------------------------------------
(* Rows and steps. *)

\* Registrations and revocations find a node id free or leave its row; only the
\* cleanup removes rows.
LEMMA RowSteps ==
  ASSUME DevicesTypeOK, [DevicesNext]_allVars, NEW n \in Node, node[n] # NoNode
  PROVE  \/ node'[n] = node[n]
         \/ n \in LiveNodes /\ node'[n].state = "revoked"
         \/ \E s \in Session : CreateSession(s)
<1>. USE DEF LiveNodes
<1>1. ASSUME NEW ns, ns \subseteq LiveNodes, RevokeNodes(ns)
      PROVE  \/ node'[n] = node[n]
             \/ n \in LiveNodes /\ node'[n].state = "revoked"
  <2>1. n \in LiveNodes => node[n] \in LiveNode
    BY LiveRows
  <2>2. n \in LiveNodes => [node[n] EXCEPT !.state = "revoked"].state = "revoked"
    BY <2>1 DEF LiveNode
  <2>. QED
    BY <1>1, <2>2, RevokedRows
<1>2. ASSUME NEW o, NEW us, revokeMembers(o, us)
      PROVE  \/ node'[n] = node[n]
             \/ n \in LiveNodes /\ node'[n].state = "revoked"
  <2> DEFINE ns == {m \in LiveNodes : node[m].org = o /\ node[m].owner \in us}
  <2>1. RevokeNodes(ns) /\ ns \subseteq LiveNodes
    BY <1>2 DEF revokeMembers
  <2>. QED
    BY <1>1, <2>1
<1>3. ASSUME NEW u \in User, LeaveOrganization(u) \/ RemoveMember(u)
      PROVE  \/ node'[n] = node[n]
             \/ n \in LiveNodes /\ node'[n].state = "revoked"
  BY <1>2, <1>3 DEF LeaveOrganization, RemoveMember
<1>4. ASSUME NEW o \in Org, DissolveOrganization(o)
      PROVE  \/ node'[n] = node[n]
             \/ n \in LiveNodes /\ node'[n].state = "revoked"
  BY <1>2, <1>4 DEF DissolveOrganization
<1>5. ASSUME NEW u \in User, ChangePassword(u)
      PROVE  \/ node'[n] = node[n]
             \/ n \in LiveNodes /\ node'[n].state = "revoked"
  <2> DEFINE ns == {m \in LiveNodes : node[m].owner = u}
  <2>1. RevokeNodes(ns) /\ ns \subseteq LiveNodes
    BY <1>5 DEF ChangePassword
  <2>. QED
    BY <1>1, <2>1
<1>6. ASSUME NEW p \in Snapshot, NEW m \in Node, RegisterNode(p, m)
      PROVE  node'[n] = node[n]
  BY <1>6 DEF RegisterNode, DevicesTypeOK
<1>7. ASSUME NEW p \in Snapshot, NEW m \in Node, RevokeNode(p, m)
      PROVE  \/ node'[n] = node[n]
             \/ n \in LiveNodes /\ node'[n].state = "revoked"
  <2>1. CASE RevokeNodes({m}) /\ node[m].state = "live"
    BY <1>1, <2>1
  <2>2. CASE ~(RevokeNodes({m}) /\ node[m].state = "live")
    BY <1>7, <2>2 DEF RevokeNode, DevicesTypeOK
  <2>. QED
    BY <2>1, <2>2
<1>. QED
  BY <1>3, <1>4, <1>5, <1>6, <1>7
     DEF DevicesNext, DevicesStep, allVars, Join, deviceVars, SuspendMember, RestoreMember,
         LoginRecord, SweepSessions, Logout, ExpireSession, ResolveSession, PublishCheck,
         PublishCommit, NodeByCredential, ResolveNodeOwner, SignNodeToken

\* A tombstone keeps its id until the session it hangs from is deleted.
LEMMA TombstoneStep ==
  ASSUME DevicesTypeOK, \A s \in Session : SweepHolds(s), [DevicesNext]_allVars, NEW n \in Node, node[n].state = "revoked"
  PROVE  \/ node'[n] = node[n]
         \/ node'[n] = NoNode /\ sess'[node[n].parent].state = "deleted"
<1>1. node[n] # NoNode /\ n \notin LiveNodes
  BY DEF NoNode, LiveNodes
<1>2. ASSUME NEW s \in Session, CreateSession(s)
      PROVE  \/ node'[n] = node[n]
             \/ node'[n] = NoNode /\ sess'[node[n].parent].state = "deleted"
  <2>1. CASE \E k \in sweep[s].doomed : n \in NodesOf(k)
    <3>1. PICK k \in sweep[s].doomed : n \in NodesOf(k)
      BY <2>1
    <3>2. k \in Session /\ node[n].parent = k
      BY <3>1 DEF NodesOf, DevicesTypeOK, Sweep
    <3>3. k # s
      BY <1>2, <3>1 DEF CreateSession, SweepHolds
    <3>4. sess'[k] = [sess[k] EXCEPT !.state = "deleted"]
      BY <1>2, <3>1, <3>2, <3>3 DEF CreateSession
    <3>5. sess'[k].state = "deleted"
      BY <3>2, <3>4 DEF DevicesTypeOK, SessionRow
    <3>. QED
      BY <1>2, <3>1, <3>2, <3>5 DEF CreateSession
  <2>2. CASE ~ \E k \in sweep[s].doomed : n \in NodesOf(k)
    BY <1>2, <2>2 DEF CreateSession
  <2>. QED
    BY <2>1, <2>2
<1>. QED
  BY <1>1, <1>2, RowSteps

\* What is unusable hangs from a revoked session, and that is not used again.
LEMMA UnusableStep ==
  ASSUME DevicesInvariant, [DevicesNext]_allVars, NEW n \in Node, node[n].state = "live",
         ~Usable(n)
  PROVE  ~Usable(n)'
<1>1. n \in LiveNodes /\ node[n].parent \in Session /\ node[n] # NoNode
  BY LiveRows DEF DevicesInvariant, LiveNodes, NoNode
<1>2. sess[node[n].parent].state = "revoked"
  BY <1>1, UnusableIsRevoked DEF DevicesInvariant
<1>3. sess'[node[n].parent].state \in {"revoked", "deleted"}
  BY <1>1, <1>2, SessionsStayOver DEF DevicesInvariant
<1>4. CASE node'[n] = node[n]
  BY <1>3, <1>4 DEF Usable, NodeOwnerResolves, Unrevoked
<1>5. CASE node'[n].state = "revoked"
  BY <1>5 DEF Usable
<1>6. ASSUME NEW s \in Session, CreateSession(s)
      PROVE  node'[n] = node[n] \/ node'[n] = NoNode
  BY <1>6 DEF CreateSession
<1>7. CASE node'[n] = NoNode
  BY <1>7 DEF Usable, NoNode
<1>. QED
  BY <1>1, <1>4, <1>5, <1>6, <1>7, RowSteps DEF DevicesInvariant

\* A node is as usable as before if nothing it rests on has been taken away.
LEMMA StillUsable ==
  ASSUME DevicesTypeOK, NEW n \in Node, Usable(n), node'[n] = node[n],
         access'[node[n].owner] = "active",
         home'[node[n].owner] = home[node[n].owner],
         agent'[node[n].org][node[n].owner] = "active",
         sess'[node[n].parent].state \in {"live", "expired"},
         sess'[node[n].parent].user = sess[node[n].parent].user
  PROVE  Usable(n)'
BY DEF Usable, NodeOwnerResolves, Unrevoked

\* Whatever makes a node unusable says so in the same transaction, but for a cleanup
\* that had seen the session before the node was registered.
LEMMA LossStep ==
  ASSUME DevicesInvariant, [DevicesNext]_allVars, NEW n \in Node, Usable(n), ~Usable(n)'
  PROVE  \/ \E e \in appended' :
              \/ e.about = "node" /\ e.node = n
              \/ e.about = "session" /\ e.session = node[n].parent
              \/ e.about \in {"user", "organization"} /\ e.user = node[n].owner
         \/ SweptAfterDelete(n)
<1> DEFINE Announced ==
             \E e \in appended' :
               \/ e.about = "node" /\ e.node = n
               \/ e.about = "session" /\ e.session = node[n].parent
               \/ e.about \in {"user", "organization"} /\ e.user = node[n].owner
<1> DEFINE owner == node[n].owner
<1>t. DevicesTypeOK
  BY DEF DevicesInvariant
<1>l. /\ n \in LiveNodes /\ node[n] # NoNode
      /\ node[n].org \in Org /\ owner \in User /\ node[n].parent \in Session
  BY <1>t, LiveRows DEF LiveNodes, Usable, NoNode
<1>g. /\ access[owner] = "active" /\ home[owner] = node[n].org
      /\ agent[node[n].org][owner] = "active"
      /\ sess[node[n].parent].state \in {"live", "expired"}
      /\ sess[node[n].parent].user = owner
  BY DEF Usable, NodeOwnerResolves, Unrevoked
<1>. USE <1>t, <1>l, <1>g
<1>0. CASE UNCHANGED <<access, home, agent, node, sess>>
  BY <1>0, StillUsable
<1>1. ASSUME NEW u \in User, Join(u)
      PROVE  FALSE
  <2>1. UNCHANGED <<agent, node, sess>>
    BY <1>1 DEF Join, deviceVars
  <2>2. access'[owner] = "active" /\ home'[owner] = home[owner]
    BY <1>1, DeviceNoOrgAssumption DEF Join, Enroll, Admit, DevicesTypeOK, DirectoryTypeOK
  <2>. QED
    BY <2>1, <2>2, StillUsable
<1>2. ASSUME NEW o \in Org, NEW us \in SUBSET User, revokeMembers(o, us), UNCHANGED access,
             \A u \in User \ us : home'[u] = home[u], \A u \in us : home[u] = o
      PROVE  Announced
  <2>1. CASE owner \in us
    <3>1. [about |-> "organization", user |-> owner, org |-> o] \in appended'
      BY <1>2, <2>1 DEF revokeMembers
    <3>. QED
      BY <3>1
  <2>2. CASE owner \notin us
    <3>1. agent'[node[n].org][owner] = agent[node[n].org][owner]
      BY <1>2, <2>2, RevokedMembers
    <3>2. n \in LiveNodes' /\ node'[n] = node[n] /\ sess' = sess
      BY <1>2, <2>2, RevokedMembers
    <3>. QED
      BY <1>2, <2>2, <3>1, <3>2, StillUsable
  <2>. QED
    BY <2>1, <2>2
<1>3. ASSUME NEW u \in User, LeaveOrganization(u) \/ RemoveMember(u)
      PROVE  Announced
  <2>1. home[u] \in Org /\ UNCHANGED access /\ \A v \in User \ {u} : home'[v] = home[v]
    BY <1>3 DEF LeaveOrganization, RemoveMember, Remove, DevicesTypeOK, DirectoryTypeOK
  <2>2. revokeMembers(home[u], {u})
    BY <1>3 DEF LeaveOrganization, RemoveMember
  <2>. QED
    BY <1>2, <2>1, <2>2
<1>4. ASSUME NEW o \in Org, DissolveOrganization(o)
      PROVE  Announced
  <2>1. UNCHANGED access /\ \A v \in User \ Members(o) : home'[v] = home[v]
    BY <1>4 DEF DissolveOrganization, Dissolve, Members
  <2>2. revokeMembers(o, Members(o))
    BY <1>4 DEF DissolveOrganization
  <2>. QED
    BY <1>2, <2>1, <2>2 DEF Members
<1>5. ASSUME NEW u \in User, SuspendMember(u)
      PROVE  Announced
  <2>1. CASE u = owner
    <3>1. [about |-> "user", user |-> owner] \in appended'
      BY <1>5, <2>1 DEF SuspendMember
    <3>. QED
      BY <3>1
  <2>2. CASE u # owner
    <3>1. UNCHANGED <<home, agent, node>> /\ access'[owner] = access[owner]
      BY <1>5, <2>2 DEF SuspendMember, Suspend, directoryVars, DevicesTypeOK, DirectoryTypeOK
    <3>2. sess'[node[n].parent] = sess[node[n].parent]
      BY <1>5, <2>2 DEF SuspendMember, DevicesTypeOK
    <3>. QED
      BY <3>1, <3>2, StillUsable
  <2>. QED
    BY <2>1, <2>2
<1>6. ASSUME NEW u \in User, RestoreMember(u)
      PROVE  FALSE
  <2>1. UNCHANGED <<home, agent, node, sess>> /\ access'[owner] = "active"
    BY <1>6 DEF RestoreMember, Restore, deviceVars, DevicesTypeOK, DirectoryTypeOK
  <2>. QED
    BY <2>1, StillUsable
<1>7. ASSUME NEW u \in User, ChangePassword(u)
      PROVE  Announced
  <2> DEFINE ns == {m \in LiveNodes : node[m].owner = u}
  <2>1. CASE u = owner
    <3>1. [about |-> "node", node |-> n] \in appended'
      BY <1>7, <2>1 DEF ChangePassword
    <3>. QED
      BY <3>1
  <2>2. CASE u # owner
    <3>1. RevokeNodes(ns) /\ ns \subseteq LiveNodes /\ n \notin ns
      BY <1>7, <2>2 DEF ChangePassword
    <3>2. node'[n] = node[n]
      BY <3>1, RevokedRows
    <3>. QED
      BY <1>7, <3>2, StillUsable DEF ChangePassword
  <2>. QED
    BY <2>1, <2>2
<1>8. ASSUME NEW s \in Session, NEW u \in User, LoginRecord(s, u)
      PROVE  FALSE
  <2>1. sess'[node[n].parent] = sess[node[n].parent]
    BY <1>8 DEF LoginRecord, DevicesTypeOK
  <2>. QED
    BY <1>8, <2>1, StillUsable DEF LoginRecord
<1>9. ASSUME NEW s \in Session, CreateSession(s)
      PROVE  SweptAfterDelete(n)
  <2>1. node[n].parent # s /\ n \in NodesOf(node[n].parent) \intersect LiveNodes
    BY <1>9 DEF CreateSession, NodesOf, LiveNodes
  <2>2. CASE node[n].parent \notin sweep[s].doomed
    <3>1. sess'[node[n].parent] = sess[node[n].parent]
      BY <1>9, <2>1, <2>2 DEF CreateSession
    <3>2. node'[n] = node[n]
      BY <1>9, <2>1, <2>2 DEF CreateSession, NodesOf
    <3>. QED
      BY <1>9, <3>1, <3>2, StillUsable DEF CreateSession
  <2>3. CASE node[n].parent \in sweep[s].doomed
    <3>1. sess[s].state = "sweep" /\ sess'[s].state = "live"
      BY <1>9 DEF CreateSession, DevicesTypeOK, SessionRow
    <3>2. /\ sess[node[n].parent].state = "expired"
          /\ node[n].parent \notin sweep[s].inUse
          /\ database # "sqlite"
      BY <2>1, <2>3, <3>1 DEF DevicesInvariant, SweepHolds
    <3>3. database = "postgres"
      BY <3>2, DatabasesAssumption DEF DevicesTypeOK
    <3>. QED
      BY <2>3, <3>1, <3>2, <3>3 DEF SweptAfterDelete
  <2>. QED
    BY <2>2, <2>3
<1>15. ASSUME NEW s \in Session, SweepSessions(s)
       PROVE  FALSE
  <2>1. sess'[node[n].parent] = sess[node[n].parent]
    BY <1>15 DEF SweepSessions, DevicesTypeOK
  <2>. QED
    BY <1>15, <2>1, StillUsable DEF SweepSessions
<1>10. ASSUME NEW s \in Session, Logout(s)
       PROVE  Announced
  <2>1. CASE s = node[n].parent
    <3>1. [about |-> "session", session |-> s] \in appended'
      BY <1>10 DEF Logout
    <3>. QED
      BY <2>1, <3>1
  <2>2. CASE s # node[n].parent
    <3>1. sess'[node[n].parent] = sess[node[n].parent]
      BY <1>10, <2>2 DEF Logout, DevicesTypeOK
    <3>. QED
      BY <1>10, <3>1, StillUsable DEF Logout
  <2>. QED
    BY <2>1, <2>2
<1>11. ASSUME NEW s \in Session, ExpireSession(s)
       PROVE  FALSE
  <2>1. /\ sess'[node[n].parent].state \in {"live", "expired"}
        /\ sess'[node[n].parent].user = owner
    BY <1>11 DEF ExpireSession, DevicesTypeOK, SessionRow
  <2>. QED
    BY <1>11, <2>1, StillUsable DEF ExpireSession
<1>12. ASSUME NEW q \in Publication, PublishCommit(q)
       PROVE  FALSE
  <2>1. agent'[node[n].org][owner] = "active"
    BY <1>12 DEF PublishCommit, DevicesTypeOK
  <2>. QED
    BY <1>12, <2>1, StillUsable DEF PublishCommit
<1>13. ASSUME NEW p \in Snapshot, NEW m \in Node, RegisterNode(p, m)
       PROVE  FALSE
  <2>1. node'[n] = node[n]
    BY <1>13 DEF RegisterNode, DevicesTypeOK
  <2>. QED
    BY <1>13, <2>1, StillUsable DEF RegisterNode
<1>14. ASSUME NEW p \in Snapshot, NEW m \in Node, RevokeNode(p, m)
       PROVE  Announced
  <2>1. CASE m = n
    <3>1. [about |-> "node", node |-> n] \in appended'
      BY <1>14, <2>1 DEF RevokeNode
    <3>. QED
      BY <3>1
  <2>2. CASE m # n
    <3>1. node'[n] = node[n]
      BY <1>14, <2>2 DEF RevokeNode, RevokeNodes, DevicesTypeOK
    <3>. QED
      BY <1>14, <3>1, StillUsable DEF RevokeNode
  <2>. QED
    BY <2>1, <2>2
<1>. QED
  BY <1>0, <1>1, <1>3, <1>4, <1>5, <1>6, <1>7, <1>8, <1>9, <1>10, <1>11, <1>12, <1>13, <1>14,
     <1>15
     DEF DevicesNext, DevicesStep, allVars, ResolveSession, PublishCheck, NodeByCredential,
         ResolveNodeOwner, SignNodeToken

-----------------------------------------------------------------------------
(* The theorems. *)

\* Nothing is there yet.
LEMMA DevicesStart ==
  ASSUME DevicesInit
  PROVE  DevicesInvariant
<1>1. DevicesTypeOK
  BY DEF DevicesInit, DirectoryInit, DevicesTypeOK, DirectoryTypeOK, SessionRow, Sweep, NoSweep,
         ExchangeState
<1>2. LiveNodes = {}
  BY DEF DevicesInit, LiveNodes, NoNode
<1>3. \A x \in Exchange : Refusable(x)
  BY DEF DevicesInit, Refusable, NoExchange
<1>4. SQLitePublications /\ SQLiteAgentsBelongToMembers
  BY DEF DevicesInit, SQLitePublications, SQLiteAgentsBelongToMembers, AgentsBelongToMembers
<1>5. \A s \in Session : SweepHolds(s)
  BY DEF DevicesInit, SweepHolds
<1>. QED
  BY <1>1, <1>2, <1>3, <1>4, <1>5 DEF DevicesInvariant

\* Every step keeps the invariant.
LEMMA DevicesKeep ==
  ASSUME DevicesInvariant, [DevicesNext]_allVars
  PROVE  DevicesInvariant'
BY TypeStep, GroundedStep, ExchangeStep, SweepStep, SQLiteStep DEF DevicesInvariant

\* The inductive invariant of sessions, agents, nodes and exchanges.
THEOREM DevicesHold == DevicesSpec => []DevicesInvariant
BY DevicesStart, DevicesKeep, PTL DEF DevicesSpec

\* The tables of sessions, agents, nodes and exchanges keep their types.
THEOREM DevicesTypes == DevicesSpec => []DevicesTypeOK
<1>1. DevicesInvariant => DevicesTypeOK
  BY DEF DevicesInvariant
<1>. QED
  BY <1>1, DevicesHold, PTL

\* A live node keeps the membership, the agent and the session it hangs from
\* (revokeOrganizationMember, the cleanup of CreateSession).
THEOREM NodesAreGrounded == DevicesSpec => []LiveNodesAreGrounded
<1>1. DevicesInvariant => LiveNodesAreGrounded
  BY DEF DevicesInvariant, Grounded, LiveNodesAreGrounded
<1>. QED
  BY <1>1, DevicesHold, PTL

\* ExchangeNodeToken signs nothing for a node that was unusable when it was asked,
\* whatever commits between its three reads.
THEOREM UnusableGetsNoToken == DevicesSpec => []NoTokenForUnusableNode
<1>1. DevicesInvariant => NoTokenForUnusableNode
  BY DEF DevicesInvariant, Refusable, NoTokenForUnusableNode
<1>. QED
  BY <1>1, DevicesHold, PTL

\* With one connection, active agents belong to active members (UpsertOwnedAgent).
THEOREM SQLiteAgentsHold == DevicesSpec => []SQLiteAgentsBelongToMembers
<1>1. DevicesInvariant => SQLiteAgentsBelongToMembers
  BY DEF DevicesInvariant
<1>. QED
  BY <1>1, DevicesHold, PTL

\* Signing in, restored access, readmission or a republished agent never revive a
\* node (ResolveNodeOwner).
THEOREM UnusableHolds == DevicesSpec => UnusableStaysUnusable
<1>1. DevicesInvariant /\ [DevicesNext]_allVars =>
        [\A n \in Node : node[n].state = "live" /\ ~Usable(n) => ~Usable(n)']_allVars
  BY UnusableStep
<1>. QED
  BY <1>1, DevicesHold, PTL DEF DevicesSpec, UnusableStaysUnusable

\* A revoked row refuses registrations of its id as long as its session is there
\* (RegisterNode, RevokeNode).
THEOREM TombstonesAreKept == DevicesSpec => TombstonesHold
<1>1. DevicesInvariant /\ [DevicesNext]_allVars =>
        [\A n \in Node : node[n].state = "revoked" =>
           \/ node'[n] = node[n]
           \/ node'[n] = NoNode /\ sess'[node[n].parent].state = "deleted"]_allVars
  BY TombstoneStep DEF DevicesInvariant
<1>. QED
  BY <1>1, DevicesHold, PTL DEF DevicesSpec, TombstonesHold

\* Every commit that makes a node unusable names it, its session, its owner or the
\* owner's membership in an event (appendIdentityInvalidation), save that of a login
\* whose DELETE began before the registration of the node (CreateSession).
THEOREM LossHolds == DevicesSpec => LossIsAnnounced
<1>1. DevicesInvariant /\ [DevicesNext]_allVars =>
        [\A n \in Node : Usable(n) /\ ~Usable(n)' =>
           \/ \E e \in appended' :
                \/ e.about = "node" /\ e.node = n
                \/ e.about = "session" /\ e.session = node[n].parent
                \/ e.about \in {"user", "organization"} /\ e.user = node[n].owner
           \/ SweptAfterDelete(n)]_allVars
  BY LossStep
<1>. QED
  BY <1>1, DevicesHold, PTL DEF DevicesSpec, LossIsAnnounced

\* Sessions, agents and nodes are added to Directory without changing it.
THEOREM DevicesExtendDirectory == DevicesSpec => DirectorySpec
<1>1. DevicesInit => DirectoryInit
  BY DEF DevicesInit
<1>2. [DevicesNext]_allVars => [DirectoryNext]_directoryVars
  BY DirectorySteps
<1>. QED
  BY <1>1, <1>2, PTL DEF DevicesSpec, DirectorySpec
=============================================================================
