------------------------------- MODULE RowLocks -------------------------------
(****************************************************************************)
(* The transactions of the storage layer as PostgreSQL runs them: a         *)
(* statement sees the rows that were committed when it started, locks the   *)
(* rows it touches one after the other in an order of the planner's         *)
(* choosing, waits for rows that others have locked and looks at them again *)
(* afterwards; locks are held to the end of the transaction.  A cycle of    *)
(* waits is broken by aborting one of its members.                          *)
(*                                                                          *)
(* Every identity write locks control_state first.  Logins do not, nor do   *)
(* publications of agents.  What a transaction checks about roles, stamps   *)
(* and names is the subject of Membership; here it may be refused at any    *)
(* point (Rollback).  Each element of Txn is one transaction.               *)
(****************************************************************************)
EXTENDS Naturals, Sequences

CONSTANTS Txn, Session, User,
          Owner,  \* the user of a session
          Kinds,  \* the transactions that take part, a subset of Kind
          None

ASSUME RowLocksAssumption ==
  /\ Owner \in [Session -> User]
  /\ Kinds \subseteq {"login", "suspend", "remove", "logout", "register",
                      "publish", "leave", "password"}

VARIABLES sess,  \* sessions, the clock's part in their state included
          node,  \* the execution node that hangs from a session
          tx,    \* the transactions
          held   \* the row locks of each

lockVars == <<sess, node, tx, held>>

Kind == {"login", "suspend", "remove", "logout", "register", "publish",
         "leave", "password"}

\* Lock modes: FOR KEY SHARE (the check of a foreign key), FOR NO KEY UPDATE (an
\* UPDATE), FOR UPDATE (a DELETE, or the clause).
Conflict(a, b) == \/ "update" \in {a, b}
                  \/ a = "noKeyUpdate" /\ b = "noKeyUpdate"

Row == {<<"control">>, <<"deployment">>}
         \union ({"member", "user", "orgMember", "agent", "credential"} \X User)
         \union ({"session", "node"} \X Session)

Lock == [row : Row, mode : {"keyShare", "noKeyUpdate", "update"}]

NewTxn == [kind |-> "new", user |-> None, arg |-> None, pos |-> 0, want |-> {},
           wait |-> None, overdue |-> {}, known |-> {}]

\* Sessions expire by Expire; nodes are revoked by the transactions.  (A node that
\* was revoked before is locked by the cleanup that has locked its session only.)
RowLocksInit ==
  /\ sess \in [Session -> {"live", "revoked"}]
  /\ node \in [Session -> {"none", "live"}]
  /\ tx = [t \in Txn |-> NewTxn]
  /\ held = [t \in Txn |-> {}]

-----------------------------------------------------------------------------
(* The statements of each transaction, as the locks they ask for. *)

KeyShare(row) == [row |-> row, mode |-> "keyShare"]
Update(row) == [row |-> row, mode |-> "noKeyUpdate"]
Delete(row) == [row |-> row, mode |-> "update"]

lockControlState == {Delete(<<"control">>)}
lockDeployment == {Delete(<<"deployment">>)}

\* The rows of a table that a transaction has written.
Written(t, table) ==
  {s \in Session : \E k \in held[t] : k.row = <<table, s>> /\ k.mode # "keyShare"}

\* Seeded fault: the sweep does not look for live nodes.
Sweep_blind(t) ==
  {s \in Session : sess[s] # "gone" /\ (s \in tx[t].overdue \/ sess[s] = "revoked")}

\* DELETE FROM sessions WHERE (expires_at <= ... OR revoked_at IS NOT NULL)
\* AND NOT EXISTS (a live node)
Sweep(t) ==
  {s \in Session : /\ sess[s] # "gone"
                   /\ s \in tx[t].overdue \/ sess[s] = "revoked"
                   /\ node[s] # "live"}

\* ON DELETE CASCADE runs after the statement, on the rows of its own moment.
Cascade(t) == {s \in Written(t, "session") : node[s] # "none"}

CreateSession(t, u) ==
  << {Delete(<<"session", s>>) : s \in Sweep(t)},
     {Delete(<<"node", s>>) : s \in Cascade(t)},
     {KeyShare(<<"member", u>>)},
     {Update(<<"user", u>>)} >>

UserSessions(u) == {s \in Session : Owner[s] = u /\ sess[s] \notin {"revoked", "gone"}}
UserNodes(u) == {s \in Session : Owner[s] = u /\ node[s] = "live"}

\* Suspends a member of the deployment and renames it.
UpdateDeploymentMember(u) ==
  << lockControlState, lockDeployment, {Update(<<"member", u>>)},
     {Update(<<"user", u>>)}, {Update(<<"session", s>>) : s \in UserSessions(u)} >>

\* Seeded fault: the deployment is locked after the agents are.
revokeOrganizationMember_late(u) ==
  << {Update(<<"orgMember", u>>)}, {Update(<<"agent", u>>)}, lockDeployment,
     {Update(<<"node", s>>) : s \in UserNodes(u)} >>

revokeOrganizationMember(u) ==
  << {Update(<<"orgMember", u>>)}, {Update(<<"agent", u>>)},
     {Update(<<"node", s>>) : s \in UserNodes(u)} >>

\* Removes a member from its organization and renames it.
UpdateMember(u) ==
  << lockControlState, lockDeployment, {Update(<<"orgMember", u>>)},
     {Update(<<"user", u>>)} >> \o revokeOrganizationMember(u)

ChangeOrganization(u) == << lockControlState >> \o revokeOrganizationMember(u)

RevokeSession(s) == << lockControlState, {Update(<<"session", s>>)} >>

\* The foreign keys of the inserted node.
RegisterNode(s) ==
  << lockControlState,
     {KeyShare(<<"deployment">>), KeyShare(<<"user", Owner[s]>>), KeyShare(<<"session", s>>)} >>

UpsertOwnedAgent(u) ==
  << lockDeployment, {Update(<<"agent", u>>), KeyShare(<<"user", u>>)} >>

TryCommitPasswordChange(u) ==
  << lockControlState, {KeyShare(<<"user", u>>)}, {Update(<<"credential", u>>)},
     {Update(<<"node", s>>) : s \in UserNodes(u)} >>

Program(t) ==
  LET s == tx[t].arg
      u == tx[t].user
  IN CASE tx[t].kind = "login"    -> CreateSession(t, u)
       [] tx[t].kind = "suspend"  -> UpdateDeploymentMember(u)
       [] tx[t].kind = "remove"   -> UpdateMember(u)
       [] tx[t].kind = "leave"    -> ChangeOrganization(u)
       [] tx[t].kind = "logout"   -> RevokeSession(s)
       [] tx[t].kind = "register" -> RegisterNode(s)
       [] tx[t].kind = "publish"  -> UpsertOwnedAgent(u)
       [] tx[t].kind = "password" -> TryCommitPasswordChange(u)

\* What a statement finds of a row when it comes to it: still there, and still
\* what it asked for.
Matches(t, row) ==
  CASE row[1] = "session" /\ tx[t].kind \in {"login", "register"} -> sess[row[2]] # "gone"
    [] row[1] = "session" /\ tx[t].kind \in {"suspend", "logout"} -> sess[row[2]] \notin {"gone", "revoked"}
    [] row[1] = "node" /\ tx[t].kind = "login" -> node[row[2]] # "none"
    [] row[1] = "node" /\ tx[t].kind # "login" -> node[row[2]] = "live"
    [] OTHER -> TRUE

-----------------------------------------------------------------------------
(* Locks. *)

Blocks(q, k) == \E h \in held[q] : h.row = k.row /\ Conflict(h.mode, k.mode)
Free(t, k) == \A q \in Txn \ {t} : ~Blocks(q, k)

WaitsFor(t, q) == q # t /\ tx[t].wait # None /\ Blocks(q, tx[t].wait)

\* Transactions that all wait for one of them.
Stuck(D) == D # {} /\ \A t \in D : \E q \in D : WaitsFor(t, q)
Deadlocked(D) == Stuck(D) /\ \A E \in SUBSET D : Stuck(E) => E = D

Active(t) == tx[t].kind \in Kind

End(t) ==
  /\ tx' = [tx EXCEPT ![t] = [NewTxn EXCEPT !.kind = "done"]]
  /\ held' = [held EXCEPT ![t] = {}]

-----------------------------------------------------------------------------
(* Steps of a transaction. *)

\* A login reads the clock now: overdue is what has expired by then.
BeginForUser(t, k, u) ==
  /\ tx[t].kind = "new" /\ k \notin {"logout", "register"}
  /\ tx' = [tx EXCEPT ![t].kind = k, ![t].user = u,
                      ![t].overdue = IF k = "login" THEN {s \in Session : sess[s] = "expired"} ELSE {}]
  /\ UNCHANGED <<sess, node, held>>

\* The request comes with the session's cookie; a logout does not ask whether it
\* has expired.  The service reads the clock before the transaction: a node is
\* registered from a session that has not expired by then.
BeginForSession(t, k, s) ==
  /\ tx[t].kind = "new" /\ k \in {"logout", "register"}
  /\ sess[s] \in {"live", "expired"}
  /\ k = "register" => sess[s] = "live" /\ node[s] = "none"
  /\ tx' = [tx EXCEPT ![t].kind = k, ![t].user = Owner[s], ![t].arg = s]
  /\ UNCHANGED <<sess, node, held>>

AtEndOfStatement(t) == Active(t) /\ tx[t].want = {} /\ tx[t].wait = None

\* RegisterNode asks for an unrevoked session; the expiry is judged by the clock
\* reading of the request.
Refused(t) ==
  tx[t].kind = "register" /\ tx[t].pos = 1 /\ sess[tx[t].arg] \in {"revoked", "gone"}

\* known: the live nodes that the statement's snapshot holds.
StartStatement(t) ==
  /\ AtEndOfStatement(t) /\ tx[t].pos < Len(Program(t)) /\ ~Refused(t)
  /\ tx' = [tx EXCEPT ![t].pos = @ + 1,
                      ![t].want = Program(t)[tx[t].pos + 1],
                      ![t].overdue = {},
                      ![t].known = IF tx[t].kind = "login" /\ tx[t].pos = 0
                                   THEN {s \in Session : node[s] = "live"} ELSE @]
  /\ UNCHANGED <<sess, node, held>>

\* An insert whose parent row is gone fails.
ForeignKeyFails(t, k) == k.mode = "keyShare" /\ ~Matches(t, k.row)

Take(t, k) ==
  /\ tx' = [tx EXCEPT ![t].want = @ \ {k}, ![t].wait = None]
  /\ held' = [held EXCEPT ![t] = IF Matches(t, k.row) THEN @ \union {k} ELSE @]

\* The next row, locked at once or waited for.
LockRow(t) ==
  /\ Active(t)
  /\ \E k \in IF tx[t].wait = None THEN tx[t].want ELSE {tx[t].wait} :
       \/ Free(t, k) /\ ~ForeignKeyFails(t, k) /\ Take(t, k)
       \/ Free(t, k) /\ ForeignKeyFails(t, k) /\ End(t)
       \/ /\ ~Free(t, k) /\ tx[t].wait = None
          /\ tx' = [tx EXCEPT ![t].wait = k]
          /\ UNCHANGED held
  /\ UNCHANGED <<sess, node>>

Commit(t) ==
  LET kind == tx[t].kind
      sessions == Written(t, "session")
      nodes == Written(t, "node")
  IN /\ AtEndOfStatement(t) /\ tx[t].pos = Len(Program(t))
     /\ sess' = [s \in Session |->
                   IF s \in sessions THEN IF kind = "login" THEN "gone" ELSE "revoked"
                   ELSE sess[s]]
     /\ node' = [s \in Session |->
                   IF s \in nodes THEN IF kind = "login" THEN "none" ELSE "revoked"
                   ELSE IF kind = "register" /\ s = tx[t].arg /\ node[s] = "none" THEN "live"
                   ELSE node[s]]
     /\ End(t)

\* Seeded fault: the early return leaves the transaction open.
Refuse_open(t) ==
  /\ AtEndOfStatement(t) /\ Refused(t)
  /\ tx' = [tx EXCEPT ![t] = [NewTxn EXCEPT !.kind = "done"]]
  /\ UNCHANGED <<sess, node, held>>

Refuse(t) ==
  /\ AtEndOfStatement(t) /\ Refused(t)
  /\ End(t)
  /\ UNCHANGED <<sess, node>>

\* A check fails, a statement fails, the client goes away.
Rollback(t) == Active(t) /\ End(t) /\ UNCHANGED <<sess, node>>

\* PostgreSQL aborts one member of a cycle.
DetectDeadlock ==
  /\ \E D \in SUBSET Txn : Deadlocked(D) /\ \E t \in D : End(t)
  /\ UNCHANGED <<sess, node>>

\* The clock reaches expires_at.
Expire(s) ==
  /\ sess[s] = "live"
  /\ sess' = [sess EXCEPT ![s] = "expired"]
  /\ UNCHANGED <<node, tx, held>>

Step(t) == StartStatement(t) \/ LockRow(t) \/ Commit(t) \/ Refuse(t)

RowLocksNext ==
  \/ \E t \in Txn, k \in Kinds :
       \/ \E u \in User : BeginForUser(t, k, u)
       \/ \E s \in Session : BeginForSession(t, k, s)
  \/ \E t \in Txn : Step(t) \/ Rollback(t)
  \/ DetectDeadlock
  \/ \E s \in Session : Expire(s)

\* The server runs the statements it is given, and looks for deadlocks.
RowLocksSpec ==
  /\ RowLocksInit /\ [][RowLocksNext]_lockVars
  /\ \A t \in Txn : WF_lockVars(Step(t))
  /\ WF_lockVars(DetectDeadlock)

-----------------------------------------------------------------------------
(* Properties. *)

\* Identity writes and publications never wait for one another in a circle: in
\* every deadlock there is a login, the one transaction that locks several rows
\* without control_state or the deployment (beginIdentityWrite, lockDeployment).
OnlyLoginsDeadlock ==
  \A D \in SUBSET Txn : Stuck(D) => \E t \in D : tx[t].kind = "login"

\* Every transaction ends, commits or not, and gives its locks back.
EveryTransactionEnds == \A t \in Txn : Active(t) ~> ~Active(t) /\ held[t] = {}

\* The cleanup of a login never takes a live node that was registered before its
\* DELETE began (CreateSession).
SettledNodesSurvive ==
  [][\A t \in Txn : tx[t].kind = "login" /\ Commit(t) =>
       \A s \in tx[t].known : node[s] = "live" => node'[s] = "live"]_lockVars

\* A live node goes with its session only if that session was revoked, not
\* because it expired (the device outlives the browser session).
ExpiryCutsNoDevice ==
  [][\A s \in Session : node[s] = "live" /\ sess[s] = "expired" => node'[s] # "none"]_lockVars
=============================================================================
