---------------------------- MODULE StorageProofs ----------------------------
(****************************************************************************)
(* Proofs about RowLocks for any sets of transactions, sessions and users,  *)
(* and about Stamps for any sets of editors, others and names.              *)
(*                                                                          *)
(* First RowLocks: its invariant says of each transaction what it may have  *)
(* asked for at each of its statements, and of the lock table that no two   *)
(* transactions hold what excludes each other.  The lemmas that end in Asks *)
(* go through the statements, those that end in Keeps through the steps.    *)
(****************************************************************************)
EXTENDS RowLocks, Stamps, TLAPS

\* The transactions that beginIdentityWrite begins.
Identity == {"suspend", "remove", "leave", "logout", "register", "password"}

\* lockControlState and lockDeployment.
Control == Delete(<<"control">>)
Deployment == Delete(<<"deployment">>)

\* What is known of a transaction.
TxState == [kind : Kind \union {"new", "done"}, user : User \union {None},
            arg : Session \union {None}, pos : Nat, want : SUBSET Lock,
            wait : Lock \union {None}, overdue : SUBSET Session, known : SUBSET Session]

\* The types of the tables, of the transactions and of their locks.
RowLocksTyped ==
  /\ sess \in [Session -> {"live", "expired", "revoked", "gone"}]
  /\ node \in [Session -> {"none", "live", "revoked"}]
  /\ tx \in [Txn -> TxState]
  /\ held \in [Txn -> SUBSET Lock]

\* No two transactions hold locks that exclude each other.
LocksAreCompatible ==
  \A t, q \in Txn : t # q => \A k \in held[t] : ~Blocks(q, k)

\* The locks that a transaction has, or that its statement is still to take.
Asked(t) == tx[t].want \union held[t]

\* A transaction that is not open has no locks and waits for none; one that is
\* open has asked for nothing before its first statement.
Begun(t) ==
  /\ tx[t].kind = "new" => tx[t].pos = 0
  /\ ~Active(t) => held[t] = {} /\ tx[t].want = {} /\ tx[t].wait = None
  /\ tx[t].wait # None => tx[t].wait \in tx[t].want
  /\ Active(t) => /\ tx[t].pos = 0 => Asked(t) = {}
                  /\ tx[t].user \in User
                  /\ tx[t].kind \in {"logout", "register"} => tx[t].arg \in Session

\* The lock is all that the first statement asks for, and is held from the
\* second one on.
LockedFirst(t, k) ==
  /\ tx[t].pos = 1 => Asked(t) \subseteq {k}
  /\ tx[t].pos >= 1 => k \in Asked(t)
  /\ tx[t].pos >= 2 => k \in held[t]

\* beginIdentityWrite: control_state is locked before anything else.
ControlFirst(t) == tx[t].kind \in Identity => LockedFirst(t, Control)

\* lockDeployment comes before the agents of the organization member are
\* touched.
DeploymentBeforeAgents(t) ==
  /\ tx[t].kind = "publish" => LockedFirst(t, Deployment)
  /\ tx[t].kind = "remove" => /\ tx[t].pos >= 2 => Deployment \in Asked(t)
                              /\ tx[t].pos >= 3 => Deployment \in held[t]

\* Which rows a transaction that is not a login may lock, and how: FOR UPDATE
\* only control_state and the deployment, agents only of its user and only after
\* the deployment (or control_state) is locked.
LockMayBe(t, k) ==
  /\ k.mode = "update" => k \in {Control, Deployment}
  /\ k.row[1] = "agent" =>
       /\ k = Update(<<"agent", tx[t].user>>)
       /\ \/ tx[t].kind = "publish" /\ tx[t].pos >= 2
          \/ tx[t].kind \in {"remove", "leave"} /\ tx[t].pos >= 3
  /\ k.row[1] = "node" => tx[t].kind \in Identity
  /\ tx[t].kind = "publish" /\ tx[t].pos >= 2 =>
       \/ k.row[1] \in {"deployment", "agent"}
       \/ k.row[1] = "user" /\ k.mode = "keyShare"

\* Everything a transaction has asked for is of that shape.  The late statements
\* of those that touch agents ask for agents, nodes and users only.
ShapesOK(t) ==
  /\ tx[t].kind # "login" => \A k \in Asked(t) : LockMayBe(t, k)
  /\ tx[t].kind = "leave" /\ tx[t].pos >= 3 => \A k \in tx[t].want : k.row[1] \in {"agent", "node"}
  /\ tx[t].kind = "publish" /\ tx[t].pos >= 2 => \A k \in tx[t].want : k.row[1] \in {"agent", "user"}

\* A cleanup has asked for no row of a node its DELETE saw alive, nor of the
\* session of one.
CleanupSpares(t) ==
  tx[t].kind = "login" /\ tx[t].pos >= 1 =>
    \A k \in Asked(t), s \in Session :
      k.row \in {<<"session", s>>, <<"node", s>>} => s \notin tx[t].known

\* What holds of one transaction.
TxOK(t) ==
  Begun(t) /\ ControlFirst(t) /\ DeploymentBeforeAgents(t) /\ ShapesOK(t) /\ CleanupSpares(t)

\* Inductive: the types, the lock table, and each transaction by itself.
RowLocksInvariant ==
  RowLocksTyped /\ LocksAreCompatible /\ \A t \in Txn : TxOK(t)

\* In a circle without logins everybody is open and waits for a lock of its own
\* statement that somebody else of the circle, who holds locks, keeps from it.
LEMMA WaitIsAsked ==
  ASSUME RowLocksInvariant, NEW D \in SUBSET Txn, Stuck(D), \A t \in D : tx[t].kind # "login",
         NEW t \in D
  PROVE  /\ Active(t) /\ TxOK(t) /\ tx[t].wait \in tx[t].want
         /\ \E q \in D : q # t /\ Active(q) /\ TxOK(q) /\ Blocks(q, tx[t].wait) /\ held[q] # {}
  BY DEF Stuck, WaitsFor, RowLocksInvariant, TxOK, Begun, Blocks

\* An identity write that holds any lock holds that of control_state.
LEMMA IdentityHoldsControl ==
  ASSUME NEW t \in Txn, TxOK(t), Active(t), tx[t].pos \in Nat, held[t] # {}, tx[t].kind \in Identity
  PROVE  Control \in held[t]
  BY DEF TxOK, ControlFirst, LockedFirst, Asked, Begun

\* Only one transaction at a time holds control_state, and only one the
\* deployment.
LEMMA OneHolder ==
  ASSUME RowLocksInvariant, NEW t \in Txn, NEW q \in Txn, t # q, NEW k \in {Control, Deployment},
         k \in held[t], k \in held[q]
  PROVE  FALSE
  BY DEF RowLocksInvariant, LocksAreCompatible, Blocks, Conflict, Control, Deployment, Delete

\* In a circle without logins nobody waits for a publication.
LEMMA PublicationsBlockNobody ==
  ASSUME RowLocksInvariant, NEW D \in SUBSET Txn, Stuck(D), \A t \in D : tx[t].kind # "login",
         NEW p \in D, tx[p].kind = "publish", held[p] # {}
  PROVE  FALSE
  <1>1. /\ Active(p) /\ TxOK(p) /\ tx[p].wait \in tx[p].want
        /\ \E q \in D : q # p /\ Active(q) /\ TxOK(q) /\ Blocks(q, tx[p].wait) /\ held[q] # {}
    BY WaitIsAsked
  <1>2. PICK q \in D : q # p /\ Active(q) /\ TxOK(q) /\ Blocks(q, tx[p].wait) /\ held[q] # {}
    BY <1>1
  <1>3. \A t \in D : tx[t].pos \in Nat
    BY DEF RowLocksInvariant, RowLocksTyped, TxState
  <1>4. PICK k \in tx[p].want : k = tx[p].wait
    BY <1>1
  <1>5. k \notin held[p]
    BY <1>2, <1>4 DEF RowLocksInvariant, LocksAreCompatible
  <1>6. tx[p].pos >= 2 /\ Deployment \in held[p]
    BY <1>1, <1>3, <1>5 DEF TxOK, Begun, DeploymentBeforeAgents, LockedFirst, Asked
  <1>7. LockMayBe(p, k) /\ k.row[1] \in {"agent", "user"}
    BY <1>1, <1>6 DEF TxOK, ShapesOK, Asked
  <1>8. PICK h \in held[q] : h.row = k.row /\ Conflict(h.mode, k.mode)
    BY <1>2, <1>4 DEF Blocks
  <1>9. LockMayBe(q, h)
    BY <1>2 DEF TxOK, ShapesOK, Asked
  <1>10. k.mode # "update" /\ h.mode # "update"
    BY <1>7, <1>8, <1>9 DEF LockMayBe, Control, Deployment, Delete
  <1>11. k.row[1] = "agent" /\ k.mode = "noKeyUpdate" /\ h.mode = "noKeyUpdate"
    BY <1>6, <1>7, <1>8, <1>10 DEF LockMayBe, Conflict
  <1>12. CASE tx[q].kind = "publish" \/ tx[q].kind = "remove"
    <2>1. Deployment \in held[q]
      BY <1>2, <1>3, <1>8, <1>9, <1>11, <1>12
         DEF LockMayBe, TxOK, DeploymentBeforeAgents, LockedFirst
    <2> QED
      BY <1>2, <1>6, <2>1, OneHolder
  <1>13. CASE tx[q].kind = "leave"
    <2>1. tx[q].pos >= 3 /\ h = Update(<<"agent", tx[q].user>>)
      BY <1>8, <1>9, <1>11, <1>13 DEF LockMayBe
    <2>2. /\ tx[q].wait \in tx[q].want
          /\ \E r \in D : r # q /\ Active(r) /\ TxOK(r) /\ Blocks(r, tx[q].wait) /\ held[r] # {}
      BY WaitIsAsked
    <2>3. PICK j \in tx[q].want : j = tx[q].wait
      BY <2>2
    <2>4. PICK r \in D : r # q /\ Active(r) /\ TxOK(r) /\ Blocks(r, j) /\ held[r] # {}
      BY <2>2, <2>3
    <2>5. LockMayBe(q, j) /\ j.row[1] \in {"agent", "node"}
      BY <1>2, <1>13, <2>1 DEF TxOK, ShapesOK, Asked
    <2>6. CASE j.row[1] = "agent"
      <3>1. j = h
        BY <2>1, <2>5, <2>6 DEF LockMayBe
      <3> QED
        BY <1>8, <2>4, <3>1 DEF RowLocksInvariant, LocksAreCompatible
    <2>7. CASE j.row[1] = "node"
      <3>1. PICK g \in held[r] : g.row = j.row
        BY <2>4 DEF Blocks
      <3>2. LockMayBe(r, g)
        BY <2>4 DEF TxOK, ShapesOK, Asked
      <3>3. tx[r].kind \in Identity
        BY <2>7, <3>1, <3>2 DEF LockMayBe
      <3>4. Control \in held[r] /\ Control \in held[q]
        BY <1>2, <1>3, <1>13, <2>4, <3>3, IdentityHoldsControl DEF Identity
      <3> QED
        BY <2>4, <3>4, OneHolder
    <2> QED
      BY <2>5, <2>6, <2>7
  <1> QED
    BY <1>8, <1>9, <1>11, <1>12, <1>13 DEF LockMayBe

\* Who blocks anybody in a circle without logins is an identity write and holds
\* control_state, but only one can.
LEMMA DeadlocksHaveLogins == RowLocksInvariant => OnlyLoginsDeadlock
  <1> SUFFICES ASSUME RowLocksInvariant, NEW D \in SUBSET Txn, Stuck(D),
                      \A t \in D : tx[t].kind # "login"
               PROVE  FALSE
    BY DEF OnlyLoginsDeadlock
  <1>1. ASSUME NEW t \in D
        PROVE  \E q \in D : q # t /\ Control \in held[q]
    <2>1. PICK q \in D : q # t /\ Active(q) /\ TxOK(q) /\ held[q] # {}
      BY WaitIsAsked
    <2>2. tx[q].kind \in Identity
      BY <2>1, PublicationsBlockNobody DEF Active, Kind, Identity
    <2>3. tx[q].pos \in Nat
      BY DEF RowLocksInvariant, RowLocksTyped, TxState
    <2> QED
      BY <2>1, <2>2, <2>3, IdentityHoldsControl
  <1>2. PICK t \in D : TRUE
    BY DEF Stuck
  <1>3. PICK q \in D : q # t /\ Control \in held[q]
    BY <1>1
  <1>4. PICK r \in D : r # q /\ Control \in held[r]
    BY <1>1
  <1> QED
    BY <1>3, <1>4, OneHolder

-----------------------------------------------------------------------------
(* The statements. *)

\* The statements of a sequence that is put together from two.
LEMMA Joined ==
  ASSUME NEW S, NEW a \in S, NEW b \in S, NEW c \in S, NEW d \in S,
         NEW x \in S, NEW y \in S, NEW z \in S, NEW s
  PROVE  /\ s = <<a, b, c, d>> \o <<x, y, z>> =>
              /\ Len(s) = 7
              /\ s[1] = a /\ s[2] = b /\ s[3] = c /\ s[4] = d /\ s[5] = x /\ s[6] = y /\ s[7] = z
         /\ s = <<a>> \o <<x, y, z>> =>
              Len(s) = 4 /\ s[1] = a /\ s[2] = x /\ s[3] = y /\ s[4] = z
  <1>1. <<a, b, c, d>> \in Seq(S) /\ <<x, y, z>> \in Seq(S) /\ <<a>> \in Seq(S)
    OBVIOUS
  <1> QED
    BY <1>1

\* The seven statements of a removal from an organization.
LEMMA UpdateMemberIs ==
  ASSUME NEW u, NEW s, s = UpdateMember(u)
  PROVE  /\ Len(s) = 7
         /\ s[1] = lockControlState /\ s[2] = lockDeployment
         /\ s[3] = {Update(<<"orgMember", u>>)} /\ s[4] = {Update(<<"user", u>>)}
         /\ s[5] = {Update(<<"orgMember", u>>)} /\ s[6] = {Update(<<"agent", u>>)}
         /\ s[7] = {Update(<<"node", x>>) : x \in UserNodes(u)}
  <1> DEFINE nodes == {Update(<<"node", x>>) : x \in UserNodes(u)}
             S == {lockControlState, lockDeployment, {Update(<<"orgMember", u>>)},
                   {Update(<<"user", u>>)}, {Update(<<"agent", u>>)}, nodes}
  <1>1. s = <<lockControlState, lockDeployment, {Update(<<"orgMember", u>>)}, {Update(<<"user", u>>)}>>
             \o <<{Update(<<"orgMember", u>>)}, {Update(<<"agent", u>>)}, nodes>>
    BY DEF UpdateMember, revokeOrganizationMember
  <1> HIDE DEF nodes
  <1>2. /\ lockControlState \in S /\ lockDeployment \in S /\ {Update(<<"orgMember", u>>)} \in S
        /\ {Update(<<"user", u>>)} \in S /\ {Update(<<"agent", u>>)} \in S /\ nodes \in S
    OBVIOUS
  <1> HIDE DEF S
  <1>3. /\ Len(s) = 7
        /\ s[1] = lockControlState /\ s[2] = lockDeployment
        /\ s[3] = {Update(<<"orgMember", u>>)} /\ s[4] = {Update(<<"user", u>>)}
        /\ s[5] = {Update(<<"orgMember", u>>)} /\ s[6] = {Update(<<"agent", u>>)}
        /\ s[7] = nodes
    BY <1>1, <1>2, Joined
  <1> QED
    BY <1>3 DEF nodes

\* The four statements of a member that leaves its organization.
LEMMA ChangeOrganizationIs ==
  ASSUME NEW u, NEW s, s = ChangeOrganization(u)
  PROVE  /\ Len(s) = 4
         /\ s[1] = lockControlState /\ s[2] = {Update(<<"orgMember", u>>)}
         /\ s[3] = {Update(<<"agent", u>>)}
         /\ s[4] = {Update(<<"node", x>>) : x \in UserNodes(u)}
  <1> DEFINE nodes == {Update(<<"node", x>>) : x \in UserNodes(u)}
             S == {lockControlState, {Update(<<"orgMember", u>>)}, {Update(<<"agent", u>>)}, nodes}
  <1>1. s = <<lockControlState>> \o <<{Update(<<"orgMember", u>>)}, {Update(<<"agent", u>>)}, nodes>>
    BY DEF ChangeOrganization, revokeOrganizationMember
  <1> HIDE DEF nodes
  <1>2. /\ lockControlState \in S /\ {Update(<<"orgMember", u>>)} \in S
        /\ {Update(<<"agent", u>>)} \in S /\ nodes \in S
    OBVIOUS
  <1> HIDE DEF S
  <1>3. /\ Len(s) = 4
        /\ s[1] = lockControlState /\ s[2] = {Update(<<"orgMember", u>>)}
        /\ s[3] = {Update(<<"agent", u>>)} /\ s[4] = nodes
    BY <1>1, <1>2, Joined
  <1> QED
    BY <1>3 DEF nodes

\* Locks on rows that exist are locks.
LEMMA RowTypes ==
  /\ Control \in Lock /\ Deployment \in Lock
  /\ \A u \in User, table \in {"member", "user", "orgMember", "agent", "credential"} :
       KeyShare(<<table, u>>) \in Lock /\ Update(<<table, u>>) \in Lock
  /\ \A s \in Session, table \in {"session", "node"} :
       KeyShare(<<table, s>>) \in Lock /\ Update(<<table, s>>) \in Lock /\ Delete(<<table, s>>) \in Lock
  /\ KeyShare(<<"deployment">>) \in Lock
  BY DEF Control, Deployment, Lock, Row, KeyShare, Update, Delete

\* Locks on rows of some tables, none of them FOR UPDATE.
Plain(S, tables) ==
  S \subseteq Lock /\ \A k \in S : k.mode # "update" /\ k.row[1] \in tables

\* A lock on one row of a table whose rows belong to users.
LEMMA PlainRow ==
  ASSUME NEW u \in User, NEW table \in {"member", "user", "orgMember", "agent", "credential"}
  PROVE  Plain({Update(<<table, u>>)}, {table}) /\ Plain({KeyShare(<<table, u>>)}, {table})
  <1>1. KeyShare(<<table, u>>) \in Lock /\ Update(<<table, u>>) \in Lock
    BY RowTypes
  <1>2. /\ KeyShare(<<table, u>>).mode = "keyShare" /\ KeyShare(<<table, u>>).row[1] = table
        /\ Update(<<table, u>>).mode = "noKeyUpdate" /\ Update(<<table, u>>).row[1] = table
    BY DEF KeyShare, Update
  <1> QED
    BY <1>1, <1>2 DEF Plain

\* An UPDATE of sessions or of nodes.
LEMMA PlainRows ==
  ASSUME NEW X \in SUBSET Session, NEW table \in {"session", "node"}
  PROVE  Plain({Update(<<table, s>>) : s \in X}, {table})
  <1>1. \A s \in X : Update(<<table, s>>) \in Lock
    BY RowTypes
  <1>2. \A s \in X : Update(<<table, s>>).mode = "noKeyUpdate" /\ Update(<<table, s>>).row[1] = table
    BY DEF Update
  <1> QED
    BY <1>1, <1>2 DEF Plain

\* The foreign keys of a node, and what a publication writes.
LEMMA PlainKeys ==
  ASSUME NEW u \in User, NEW s \in Session
  PROVE  /\ Plain({KeyShare(<<"deployment">>), KeyShare(<<"user", u>>), KeyShare(<<"session", s>>)},
                  {"deployment", "user", "session"})
         /\ Plain({Update(<<"agent", u>>), KeyShare(<<"user", u>>)}, {"agent", "user"})
  <1>1. /\ KeyShare(<<"deployment">>) \in Lock /\ KeyShare(<<"user", u>>) \in Lock
        /\ KeyShare(<<"session", s>>) \in Lock /\ Update(<<"agent", u>>) \in Lock
    BY RowTypes
  <1>2. /\ KeyShare(<<"deployment">>).mode = "keyShare" /\ KeyShare(<<"deployment">>).row[1] = "deployment"
        /\ KeyShare(<<"user", u>>).mode = "keyShare" /\ KeyShare(<<"user", u>>).row[1] = "user"
        /\ KeyShare(<<"session", s>>).mode = "keyShare" /\ KeyShare(<<"session", s>>).row[1] = "session"
        /\ Update(<<"agent", u>>).mode = "noKeyUpdate" /\ Update(<<"agent", u>>).row[1] = "agent"
    BY DEF KeyShare, Update
  <1> QED
    BY <1>1, <1>2 DEF Plain

\* What a statement of such a transaction may ask for, by its kind, its user and
\* the position it is started from.
MayAsk(kind, u, p, S) ==
  /\ kind \in Identity /\ p = 0 => S = {Control}
  /\ kind = "publish" /\ p = 0 => S = {Deployment}
  /\ kind = "publish" /\ p >= 1 => S = {Update(<<"agent", u>>), KeyShare(<<"user", u>>)}
  /\ kind = "remove" /\ p = 1 => S = {Deployment}
  /\ \/ S = {Control} /\ p = 0
     \/ S = {Deployment} /\ kind # "leave"
     \/ Plain(S, {"member", "user", "orgMember", "credential", "session", "deployment"})
          /\ (kind = "leave" => p = 1) /\ kind \in Identity
     \/ S = {Update(<<"agent", u>>)} /\ kind \in {"remove", "leave"} /\ p >= 2
     \/ Plain(S, {"node"}) /\ kind \in Identity
     \/ kind = "publish" /\ p >= 1

\* Locks on rows of some tables are locks on rows of more tables.
LEMMA Wider ==
  ASSUME NEW S, NEW A, NEW B, Plain(S, A), A \subseteq B
  PROVE  Plain(S, B)
  BY DEF Plain

\* An identity write may ask for plain locks on one table.
LEMMA PlainAsk ==
  ASSUME NEW kind \in Identity, NEW u, NEW p \in Nat, p >= 1, NEW S, NEW table,
         Plain(S, {table}), kind = "leave" => p = 1 \/ table = "node", kind = "remove" => p # 1,
         table \in {"member", "user", "orgMember", "credential", "session", "node"}
  PROVE  MayAsk(kind, u, p, S)
  <1>1. CASE table = "node"
    BY <1>1 DEF MayAsk, Identity
  <1>2. CASE table # "node"
    <2>1. Plain(S, {"member", "user", "orgMember", "credential", "session", "deployment"})
      BY <1>2, Wider
    <2> QED
      BY <1>2, <2>1 DEF MayAsk, Identity
  <1> QED
    BY <1>1, <1>2

\* The first two statements may lock control_state and then the deployment.
LEMMA FirstAsk ==
  ASSUME NEW kind \in Identity, NEW u, NEW p \in Nat, NEW S,
         \/ p = 0 /\ S = {Control}
         \/ p = 1 /\ S = {Deployment} /\ kind # "leave"
  PROVE  MayAsk(kind, u, p, S)
  BY DEF MayAsk, Identity

\* A statement on one row of a table whose rows belong to users.
LEMMA RowAsk ==
  ASSUME NEW kind \in Identity, NEW u, NEW o \in User, NEW p \in Nat, p >= 1, NEW table,
         kind = "leave" => p = 1, kind = "remove" => p # 1,
         table \in {"member", "user", "orgMember", "credential"},
         NEW S, S = {Update(<<table, o>>)} \/ S = {KeyShare(<<table, o>>)}
  PROVE  MayAsk(kind, u, p, S)
  <1>1. Plain(S, {table})
    BY PlainRow
  <1> QED
    BY <1>1, PlainAsk

\* A statement on sessions or nodes.
LEMMA RowsAsk ==
  ASSUME NEW kind \in Identity, NEW u, NEW p \in Nat, p >= 1, kind = "remove" => p # 1, NEW S,
         \/ Plain(S, {"session"}) /\ kind # "leave"
         \/ Plain(S, {"node"})
  PROVE  MayAsk(kind, u, p, S)
  <1>1. CASE Plain(S, {"node"})
    BY <1>1, PlainAsk
  <1>2. CASE Plain(S, {"session"}) /\ kind # "leave"
    BY <1>2, PlainAsk
  <1> QED
    BY <1>1, <1>2

\* The statement on the agents of a member that leaves or is removed.
LEMMA AgentAsk ==
  ASSUME NEW kind \in {"remove", "leave"}, NEW u, NEW p \in Nat, p >= 2,
         NEW S, S = {Update(<<"agent", u>>)}
  PROVE  MayAsk(kind, u, p, S)
  BY DEF MayAsk, Identity

\* What may be asked for are locks.
LEMMA AsksForLocks ==
  ASSUME NEW kind \in Kind, kind # "login", NEW u \in User, NEW p \in Nat, NEW S, MayAsk(kind, u, p, S)
  PROVE  S \subseteq Lock
  <1>1. Control \in Lock /\ Deployment \in Lock /\ Update(<<"agent", u>>) \in Lock
        /\ KeyShare(<<"user", u>>) \in Lock
    BY RowTypes
  <1> QED
    BY <1>1 DEF MayAsk, Plain

\* What may be asked for has the shape that LockMayBe wants.
LEMMA AskedShape ==
  ASSUME NEW kind, kind # "login", NEW u, NEW p \in Nat, NEW S, MayAsk(kind, u, p, S), NEW k \in S
  PROVE  /\ k.mode = "update" => k \in {Control, Deployment}
         /\ k.row[1] = "agent" => /\ k = Update(<<"agent", u>>)
                                  /\ \/ kind = "publish" /\ p >= 1
                                     \/ kind \in {"remove", "leave"} /\ p >= 2
         /\ k.row[1] = "node" => kind \in Identity
         /\ kind = "publish" /\ p >= 1 =>
              \/ k.row[1] \in {"deployment", "agent"}
              \/ k.row[1] = "user" /\ k.mode = "keyShare"
  <1>1. /\ Control.row[1] = "control" /\ Deployment.row[1] = "deployment"
        /\ Update(<<"agent", u>>).row[1] = "agent" /\ Update(<<"agent", u>>).mode = "noKeyUpdate"
        /\ KeyShare(<<"user", u>>).row[1] = "user" /\ KeyShare(<<"user", u>>).mode = "keyShare"
    BY DEF Control, Deployment, Delete, Update, KeyShare
  <1>2. CASE kind = "publish" /\ p >= 1
    BY <1>1, <1>2 DEF MayAsk, Identity
  <1>3. CASE kind = "publish" /\ p = 0
    BY <1>1, <1>3 DEF MayAsk
  <1>4. CASE kind # "publish"
    <2>1. CASE S = {Control} /\ p = 0
      BY <1>1, <1>4, <2>1
    <2>2. CASE S = {Deployment} /\ kind # "leave"
      BY <1>1, <1>4, <2>2
    <2>3. CASE Plain(S, {"member", "user", "orgMember", "credential", "session", "deployment"})
               /\ (kind = "leave" => p = 1)
      BY <1>4, <2>3 DEF Plain
    <2>4. CASE S = {Update(<<"agent", u>>)} /\ kind \in {"remove", "leave"} /\ p >= 2
      BY <1>1, <1>4, <2>4
    <2>5. CASE Plain(S, {"node"}) /\ kind \in Identity
      BY <1>4, <2>5 DEF Plain
    <2> QED
      BY <1>4, <2>1, <2>2, <2>3, <2>4, <2>5 DEF MayAsk
  <1> QED
    BY <1>2, <1>3, <1>4

\* After its first two statements a member that leaves touches agents and nodes
\* only.
LEMMA LeaveAsks ==
  ASSUME NEW u, NEW p \in Nat, p >= 2, NEW S, MayAsk("leave", u, p, S)
  PROVE  \A k \in S : k.row[1] \in {"agent", "node"}
  <1>1. Update(<<"agent", u>>).row[1] = "agent"
    BY DEF Update
  <1> QED
    BY <1>1 DEF MayAsk, Plain

\* Every statement of every kind but the login asks for something that it may
\* ask for.
LEMMA StatementsAsk ==
  ASSUME RowLocksTyped, NEW t \in Txn, Active(t), Begun(t), tx[t].kind # "login",
         tx[t].pos < Len(Program(t))
  PROVE  MayAsk(tx[t].kind, tx[t].user, tx[t].pos, Program(t)[tx[t].pos + 1])
  <1>1. PICK u \in User : u = tx[t].user
    BY DEF Begun
  <1>2. PICK p \in Nat : p = tx[t].pos
    BY DEF RowLocksTyped, TxState
  <1>3. PICK prog : prog = Program(t)
    OBVIOUS
  <1>4. lockControlState = {Control} /\ lockDeployment = {Deployment}
    BY DEF lockControlState, lockDeployment, Control, Deployment
  <1>5. PICK kind : kind = tx[t].kind
    OBVIOUS
  <1>6. PICK S : S = prog[p + 1]
    OBVIOUS
  <1>7. p < Len(prog)
    BY <1>2, <1>3
  <1>8. PICK X \in SUBSET Session, Y \in SUBSET Session : X = UserSessions(u) /\ Y = UserNodes(u)
    BY DEF UserSessions, UserNodes
  <1>10. PICK sessions, nodes :
           /\ sessions = {Update(<<"session", s>>) : s \in X}
           /\ nodes = {Update(<<"node", s>>) : s \in Y}
    OBVIOUS
  <1>11. /\ sessions = {Update(<<"session", s>>) : s \in UserSessions(u)}
         /\ nodes = {Update(<<"node", s>>) : s \in UserNodes(u)}
    BY <1>8, <1>10
  <1>12. Plain(sessions, {"session"}) /\ Plain(nodes, {"node"})
    BY <1>10, PlainRows
  <1>9. MayAsk(kind, u, p, S)
    <2>1. CASE kind = "suspend"
      <3>1. prog = UpdateDeploymentMember(u)
        BY <1>1, <1>3, <1>5, <2>1 DEF Program
      <3>2. p \in 0 .. 4
        BY <1>7, <3>1 DEF UpdateDeploymentMember
      <3>3. \/ p = 0 /\ S = {Control}
            \/ p = 1 /\ S = {Deployment}
            \/ p = 2 /\ S = {Update(<<"member", u>>)}
            \/ p = 3 /\ S = {Update(<<"user", u>>)}
            \/ p = 4 /\ S = sessions
        <4>2. /\ prog[1] = {Control}
              /\ prog[2] = {Deployment}
              /\ prog[3] = {Update(<<"member", u>>)}
              /\ prog[4] = {Update(<<"user", u>>)}
              /\ prog[5] = sessions
          BY <1>4, <1>11, <3>1 DEF UpdateDeploymentMember
        <4>3. p = 0 \/ p = 1 \/ p = 2 \/ p = 3 \/ p = 4
          BY <3>2
        <4> QED
          BY <1>6, <4>2, <4>3
      <3>4. kind \in Identity /\ kind \notin {"leave", "remove"}
        BY <2>1 DEF Identity
      <3> QED
        <4>1. CASE p = 0
          BY <3>3, <3>4, <4>1, FirstAsk
        <4>2. CASE p = 1
          BY <3>3, <3>4, <4>2, FirstAsk
        <4>3. CASE p = 2
          BY <3>3, <3>4, <4>3, RowAsk
        <4>4. CASE p = 3
          BY <3>3, <3>4, <4>4, RowAsk
        <4>5. CASE p = 4
          BY <3>3, <3>4, <4>5, <1>12, RowsAsk
        <4> QED
          BY <3>3, <4>1, <4>2, <4>3, <4>4, <4>5
    <2>2. CASE kind = "remove"
      <3>1. prog = UpdateMember(u)
        BY <1>1, <1>3, <1>5, <2>2 DEF Program
      <3>0. Len(prog) = 7
        BY <3>1, UpdateMemberIs
      <3>2. p \in 0 .. 6
        BY <1>7, <3>0
      <3>3. \/ p = 0 /\ S = {Control}
            \/ p = 1 /\ S = {Deployment}
            \/ p \in {2, 4} /\ S = {Update(<<"orgMember", u>>)}
            \/ p = 3 /\ S = {Update(<<"user", u>>)}
            \/ p = 5 /\ S = {Update(<<"agent", u>>)}
            \/ p = 6 /\ S = nodes
        BY <1>4, <1>6, <1>11, <3>1, <3>2, UpdateMemberIs
      <3>4. kind \in Identity /\ kind \in {"remove", "leave"} /\ kind # "leave"
        BY <2>2 DEF Identity
      <3> QED
        <4>1. CASE p = 0
          BY <3>3, <3>4, <4>1, FirstAsk
        <4>2. CASE p = 1
          BY <3>3, <3>4, <4>2, FirstAsk
        <4>3. CASE p \in {2, 3, 4}
          BY <3>3, <3>4, <4>3, RowAsk
        <4>4. CASE p = 5
          BY <3>3, <3>4, <4>4, <2>2, AgentAsk
        <4>5. CASE p = 6
          BY <3>3, <3>4, <4>5, <1>12, RowsAsk
        <4> QED
          BY <3>3, <4>1, <4>2, <4>3, <4>4, <4>5
    <2>3. CASE kind = "leave"
      <3>1. prog = ChangeOrganization(u)
        BY <1>1, <1>3, <1>5, <2>3 DEF Program
      <3>0. Len(prog) = 4
        BY <3>1, ChangeOrganizationIs
      <3>2. p \in 0 .. 3
        BY <1>7, <3>0
      <3>3. \/ p = 0 /\ S = {Control}
            \/ p = 1 /\ S = {Update(<<"orgMember", u>>)}
            \/ p = 2 /\ S = {Update(<<"agent", u>>)}
            \/ p = 3 /\ S = nodes
        BY <1>4, <1>6, <1>11, <3>1, <3>2, ChangeOrganizationIs
      <3>4. kind \in Identity /\ kind \in {"remove", "leave"} /\ kind # "remove"
        BY <2>3 DEF Identity
      <3> QED
        <4>1. CASE p = 0
          BY <3>3, <3>4, <4>1, FirstAsk
        <4>2. CASE p = 1
          BY <3>3, <3>4, <4>2, RowAsk
        <4>3. CASE p = 2
          BY <3>3, <3>4, <4>3, <2>3, AgentAsk
        <4>4. CASE p = 3
          BY <3>3, <3>4, <4>4, <1>12, RowsAsk
        <4> QED
          BY <3>3, <4>1, <4>2, <4>3, <4>4
    <2>4. CASE kind = "logout"
      <3>1. PICK s \in Session : s = tx[t].arg
        BY <1>5, <2>4 DEF Begun
      <3>2. prog = RevokeSession(s)
        BY <1>3, <1>5, <2>4, <3>1 DEF Program
      <3>3. p \in 0 .. 1
        BY <1>7, <3>2 DEF RevokeSession
      <3>5. PICK asked : asked = {Update(<<"session", s>>)}
        OBVIOUS
      <3>4. \/ p = 0 /\ S = {Control}
            \/ p = 1 /\ S = asked
        BY <1>4, <1>6, <3>2, <3>3, <3>5 DEF RevokeSession
      <3>6. Plain(asked, {"session"})
        <4>1. PICK Z \in SUBSET Session : Z = {s}
          OBVIOUS
        <4>2. asked = {Update(<<"session", x>>) : x \in Z}
          BY <3>5, <4>1
        <4> QED
          BY <4>2, PlainRows
      <3> QED
        <4>1. kind \in Identity /\ kind \notin {"leave", "remove"}
          BY <2>4 DEF Identity
        <4> QED
          <5>1. CASE p = 0
            BY <3>4, <4>1, <5>1, FirstAsk
          <5>2. CASE p = 1
            BY <3>4, <3>6, <4>1, <5>2, RowsAsk
          <5> QED
            BY <3>4, <5>1, <5>2
    <2>5. CASE kind = "register"
      <3>1. PICK s \in Session : s = tx[t].arg
        BY <1>5, <2>5 DEF Begun
      <3>2. prog = RegisterNode(s)
        BY <1>3, <1>5, <2>5, <3>1 DEF Program
      <3>3. p \in 0 .. 1
        BY <1>7, <3>2 DEF RegisterNode
      <3>4. PICK o \in User : o = Owner[s]
        BY RowLocksAssumption
      <3>5. \/ p = 0 /\ S = {Control}
            \/ p = 1 /\ S = {KeyShare(<<"deployment">>), KeyShare(<<"user", o>>), KeyShare(<<"session", s>>)}
        BY <1>4, <1>6, <3>2, <3>3, <3>4 DEF RegisterNode
      <3>6. CASE p = 0 /\ S = {Control}
        BY <2>5, <3>6, FirstAsk DEF Identity
      <3>7. CASE p = 1 /\ S = {KeyShare(<<"deployment">>), KeyShare(<<"user", o>>), KeyShare(<<"session", s>>)}
        <4>1. Plain(S, {"deployment", "user", "session"})
          BY <3>7, PlainKeys
        <4>2. Plain(S, {"member", "user", "orgMember", "credential", "session", "deployment"})
          BY <4>1, Wider
        <4> QED
          BY <2>5, <3>7, <4>2 DEF MayAsk, Identity
      <3> QED
        BY <3>5, <3>6, <3>7
    <2>6. CASE kind = "publish"
      <3>1. prog = UpsertOwnedAgent(u)
        BY <1>1, <1>3, <1>5, <2>6 DEF Program
      <3>2. p \in 0 .. 1
        BY <1>7, <3>1 DEF UpsertOwnedAgent
      <3>3. \/ p = 0 /\ S = {Deployment}
            \/ p = 1 /\ S = {Update(<<"agent", u>>), KeyShare(<<"user", u>>)}
        BY <1>4, <1>6, <3>1, <3>2 DEF UpsertOwnedAgent
      <3> QED
        BY <2>6, <3>3 DEF MayAsk, Identity
    <2>7. CASE kind = "password"
      <3>1. prog = TryCommitPasswordChange(u)
        BY <1>1, <1>3, <1>5, <2>7 DEF Program
      <3>2. p \in 0 .. 3
        BY <1>7, <3>1 DEF TryCommitPasswordChange
      <3>3. \/ p = 0 /\ S = {Control}
            \/ p = 1 /\ S = {KeyShare(<<"user", u>>)}
            \/ p = 2 /\ S = {Update(<<"credential", u>>)}
            \/ p = 3 /\ S = nodes
        <4>2. /\ prog[1] = {Control}
              /\ prog[2] = {KeyShare(<<"user", u>>)}
              /\ prog[3] = {Update(<<"credential", u>>)}
              /\ prog[4] = nodes
          BY <1>4, <1>11, <3>1 DEF TryCommitPasswordChange
        <4>3. p = 0 \/ p = 1 \/ p = 2 \/ p = 3
          BY <3>2
        <4> QED
          BY <1>6, <4>2, <4>3
      <3>4. kind \in Identity /\ kind \notin {"leave", "remove"}
        BY <2>7 DEF Identity
      <3> QED
        <4>1. CASE p = 0
          BY <3>3, <3>4, <4>1, FirstAsk
        <4>2. CASE p = 1
          BY <3>3, <3>4, <4>2, RowAsk
        <4>3. CASE p = 2
          BY <3>3, <3>4, <4>3, RowAsk
        <4>4. CASE p = 3
          BY <3>3, <3>4, <4>4, <1>12, RowsAsk
        <4> QED
          BY <3>3, <4>1, <4>2, <4>3, <4>4
    <2> QED
      BY <1>5, <2>1, <2>2, <2>3, <2>4, <2>5, <2>6, <2>7 DEF Active, Kind
  <1> QED
    BY <1>1, <1>2, <1>3, <1>5, <1>6, <1>9

-----------------------------------------------------------------------------
(* The statements of a login. *)

\* A login asks for sessions in its DELETE only, of those without a live node,
\* and for nodes in the cascade only, of sessions it has deleted.
LEMMA LoginAsks ==
  ASSUME RowLocksTyped, NEW t \in Txn, Active(t), Begun(t), tx[t].kind = "login",
         tx[t].pos < Len(Program(t)), NEW S, S = Program(t)[tx[t].pos + 1]
  PROVE  /\ S \subseteq Lock
         /\ \A k \in S, s \in Session :
              /\ k.row = <<"session", s>> => tx[t].pos = 0 /\ node[s] # "live"
              /\ k.row = <<"node", s>> => tx[t].pos >= 1 /\ s \in Written(t, "session")
  <1>1. PICK u \in User : u = tx[t].user
    BY DEF Begun
  <1>2. PICK p \in Nat : p = tx[t].pos
    BY DEF RowLocksTyped, TxState
  <1>3. PICK prog : prog = Program(t)
    OBVIOUS
  <1>4. PICK X \in SUBSET Session, Y \in SUBSET Session : X = Sweep(t) /\ Y = Cascade(t)
    BY DEF Sweep, Cascade, Written
  <1>5. PICK swept, cascaded : /\ swept = {Delete(<<"session", s>>) : s \in X}
                               /\ cascaded = {Delete(<<"node", s>>) : s \in Y}
    OBVIOUS
  <1>6. prog = CreateSession(t, u)
    BY <1>1, <1>3 DEF Program
  <1>7. /\ Len(prog) = 4
        /\ prog[1] = swept /\ prog[2] = cascaded
        /\ prog[3] = {KeyShare(<<"member", u>>)} /\ prog[4] = {Update(<<"user", u>>)}
    BY <1>4, <1>5, <1>6 DEF CreateSession
  <1>8. p = 0 \/ p = 1 \/ p = 2 \/ p = 3
    BY <1>2, <1>3, <1>7
  <1>9. S = prog[p + 1]
    BY <1>2, <1>3
  <1>10. CASE p = 0
    <2>1. S = swept
      BY <1>7, <1>9, <1>10
    <2>2. \A s \in X : Delete(<<"session", s>>) \in Lock /\ node[s] # "live"
      BY <1>4, RowTypes DEF Sweep
    <2>3. \A k \in S : \E s \in X : k \in Lock /\ k.row = <<"session", s>>
      BY <1>5, <2>1, <2>2 DEF Delete
    <2> SUFFICES ASSUME NEW k \in S
                 PROVE  /\ k \in Lock
                        /\ \A s \in Session : k.row = <<"session", s>> => node[s] # "live"
                        /\ \A s \in Session : k.row # <<"node", s>>
      BY <1>2, <1>10
    <2>4. PICK x \in X : k \in Lock /\ k.row = <<"session", x>>
      BY <2>3
    <2>5. \A s \in Session : (k.row = <<"session", s>> => s = x) /\ k.row # <<"node", s>>
      BY <2>4
    <2> QED
      BY <2>2, <2>4, <2>5
  <1>11. CASE p = 1
    <2>1. S = cascaded
      BY <1>7, <1>9, <1>11
    <2>2. \A s \in Y : Delete(<<"node", s>>) \in Lock /\ s \in Written(t, "session")
      BY <1>4, RowTypes DEF Cascade
    <2>3. \A k \in S : \E s \in Y : k \in Lock /\ k.row = <<"node", s>>
      BY <1>5, <2>1, <2>2 DEF Delete
    <2> SUFFICES ASSUME NEW k \in S
                 PROVE  /\ k \in Lock
                        /\ \A s \in Session : k.row = <<"node", s>> => s \in Written(t, "session")
                        /\ \A s \in Session : k.row # <<"session", s>>
      BY <1>2, <1>11
    <2>4. PICK x \in Y : k \in Lock /\ k.row = <<"node", x>>
      BY <2>3
    <2>5. \A s \in Session : (k.row = <<"node", s>> => s = x) /\ k.row # <<"session", s>>
      BY <2>4
    <2> QED
      BY <2>2, <2>4, <2>5
  <1>12. CASE p = 2
    <2>1. S = {KeyShare(<<"member", u>>)}
      BY <1>7, <1>9, <1>12
    <2>2. KeyShare(<<"member", u>>) \in Lock /\ KeyShare(<<"member", u>>).row = <<"member", u>>
      BY RowTypes DEF KeyShare
    <2> QED
      BY <2>1, <2>2
  <1>13. CASE p = 3
    <2>1. S = {Update(<<"user", u>>)}
      BY <1>7, <1>9, <1>13
    <2>2. Update(<<"user", u>>) \in Lock /\ Update(<<"user", u>>).row = <<"user", u>>
      BY RowTypes DEF Update
    <2> QED
      BY <2>1, <2>2
  <1> QED
    BY <1>8, <1>10, <1>11, <1>12, <1>13

-----------------------------------------------------------------------------
(* The steps. *)

\* The step is one of t.
Others(t) ==
  \A q \in Txn \ {t} : tx'[q] = tx[q] /\ held'[q] = held[q]

\* A step of one transaction that takes free locks keeps the invariant if it
\* keeps what holds of that transaction.
LEMMA OnlyOne ==
  ASSUME RowLocksInvariant, NEW t \in Txn, Others(t), RowLocksTyped', TxOK(t)',
         \A k \in held'[t] : k \in held[t] \/ Free(t, k)
  PROVE  RowLocksInvariant'
  <1>1. ASSUME NEW q \in Txn, q # t
        PROVE  TxOK(q)'
    <2>1. tx'[q] = tx[q] /\ held'[q] = held[q]
      BY <1>1 DEF Others
    <2>2. Begun(q)'
      BY <2>1 DEF RowLocksInvariant, TxOK, Begun, Active, Asked
    <2>3. ControlFirst(q)' /\ DeploymentBeforeAgents(q)'
      BY <2>1 DEF RowLocksInvariant, TxOK, ControlFirst, DeploymentBeforeAgents, LockedFirst, Asked
    <2>4. ShapesOK(q)'
      BY <2>1 DEF RowLocksInvariant, TxOK, ShapesOK, LockMayBe, Asked
    <2>5. CleanupSpares(q)'
      BY <2>1 DEF RowLocksInvariant, TxOK, CleanupSpares, Asked
    <2> QED
      BY <2>2, <2>3, <2>4, <2>5 DEF TxOK
  <1>2. \A q \in Txn \ {t} : \A k \in held'[t] : ~Blocks(q, k)
    BY DEF Free, RowLocksInvariant, LocksAreCompatible
  <1>3. \A q \in Txn \ {t} : \A k \in held'[t] : \A h \in held[q] :
          ~(h.row = k.row /\ (Conflict(h.mode, k.mode) \/ Conflict(k.mode, h.mode)))
    BY <1>2 DEF Blocks, Conflict
  <1>4. LocksAreCompatible'
    <2> SUFFICES ASSUME NEW p \in Txn, NEW q \in Txn, p # q, NEW k \in held'[p], NEW h \in held'[q],
                        h.row = k.row, Conflict(h.mode, k.mode)
                 PROVE  FALSE
      BY DEF LocksAreCompatible, Blocks
    <2>1. CASE p = t
      BY <1>3, <2>1 DEF Others
    <2>2. CASE q = t
      BY <1>3, <2>2 DEF Others
    <2>3. CASE p # t /\ q # t
      BY <2>3 DEF Others, RowLocksInvariant, LocksAreCompatible, Blocks
    <2> QED
      BY <2>1, <2>2, <2>3
  <1> QED
    BY <1>1, <1>4 DEF RowLocksInvariant

\* A transaction that ends gives its locks back, whatever it commits.
LEMMA EndKeeps ==
  ASSUME RowLocksInvariant, NEW t \in Txn, End(t),
         sess' \in [Session -> {"live", "expired", "revoked", "gone"}],
         node' \in [Session -> {"none", "live", "revoked"}]
  PROVE  RowLocksInvariant'
  <1>1. PICK ended : ended = [NewTxn EXCEPT !.kind = "done"]
    OBVIOUS
  <1>2. /\ ended \in TxState /\ ended.kind = "done" /\ ended.want = {} /\ ended.wait = None
    BY <1>1 DEF NewTxn, TxState
  <1>3. tx \in [Txn -> TxState] /\ held \in [Txn -> SUBSET Lock]
    BY DEF RowLocksInvariant, RowLocksTyped
  <1>4. tx' = [tx EXCEPT ![t] = ended] /\ held' = [held EXCEPT ![t] = {}]
    BY <1>1 DEF End
  <1>5. Others(t) /\ tx'[t] = ended /\ held'[t] = {} /\ RowLocksTyped'
    BY <1>2, <1>3, <1>4 DEF Others, RowLocksTyped
  <1>6. TxOK(t)'
    BY <1>2, <1>5 DEF TxOK, Begun, Active, Kind, Asked, ControlFirst, DeploymentBeforeAgents, ShapesOK,
       CleanupSpares, Identity
  <1> QED
    BY <1>5, <1>6, OnlyOne

\* What beginning does to a transaction.
Began(t, k) ==
  /\ tx' \in [Txn -> TxState] /\ \A q \in Txn \ {t} : tx'[q] = tx[q]
  /\ tx'[t].kind = k /\ tx'[t].user \in User /\ tx'[t].pos = 0 /\ tx'[t].want = {}
  /\ tx'[t].wait = None /\ (k \in {"logout", "register"} => tx'[t].arg \in Session)

\* A transaction begins.
LEMMA BeginKeeps ==
  ASSUME RowLocksInvariant, NEW t \in Txn, NEW k \in Kinds,
         \/ \E u \in User : BeginForUser(t, k, u)
         \/ \E s \in Session : BeginForSession(t, k, s)
  PROVE  RowLocksInvariant'
  <1>1. tx \in [Txn -> TxState] /\ held \in [Txn -> SUBSET Lock]
    BY DEF RowLocksInvariant, RowLocksTyped
  <1>2. k \in Kind /\ tx[t].kind = "new" /\ sess' = sess /\ node' = node /\ held' = held
    BY RowLocksAssumption DEF Kind, BeginForUser, BeginForSession
  <1>3. held[t] = {} /\ tx[t].want = {} /\ tx[t].wait = None /\ tx[t].pos = 0
    BY <1>2 DEF RowLocksInvariant, TxOK, Begun, Active, Kind
  <1>4. tx[t] \in TxState
    BY <1>1
  <1>5. ASSUME NEW u \in User, BeginForUser(t, k, u)
        PROVE  Began(t, k)
    <2>1. PICK due \in SUBSET Session :
            due = IF k = "login" THEN {s \in Session : sess[s] = "expired"} ELSE {}
      OBVIOUS
    <2>2. tx' = [tx EXCEPT ![t].kind = k, ![t].user = u, ![t].overdue = due] /\ k \notin {"logout", "register"}
      BY <1>5, <2>1 DEF BeginForUser
    <2>3. PICK begun : begun = [tx[t] EXCEPT !.kind = k, !.user = u, !.overdue = due]
      OBVIOUS
    <2>4. /\ begun \in TxState /\ begun.kind = k /\ begun.user = u /\ begun.pos = tx[t].pos
          /\ begun.want = tx[t].want /\ begun.wait = tx[t].wait
      BY <1>2, <1>4, <2>3 DEF TxState
    <2>5. tx' = [tx EXCEPT ![t] = begun]
      BY <1>1, <2>2, <2>3
    <2>6. \A q \in Txn \ {t} : tx'[q] = tx[q]
      BY <1>1, <2>5
    <2>7. tx'[t] = begun /\ tx' \in [Txn -> TxState]
      BY <1>1, <2>4, <2>5
    <2> QED
      BY <1>3, <2>2, <2>4, <2>6, <2>7 DEF Began
  <1>6. ASSUME NEW s \in Session, BeginForSession(t, k, s)
        PROVE  Began(t, k)
    <2>1. PICK u \in User : u = Owner[s]
      BY RowLocksAssumption
    <2>2. tx' = [tx EXCEPT ![t].kind = k, ![t].user = u, ![t].arg = s]
      BY <1>6, <2>1 DEF BeginForSession
    <2>3. PICK begun : begun = [tx[t] EXCEPT !.kind = k, !.user = u, !.arg = s]
      OBVIOUS
    <2>4. /\ begun \in TxState /\ begun.kind = k /\ begun.user = u /\ begun.arg = s
          /\ begun.pos = tx[t].pos /\ begun.want = tx[t].want /\ begun.wait = tx[t].wait
      BY <1>2, <1>4, <2>3 DEF TxState
    <2>5. tx' = [tx EXCEPT ![t] = begun]
      BY <1>1, <2>2, <2>3
    <2> QED
      BY <1>1, <1>3, <2>4, <2>5 DEF Began
  <1>7. Began(t, k)
    BY <1>5, <1>6
  <1>8. RowLocksTyped' /\ Others(t) /\ held'[t] = {}
    BY <1>2, <1>3, <1>7 DEF RowLocksInvariant, RowLocksTyped, Others, Began
  <1>9. TxOK(t)'
    <2>1. Begun(t)'
      BY <1>2, <1>7, <1>8 DEF Began, Begun, Active, Asked, Kind
    <2>2. ControlFirst(t)' /\ DeploymentBeforeAgents(t)'
      BY <1>7 DEF Began, ControlFirst, DeploymentBeforeAgents, LockedFirst
    <2>3. ShapesOK(t)' /\ CleanupSpares(t)'
      BY <1>7, <1>8 DEF Began, ShapesOK, CleanupSpares, Asked
    <2> QED
      BY <2>1, <2>2, <2>3 DEF TxOK
  <1> QED
    BY <1>8, <1>9, OnlyOne

\* The next statement of a transaction: it may ask for what it asks for.
LEMMA StartStatementKeeps ==
  ASSUME RowLocksInvariant, NEW t \in Txn, StartStatement(t)
  PROVE  RowLocksInvariant'
  <1>1. tx \in [Txn -> TxState] /\ held \in [Txn -> SUBSET Lock] /\ RowLocksTyped /\ TxOK(t)
    BY DEF RowLocksInvariant, RowLocksTyped
  <1>2. /\ Active(t) /\ tx[t].want = {} /\ tx[t].wait = None /\ tx[t].pos < Len(Program(t))
        /\ sess' = sess /\ node' = node /\ held' = held
    BY DEF StartStatement, AtEndOfStatement
  <1>3. PICK S, next, known :
          /\ S = Program(t)[tx[t].pos + 1] /\ next = tx[t].pos + 1
          /\ known = IF tx[t].kind = "login" /\ tx[t].pos = 0
                     THEN {s \in Session : node[s] = "live"} ELSE tx[t].known
    OBVIOUS
  <1>4. S \subseteq Lock
    <2>1. CASE tx[t].kind = "login"
      BY <1>1, <1>2, <1>3, <2>1, LoginAsks DEF TxOK
    <2>2. CASE tx[t].kind # "login"
      <3>1. PICK kind, u, p : kind = tx[t].kind /\ u = tx[t].user /\ p = tx[t].pos
        OBVIOUS
      <3>2. kind \in Kind /\ kind # "login" /\ u \in User /\ p \in Nat
        BY <1>1, <1>2, <2>2, <3>1 DEF Active, TxOK, Begun, TxState
      <3>3. MayAsk(kind, u, p, S)
        BY <1>1, <1>2, <1>3, <2>2, <3>1, StatementsAsk DEF TxOK
      <3> QED
        BY <3>2, <3>3, AsksForLocks
    <2> QED
      BY <2>1, <2>2
  <1>5. tx' = [tx EXCEPT ![t].pos = next, ![t].want = S, ![t].overdue = {}, ![t].known = known]
    BY <1>1, <1>3 DEF StartStatement
  <1>6. PICK begun : begun = [tx[t] EXCEPT !.pos = next, !.want = S, !.overdue = {}, !.known = known]
    OBVIOUS
  <1>7. tx[t] \in TxState /\ next \in Nat /\ known \in SUBSET Session
    BY <1>1, <1>3 DEF TxState
  <1>8. begun \in TxState
    BY <1>4, <1>6, <1>7 DEF TxState
  <1>9. /\ begun.pos = next /\ begun.want = S /\ begun.known = known /\ begun.kind = tx[t].kind
        /\ begun.wait = tx[t].wait /\ begun.user = tx[t].user /\ begun.arg = tx[t].arg
    BY <1>6, <1>7 DEF TxState
  <1>10. tx' = [tx EXCEPT ![t] = begun]
    BY <1>1, <1>5, <1>6
  <1>11. RowLocksTyped' /\ Others(t) /\ tx'[t] = begun /\ held'[t] = held[t]
    BY <1>1, <1>2, <1>8, <1>10 DEF RowLocksTyped, Others
  <1>12. PICK p \in Nat : p = tx[t].pos
    BY <1>7 DEF TxState
  <1>13. next = p + 1 /\ tx'[t].pos = p + 1 /\ tx'[t].want = S /\ tx'[t].kind = tx[t].kind
         /\ tx'[t].user = tx[t].user /\ tx'[t].arg = tx[t].arg /\ tx'[t].wait = None /\ tx'[t].known = known
    BY <1>2, <1>3, <1>9, <1>11, <1>12
  <1>14. Asked(t) = held[t] /\ Asked(t)' = S \union held[t]
    BY <1>2, <1>11, <1>13 DEF Asked
  <1>15. Begun(t)'
    BY <1>1, <1>2, <1>12, <1>13 DEF TxOK, Begun, Active, Kind
  <1>16. ASSUME tx[t].kind = "login"
         PROVE  TxOK(t)'
    <2>0. \A k \in S, s \in Session :
            /\ k.row = <<"session", s>> => p = 0 /\ node[s] # "live"
            /\ k.row = <<"node", s>> => p >= 1 /\ s \in Written(t, "session")
      BY <1>1, <1>2, <1>3, <1>12, <1>16, LoginAsks DEF TxOK
    <2>1. CleanupSpares(t)'
      <3>1. ASSUME p = 0, NEW k \in S \union held[t], NEW s \in Session,
                   k.row \in {<<"session", s>>, <<"node", s>>}
            PROVE  s \notin known
        <4>1. held[t] = {} /\ known = {x \in Session : node[x] = "live"}
          BY <1>1, <1>2, <1>3, <1>12, <1>16, <3>1 DEF TxOK, Begun, Asked
        <4> QED
          BY <2>0, <3>1, <4>1
      <3>2. ASSUME p # 0, NEW k \in S \union held[t], NEW s \in Session,
                   k.row \in {<<"session", s>>, <<"node", s>>}
            PROVE  s \notin known
        <4>1. known = tx[t].known /\ p >= 1
          BY <1>3, <1>12, <3>2
        <4>2. CASE k \in held[t]
          BY <1>1, <1>12, <1>14, <1>16, <3>2, <4>1, <4>2 DEF TxOK, CleanupSpares
        <4>3. CASE k \in S
          <5>1. s \in Written(t, "session")
            BY <2>0, <3>2, <4>3
          <5>2. PICK h \in held[t] : h.row = <<"session", s>>
            BY <5>1 DEF Written
          <5> QED
            BY <1>1, <1>12, <1>14, <1>16, <4>1, <5>2 DEF TxOK, CleanupSpares
        <4> QED
          BY <3>2, <4>2, <4>3
      <3> QED
        BY <1>13, <1>14, <3>1, <3>2 DEF CleanupSpares
    <2> QED
      BY <1>13, <1>15, <1>16, <2>1
         DEF TxOK, ControlFirst, DeploymentBeforeAgents, ShapesOK, Identity
  <1>17. ASSUME tx[t].kind # "login"
         PROVE  TxOK(t)'
    <2>1. PICK kind, u : kind = tx[t].kind /\ u = tx[t].user
      OBVIOUS
    <2>2. MayAsk(kind, u, p, S)
      BY <1>1, <1>2, <1>3, <1>12, <1>17, <2>1, StatementsAsk DEF TxOK
    <2>3. ControlFirst(t)'
      <3>1. CASE p = 0
        BY <1>1, <1>2, <1>12, <1>13, <1>14, <2>1, <2>2, <3>1
           DEF ControlFirst, LockedFirst, MayAsk, TxOK, Begun
      <3>2. CASE p >= 1
        BY <1>1, <1>12, <1>11, <1>13, <1>14, <3>2 DEF ControlFirst, LockedFirst, TxOK
      <3> QED
        BY <3>1, <3>2
    <2>4. DeploymentBeforeAgents(t)'
      <3>1. CASE p = 0
        BY <1>1, <1>2, <1>12, <1>13, <1>14, <2>1, <2>2, <3>1
           DEF DeploymentBeforeAgents, LockedFirst, MayAsk, TxOK, Begun
      <3>2. CASE p = 1
        BY <1>1, <1>12, <1>11, <1>13, <1>14, <2>1, <2>2, <3>2
           DEF DeploymentBeforeAgents, LockedFirst, MayAsk, TxOK
      <3>3. CASE p >= 2
        BY <1>1, <1>12, <1>11, <1>13, <1>14, <3>3 DEF DeploymentBeforeAgents, LockedFirst, TxOK
      <3> QED
        BY <3>1, <3>2, <3>3
    <2>5. ShapesOK(t)'
      <3>1. ASSUME NEW k \in held[t]
            PROVE  LockMayBe(t, k)'
        <4>1. LockMayBe(t, k)
          BY <1>1, <1>14, <1>17 DEF TxOK, ShapesOK
        <4>2. tx[t].kind = "publish" /\ p = 1 => k = Deployment
          BY <1>1, <1>12, <1>14 DEF TxOK, DeploymentBeforeAgents, LockedFirst
        <4>3. tx[t].kind = "publish" => p # 0
          BY <1>1, <1>2, <1>12, <1>14 DEF TxOK, Begun
        <4>4. Deployment.row[1] = "deployment"
          BY DEF Deployment, Delete
        <4> QED
          BY <1>12, <1>13, <4>1, <4>2, <4>3, <4>4 DEF LockMayBe
      <3>2. ASSUME NEW k \in S
            PROVE  LockMayBe(t, k)'
        <4>1. /\ k.mode = "update" => k \in {Control, Deployment}
              /\ k.row[1] = "agent" => /\ k = Update(<<"agent", u>>)
                                       /\ \/ kind = "publish" /\ p >= 1
                                          \/ kind \in {"remove", "leave"} /\ p >= 2
              /\ k.row[1] = "node" => kind \in Identity
              /\ kind = "publish" /\ p >= 1 =>
                   \/ k.row[1] \in {"deployment", "agent"}
                   \/ k.row[1] = "user" /\ k.mode = "keyShare"
          BY <1>12, <1>17, <2>1, <2>2, AskedShape
        <4> QED
          BY <1>13, <2>1, <4>1 DEF LockMayBe
      <3>3. ASSUME tx[t].kind = "leave", p >= 2, NEW k \in S
            PROVE  k.row[1] \in {"agent", "node"}
        <4>1. MayAsk("leave", u, p, S) /\ p \in Nat
          BY <1>12, <2>1, <2>2, <3>3
        <4> QED
          BY <3>3, <4>1, LeaveAsks
      <3>4. ASSUME tx[t].kind = "publish", p >= 1, NEW k \in S
            PROVE  k.row[1] \in {"agent", "user"}
        BY <2>1, <2>2, <3>4 DEF MayAsk, Update, KeyShare
      <3> QED
        BY <1>12, <1>13, <1>14, <3>1, <3>2, <3>3, <3>4 DEF ShapesOK
    <2>6. CleanupSpares(t)'
      BY <1>13, <1>17 DEF CleanupSpares
    <2> QED
      BY <1>15, <2>3, <2>4, <2>5, <2>6 DEF TxOK
  <1> QED
    BY <1>2, <1>11, <1>16, <1>17, OnlyOne

\* Rows change and no transaction does: none of the parts is about the rows.
LEMMA SameTransactions ==
  ASSUME RowLocksInvariant, tx' = tx, held' = held,
         sess' \in [Session -> {"live", "expired", "revoked", "gone"}],
         node' \in [Session -> {"none", "live", "revoked"}]
  PROVE  RowLocksInvariant'
  <1>1. RowLocksTyped' /\ LocksAreCompatible'
    BY DEF RowLocksInvariant, RowLocksTyped, LocksAreCompatible, Blocks
  <1>2. ASSUME NEW t \in Txn
        PROVE  TxOK(t)'
    BY DEF RowLocksInvariant, TxOK, Begun, Active, Asked, ControlFirst, DeploymentBeforeAgents, LockedFirst,
       ShapesOK, LockMayBe, CleanupSpares
  <1> QED
    BY <1>1, <1>2 DEF RowLocksInvariant

\* A transaction that takes some of what it has asked for, and loses neither
\* control_state nor the deployment, stays as it has to be.
LEMMA MoreHeld ==
  ASSUME NEW t \in Txn, TxOK(t), Active(t), tx[t].pos \in Nat,
         tx'[t].kind = tx[t].kind, tx'[t].user = tx[t].user, tx'[t].arg = tx[t].arg,
         tx'[t].pos = tx[t].pos, tx'[t].known = tx[t].known,
         tx'[t].want \subseteq tx[t].want, held'[t] \subseteq Asked(t), held[t] \subseteq held'[t],
         tx'[t].wait = None \/ tx'[t].wait \in tx'[t].want,
         \A k \in {Control, Deployment} : k \in Asked(t) => k \in tx'[t].want \union held'[t]
  PROVE  TxOK(t)'
  <1>1. Asked(t)' \subseteq Asked(t) /\ \A k \in {Control, Deployment} : k \in Asked(t) => k \in Asked(t)'
    BY DEF Asked
  <1>2. Begun(t)'
    BY <1>1 DEF TxOK, Begun, Active
  <1>3. ControlFirst(t)' /\ DeploymentBeforeAgents(t)'
    BY <1>1 DEF TxOK, ControlFirst, DeploymentBeforeAgents, LockedFirst
  <1>4. ShapesOK(t)'
    BY <1>1 DEF TxOK, ShapesOK, LockMayBe
  <1>5. CleanupSpares(t)'
    BY <1>1 DEF TxOK, CleanupSpares
  <1> QED
    BY <1>2, <1>3, <1>4, <1>5 DEF TxOK

\* A row is locked, or waited for, or found gone.  control_state and the
\* deployment row are always there.
LEMMA LockRowKeeps ==
  ASSUME RowLocksInvariant, NEW t \in Txn, LockRow(t)
  PROVE  RowLocksInvariant'
  <1>1. tx \in [Txn -> TxState] /\ held \in [Txn -> SUBSET Lock] /\ RowLocksTyped /\ TxOK(t)
    BY DEF RowLocksInvariant, RowLocksTyped
  <1>2. Active(t) /\ sess' = sess /\ node' = node
    BY DEF LockRow
  <1>3. tx[t] \in TxState /\ tx[t].want \subseteq Lock /\ tx[t].pos \in Nat
    BY <1>1 DEF TxState
  <1>4. PICK k \in tx[t].want :
          \/ Free(t, k) /\ Take(t, k)
          \/ End(t)
          \/ /\ ~Free(t, k) /\ tx[t].wait = None
             /\ tx' = [tx EXCEPT ![t].wait = k]
             /\ UNCHANGED held
    BY <1>1 DEF LockRow, TxOK, Begun
  <1>5. CASE End(t)
    BY <1>1, <1>2, <1>5, EndKeeps DEF RowLocksTyped
  <1>6. CASE tx' = [tx EXCEPT ![t].wait = k] /\ held' = held
    <2>1. PICK waiting : waiting = [tx[t] EXCEPT !.wait = k]
      OBVIOUS
    <2>2. /\ waiting \in TxState /\ waiting.wait = k /\ waiting.want = tx[t].want
          /\ waiting.kind = tx[t].kind /\ waiting.user = tx[t].user /\ waiting.arg = tx[t].arg
          /\ waiting.pos = tx[t].pos /\ waiting.known = tx[t].known
      BY <1>3, <2>1 DEF TxState
    <2>3. tx' = [tx EXCEPT ![t] = waiting]
      BY <1>1, <1>6, <2>1
    <2>4. RowLocksTyped' /\ Others(t) /\ tx'[t] = waiting /\ held'[t] = held[t]
      BY <1>1, <1>2, <1>6, <2>2, <2>3 DEF RowLocksTyped, Others
    <2>5. TxOK(t)'
      <3>1. /\ held'[t] \subseteq Asked(t) /\ tx'[t].wait \in tx'[t].want
            /\ \A x \in {Control, Deployment} : x \in Asked(t) => x \in tx'[t].want \union held'[t]
        BY <2>2, <2>4 DEF Asked
      <3> QED
        BY <1>1, <1>2, <1>3, <2>2, <2>4, <3>1, MoreHeld
    <2> QED
      BY <2>4, <2>5, OnlyOne
  <1>7. CASE Free(t, k) /\ Take(t, k)
    <2>1. PICK taken, mine : /\ taken = [tx[t] EXCEPT !.want = @ \ {k}, !.wait = None]
                             /\ mine = IF Matches(t, k.row) THEN held[t] \union {k} ELSE held[t]
      OBVIOUS
    <2>2. /\ taken \in TxState /\ taken.wait = None /\ taken.want = tx[t].want \ {k}
          /\ taken.kind = tx[t].kind /\ taken.user = tx[t].user /\ taken.arg = tx[t].arg
          /\ taken.pos = tx[t].pos /\ taken.known = tx[t].known
      BY <1>3, <2>1 DEF TxState
    <2>3. tx' = [tx EXCEPT ![t] = taken]
      BY <1>1, <1>7, <2>1 DEF Take
    <2>4. held' = [held EXCEPT ![t] = mine] /\ mine \subseteq Lock
      BY <1>1, <1>3, <1>7, <2>1 DEF Take
    <2>5. RowLocksTyped' /\ Others(t) /\ tx'[t] = taken /\ held'[t] = mine
      BY <1>1, <1>2, <2>2, <2>3, <2>4 DEF RowLocksTyped, Others
    <2>6. k \in {Control, Deployment} => k \in mine
      BY <2>1 DEF Matches, Control, Deployment, Delete
    <2>7. TxOK(t)'
      <3>1. /\ held'[t] \subseteq Asked(t) /\ held[t] \subseteq held'[t] /\ tx'[t].want \subseteq tx[t].want
            /\ \A x \in {Control, Deployment} : x \in Asked(t) => x \in tx'[t].want \union held'[t]
        BY <2>1, <2>2, <2>5, <2>6 DEF Asked
      <3> QED
        BY <1>1, <1>2, <1>3, <2>2, <2>5, <3>1, MoreHeld
    <2> QED
      BY <1>7, <2>1, <2>5, <2>7, OnlyOne
  <1> QED
    BY <1>4, <1>5, <1>6, <1>7

\* A session expires.
LEMMA ExpireKeeps ==
  ASSUME RowLocksInvariant, NEW s \in Session, Expire(s)
  PROVE  RowLocksInvariant'
  <1>1. /\ tx' = tx /\ held' = held /\ node' \in [Session -> {"none", "live", "revoked"}]
        /\ sess' \in [Session -> {"live", "expired", "revoked", "gone"}]
    BY DEF Expire, RowLocksInvariant, RowLocksTyped
  <1> QED
    BY <1>1, SameTransactions

\* A commit changes sessions and nodes, and ends the transaction.
LEMMA CommitKeeps ==
  ASSUME RowLocksInvariant, NEW t \in Txn, Commit(t)
  PROVE  RowLocksInvariant'
  <1>1. /\ sess \in [Session -> {"live", "expired", "revoked", "gone"}]
        /\ node \in [Session -> {"none", "live", "revoked"}]
    BY DEF RowLocksInvariant, RowLocksTyped
  <1>2. sess' \in [Session -> {"live", "expired", "revoked", "gone"}]
    BY <1>1 DEF Commit
  <1>3. node' \in [Session -> {"none", "live", "revoked"}]
    BY <1>1 DEF Commit
  <1>4. End(t)
    BY DEF Commit
  <1> QED
    BY <1>2, <1>3, <1>4, EndKeeps

\* All steps keep the invariant.
LEMMA RowLocksNextKeeps == RowLocksInvariant /\ [RowLocksNext]_lockVars => RowLocksInvariant'
  <1> SUFFICES ASSUME RowLocksInvariant, [RowLocksNext]_lockVars
               PROVE  RowLocksInvariant'
    OBVIOUS
  <1>1. /\ sess \in [Session -> {"live", "expired", "revoked", "gone"}]
        /\ node \in [Session -> {"none", "live", "revoked"}]
    BY DEF RowLocksInvariant, RowLocksTyped
  <1>2. ASSUME NEW t \in Txn, NEW k \in Kinds,
               \/ \E u \in User : BeginForUser(t, k, u)
               \/ \E s \in Session : BeginForSession(t, k, s)
        PROVE  RowLocksInvariant'
    BY <1>2, BeginKeeps
  <1>3. ASSUME NEW t \in Txn, End(t), sess' = sess, node' = node
        PROVE  RowLocksInvariant'
    BY <1>1, <1>3, EndKeeps
  <1>4. ASSUME NEW t \in Txn, Step(t) \/ Rollback(t)
        PROVE  RowLocksInvariant'
    <2>1. CASE StartStatement(t)
      BY <2>1, StartStatementKeeps
    <2>2. CASE LockRow(t)
      BY <2>2, LockRowKeeps
    <2>3. CASE Commit(t)
      BY <2>3, CommitKeeps
    <2>4. CASE Refuse(t)
      BY <1>3, <2>4 DEF Refuse
    <2>5. CASE Rollback(t)
      BY <1>3, <2>5 DEF Rollback
    <2> QED
      BY <1>4, <2>1, <2>2, <2>3, <2>4, <2>5 DEF Step
  <1>5. CASE DetectDeadlock
    <2>1. PICK t \in Txn : End(t)
      BY <1>5 DEF DetectDeadlock
    <2> QED
      BY <1>3, <1>5, <2>1 DEF DetectDeadlock
  <1>6. ASSUME NEW s \in Session, Expire(s)
        PROVE  RowLocksInvariant'
    BY <1>6, ExpireKeeps
  <1>7. CASE UNCHANGED lockVars
    BY <1>1, <1>7, SameTransactions DEF lockVars
  <1> QED
    BY <1>2, <1>4, <1>5, <1>6, <1>7 DEF RowLocksNext

\* Nobody has begun.
LEMMA RowLocksInitHolds == RowLocksInit => RowLocksInvariant
  <1> SUFFICES ASSUME RowLocksInit
               PROVE  RowLocksInvariant
    OBVIOUS
  <1>1. NewTxn \in TxState
    BY DEF NewTxn, TxState
  <1>2. RowLocksTyped
    BY <1>1 DEF RowLocksInit, RowLocksTyped
  <1>3. ASSUME NEW t \in Txn
        PROVE  TxOK(t)
    <2>1. tx[t] = NewTxn /\ held[t] = {}
      BY DEF RowLocksInit
    <2> QED
      BY <2>1 DEF NewTxn, TxOK, Begun, Active, Kind, Asked, ControlFirst, DeploymentBeforeAgents, ShapesOK,
         CleanupSpares, Identity
  <1> QED
    BY <1>2, <1>3 DEF RowLocksInvariant, LocksAreCompatible, RowLocksInit

\* For any transactions, sessions and users the lock table stays consistent,
\* every identity write holds control_state before it asks for anything else
\* (beginIdentityWrite), agents come after the deployment or under control_state
\* (lockDeployment), and a cleanup has nothing to do with nodes that were alive
\* when its DELETE began (CreateSession).
THEOREM RowLocksHold == RowLocksSpec => []RowLocksInvariant
  BY RowLocksInitHolds, RowLocksNextKeeps, PTL DEF RowLocksSpec

\* However many transactions run, identity writes and publications of agents
\* (beginIdentityWrite, lockDeployment) never wait for one another in a circle;
\* only a login (CreateSession) can close one.
THEOREM DeadlocksNeedLogins == RowLocksSpec => []OnlyLoginsDeadlock
  BY RowLocksHold, DeadlocksHaveLogins, PTL

\* No cleanup of a login takes a node that was alive when its DELETE began
\* (CreateSession), whatever else runs between the statement, its cascade and
\* the commit.
THEOREM CleanupsSpareNodes == RowLocksSpec => SettledNodesSurvive
  <1>1. ASSUME RowLocksInvariant, NEW t \in Txn, tx[t].kind = "login", Commit(t),
               NEW s \in tx[t].known, node[s] = "live"
        PROVE  node'[s] = "live"
    <2>1. tx[t] \in TxState /\ tx[t].pos \in Nat /\ s \in Session
      BY <1>1 DEF RowLocksInvariant, RowLocksTyped, TxState
    <2>2. tx[t].pos = Len(Program(t))
      BY <1>1 DEF Commit
    <2>3. Program(t) = CreateSession(t, tx[t].user)
      BY <1>1 DEF Program
    <2>4. tx[t].pos >= 1
      BY <2>2, <2>3 DEF CreateSession
    <2>5. s \notin Written(t, "node")
      BY <1>1, <2>1, <2>4 DEF RowLocksInvariant, TxOK, CleanupSpares, Asked, Written
    <2> QED
      BY <1>1, <2>1, <2>5 DEF Commit
  <1>2. RowLocksInvariant /\ [RowLocksNext]_lockVars =>
          [\A t \in Txn : tx[t].kind = "login" /\ Commit(t) =>
             \A s \in tx[t].known : node[s] = "live" => node'[s] = "live"]_lockVars
    BY <1>1
  <1> QED
    BY <1>2, RowLocksHold, PTL DEF RowLocksSpec, SettledNodesSurvive

-----------------------------------------------------------------------------
(****************************************************************************)
(* Stamps: while times are read in order, a version that somebody was given *)
(* is either still that of the same member, or is gone for good; and        *)
(* whatever the clocks say, roles and statuses are compared themselves.     *)
(****************************************************************************)

\* What a view of the member may be.
Views == [name : Name, role : Role \union {"owner", Keep}, status : Status \union {Keep},
          version : Time]

\* What a request may name.
Inputs == [name : Name \union {Keep}, role : Role \union {Keep}, status : Status \union {Keep}]

\* What is known of a call.
Calls == [at : {"idle", "listed", "read", "stamped"}, kind : Table \union {"none"},
          listed : Views, seen : Views, input : Inputs, now : Time,
          crossed : SUBSET {"listed", "seen"}]

\* From the read on a call has a target, who is not the owner.
CallTyped(c) ==
  /\ c.at = "idle" => c = NoCall
  /\ c.at # "idle" => c.kind \in Table
  /\ c.at \in {"read", "stamped"} => c.seen.role \in Role /\ c.seen.status \in Status

\* The types of the tables, of the clocks and of the calls.
StampsTyped ==
  /\ user \in [name : Name, at : Time]
  /\ row \in [Table -> Membership]
  /\ clock \in Time /\ ordered \in BOOLEAN /\ reads \in Nat
  /\ other \in [Other -> Time]
  /\ call \in [Editor -> Calls]
  /\ \A e \in Editor : CallTyped(call[e])

\* The call has read the clock and not yet written.
Stamped(e) == call[e].at = "stamped"

\* A time that somebody has read and may still write.
Pending(n) == \/ \E e \in Editor : Stamped(e) /\ call[e].now = n
              \/ \E o \in Other : other[o] > 0 /\ other[o] = n

\* Nobody has the time of another, and none that is still to be written is in a
\* row already.
StampsAreApart ==
  /\ \A e, f \in Editor : Stamped(e) /\ Stamped(f) /\ call[e].now = call[f].now => e = f
  /\ \A o, p \in Other : other[o] > 0 /\ other[o] = other[p] => o = p
  /\ \A e \in Editor, o \in Other : Stamped(e) /\ other[o] > 0 => call[e].now # other[o]
  /\ ~Pending(user.at)
  /\ \A kind \in Table : ~Pending(row[kind].at)

\* All times have been read from the clock.
StampsArePast ==
  /\ user.at <= clock
  /\ \A kind \in Table : row[kind].at <= clock
  /\ \A e \in Editor : Stamped(e) => call[e].now <= clock
  /\ \A o \in Other : other[o] <= clock

\* A version that nobody can still write.
Past(version) == version <= clock /\ ~Pending(version)

\* Neither row has that time.
Gone(version, kind) == version # user.at /\ version # row[kind].at

\* A view is what the member is, or its version is not there any more and never
\* will be again: the endpoint's row has a later time, or neither row has that time.
Fixed(view, kind) ==
  /\ Past(view.version)
  /\ Same(View(kind), view) \/ view.version < row[kind].at \/ Gone(view.version, kind)

\* The same of the name only; role and status may move.
NameFixed(view, kind) ==
  /\ Past(view.version)
  /\ user.name = view.name \/ Gone(view.version, kind)

\* What the client was shown, and what the service has read, unless somebody crossed
\* it; the time of a call is later than the version it is based on.
Valid(c) ==
  /\ c.at = "listed" /\ "listed" \notin c.crossed => Fixed(c.listed, c.kind)
  /\ c.at \in {"read", "stamped"} =>
       /\ c.seen.version <= clock
       /\ "seen" \notin c.crossed => NameFixed(c.seen, c.kind)
       /\ "listed" \notin c.crossed =>
            /\ "seen" \notin c.crossed
            /\ c.listed # Nothing => Same(c.seen, c.listed)
  /\ c.at = "stamped" => c.seen.version < c.now

CallOK(e) == \A c \in {call[e]} : Valid(c)

\* Nothing is said of times once a clock has gone back or stood still.
StampsInvariant ==
  /\ StampsTyped
  /\ ordered => StampsAreApart /\ StampsArePast /\ \A e \in Editor : CallOK(e)

\* A view has the later of the two times.
LEMMA ViewIs ==
  ASSUME StampsTyped, NEW kind \in Table
  PROVE  /\ View(kind) \in Views
         /\ View(kind).version \in {user.at, row[kind].at}
         /\ user.at <= View(kind).version /\ row[kind].at <= View(kind).version
         /\ View(kind).role = row[kind].role /\ View(kind).status = row[kind].status
         /\ View(kind).name = user.name
         /\ user.at \in Time /\ row[kind].at \in Time
         /\ row[kind].role \in Role \union {"owner"} /\ row[kind].status \in Status
  BY StampsAssumption DEF StampsTyped, View, Views, Later, Time, Membership

\* The call e of the state before a step, and its parts.
LEMMA CallParts ==
  ASSUME StampsTyped, NEW e \in Editor
  PROVE  /\ call[e] \in Calls /\ CallTyped(call[e])
         /\ call[e].seen \in Views /\ call[e].listed \in Views /\ call[e].input \in Inputs
         /\ call[e].now \in Time /\ call[e].seen.version \in Time /\ call[e].listed.version \in Time
         /\ call[e].kind \in Table \union {"none"}
  BY DEF StampsTyped, Calls, Views

\* An idle call says nothing.
LEMMA NoCallTyped == NoCall \in Calls /\ CallTyped(NoCall) /\ NoCall.at = "idle"
  BY StampsAssumption DEF NoCall, CallTyped, Calls, Views, Inputs, Nothing, NoInput, Time

\* Nobody has called yet.
LEMMA StampsInitially == StampsInit => StampsInvariant
  <1> SUFFICES ASSUME StampsInit PROVE StampsInvariant
    OBVIOUS
  <1>1. \A e \in Editor : call[e].at = "idle"
    BY NoCallTyped DEF StampsInit
  <1>2. StampsTyped
    <2>1. user \in [name : Name, at : Time] /\ row \in [Table -> Membership]
      BY StampsAssumption DEF StampsInit, Membership, Time, Table, Role, Status
    <2>2. call \in [Editor -> Calls] /\ \A e \in Editor : CallTyped(call[e])
      BY NoCallTyped DEF StampsInit
    <2> QED
      BY <2>1, <2>2, StampsAssumption DEF StampsInit, StampsTyped, Time
  <1>3. StampsAreApart
    BY <1>1 DEF StampsInit, StampsAreApart, Pending, Stamped
  <1>4. StampsArePast
    BY <1>1 DEF StampsInit, StampsArePast, Stamped
  <1>5. \A e \in Editor : CallOK(e)
    BY <1>1 DEF CallOK, Valid
  <1> QED
    BY <1>2, <1>3, <1>4, <1>5 DEF StampsInvariant

-----------------------------------------------------------------------------
(* What the steps do to the calls. *)

\* The step is one of the call e.
OthersStay(e) == \A f \in Editor : f # e => call'[f] = call[f]

\* What a list does to the call.
LEMMA ListStep ==
  ASSUME StampsTyped, NEW e \in Editor, NEW kind \in Table, ListMembers(e, kind)
  PROVE  /\ call' \in [Editor -> Calls] /\ OthersStay(e) /\ CallTyped(call'[e])
         /\ call'[e].at = "listed" /\ call'[e].kind = kind /\ call'[e].listed = View(kind)
         /\ UNCHANGED <<user, row, other, clockVars>>
  <1>1. PICK view \in Views : view = View(kind)
    BY ViewIs
  <1>2. call' = [call EXCEPT ![e].at = "listed", ![e].kind = kind, ![e].listed = view]
    BY <1>1 DEF ListMembers
  <1>3. call \in [Editor -> Calls]
    BY DEF StampsTyped
  <1>4. OthersStay(e) /\ call' = [f \in Editor |-> call'[f]]
    BY <1>2, <1>3 DEF OthersStay
  <1>5. /\ call' \in [Editor -> Calls] /\ call'[e].at = "listed" /\ call'[e].kind = kind
        /\ call'[e].listed = view
    <2>1. PICK old \in Calls : old = call[e]
      BY <1>3
    <2>2. PICK c : c = [old EXCEPT !.at = "listed", !.kind = kind, !.listed = view]
      OBVIOUS
    <2>3. call'[e] = c
      BY <1>2, <1>3, <2>1, <2>2
    <2>4. c \in Calls /\ c.at = "listed" /\ c.kind = kind /\ c.listed = view
      BY <1>1, <2>1, <2>2 DEF Calls
    <2> QED
      BY <1>3, <1>4, <2>3, <2>4 DEF OthersStay
  <1>6. CallTyped(call'[e])
    BY <1>5 DEF CallTyped
  <1>7. UNCHANGED <<user, row, other, clockVars>>
    BY DEF ListMembers
  <1> QED
    BY <1>1, <1>4, <1>5, <1>6, <1>7

\* What the read of the service does to the call.
LEMMA ReadStep ==
  ASSUME StampsTyped, NEW e \in Editor, NEW kind \in Table, NEW input \in Input,
         ReadTarget(e, kind, input)
  PROVE  /\ call' \in [Editor -> Calls] /\ OthersStay(e) /\ CallTyped(call'[e])
         /\ call'[e].at = "read" /\ call'[e].kind = kind /\ call'[e].seen = View(kind)
         /\ call'[e].listed = call[e].listed /\ call'[e].crossed = call[e].crossed \ {"seen"}
         /\ UNCHANGED <<user, row, other, clockVars>>
  <1>1. PICK view \in Views : view = View(kind)
    BY ViewIs
  <1>2. input \in Inputs
    BY DEF Input, Inputs
  <1>3. call' = [call EXCEPT ![e].at = "read", ![e].kind = kind, ![e].seen = view,
                             ![e].input = input, ![e].crossed = @ \ {"seen"}]
    BY <1>1 DEF ReadTarget
  <1>4. call \in [Editor -> Calls]
    BY DEF StampsTyped
  <1>5. PICK old \in Calls : old = call[e]
    BY <1>4
  <1>6. PICK c : c = [old EXCEPT !.at = "read", !.kind = kind, !.seen = view,
                                 !.input = input, !.crossed = @ \ {"seen"}]
    OBVIOUS
  <1>7. OthersStay(e) /\ call' = [f \in Editor |-> call'[f]]
    BY <1>3, <1>4 DEF OthersStay
  <1>8. /\ call'[e] \in Calls /\ call'[e].at = "read" /\ call'[e].kind = kind
        /\ call'[e].seen = view /\ call'[e].listed = call[e].listed
        /\ call'[e].crossed = call[e].crossed \ {"seen"}
    <2>1. call'[e] = c
      BY <1>3, <1>4, <1>5, <1>6
    <2>2. /\ c \in Calls /\ c.at = "read" /\ c.kind = kind /\ c.seen = view
          /\ c.listed = old.listed /\ c.crossed = old.crossed \ {"seen"}
      BY <1>1, <1>2, <1>5, <1>6 DEF Calls
    <2> QED
      BY <1>5, <2>1, <2>2
  <1>9. call' \in [Editor -> Calls]
    BY <1>4, <1>7, <1>8 DEF OthersStay
  <1>10. view.role \in Role /\ view.status \in Status
    BY <1>1, ViewIs DEF ReadTarget
  <1>11. UNCHANGED <<user, row, other, clockVars>>
    BY DEF ReadTarget
  <1>12. CallTyped(call'[e])
    BY <1>8, <1>10 DEF CallTyped
  <1> QED
    BY <1>1, <1>7, <1>8, <1>9, <1>11, <1>12

\* What the end of a call does to it.
LEMMA EndStep ==
  ASSUME StampsTyped, NEW e \in Editor, EndCall(e)
  PROVE  /\ call' \in [Editor -> Calls] /\ OthersStay(e) /\ call'[e] = NoCall
         /\ UNCHANGED <<user, row, other, clockVars>>
  BY NoCallTyped DEF EndCall, StampsTyped, OthersStay

\* What a reading does to the clock.
LEMMA ReadsStep ==
  ASSUME StampsTyped, NEW now \in Time, Reads(now)
  PROVE  /\ clock' \in Time /\ ordered' \in BOOLEAN /\ reads' \in Nat
         /\ ordered' => ordered /\ clock' = now /\ now > clock
  <1>1. ordered' = (ordered /\ now > clock) /\ clock' = IF ordered' THEN now ELSE 0
    BY DEF Reads
  <1>2. ordered' \in BOOLEAN /\ (ordered' => ordered /\ now > clock)
    BY <1>1, Zenon
  <1>3. reads' \in Nat /\ 0 \in Time
    BY StampsAssumption DEF Reads, StampsTyped, Time
  <1>4. clock' \in {now, 0} /\ (ordered' => clock' = now)
    BY <1>1, Zenon
  <1> QED
    BY <1>2, <1>3, <1>4

\* What the reading of the clock does to the call.
LEMMA ClockStep ==
  ASSUME StampsTyped, NEW e \in Editor, ReadClock(e)
  PROVE  /\ call' \in [Editor -> Calls] /\ OthersStay(e) /\ CallTyped(call'[e])
         /\ call[e].at = "read" /\ call'[e].at = "stamped"
         /\ call'[e].kind = call[e].kind /\ call'[e].listed = call[e].listed
         /\ call'[e].seen = call[e].seen /\ call'[e].crossed = call[e].crossed
         /\ clock' \in Time /\ ordered' \in BOOLEAN /\ reads' \in Nat
         /\ ordered' => ordered /\ clock' = call'[e].now /\ clock' > clock
         /\ UNCHANGED <<user, row, other>>
  <1>1. PICK now \in Time : Reads(now) /\ call' = [call EXCEPT ![e].at = "stamped", ![e].now = now]
    BY DEF ReadClock
  <1>2. call \in [Editor -> Calls]
    BY DEF StampsTyped
  <1>3. /\ call' \in [Editor -> Calls] /\ call'[e].at = "stamped" /\ call'[e].now = now
        /\ call'[e].kind = call[e].kind /\ call'[e].listed = call[e].listed
        /\ call'[e].seen = call[e].seen /\ call'[e].crossed = call[e].crossed
    BY <1>1, <1>2 DEF Calls
  <1>4. OthersStay(e)
    BY <1>1, <1>2 DEF OthersStay
  <1>5. CallTyped(call'[e])
    BY <1>3, CallParts DEF CallTyped, ReadClock
  <1> QED
    BY <1>1, <1>3, <1>4, <1>5, ReadsStep DEF ReadClock

\* A view is marked, and nothing else of the call changes.
LEMMA MarkedCall ==
  ASSUME NEW c \in Calls, CallTyped(c), NEW views \in SUBSET {"listed", "seen"}
  PROVE  /\ Outdated(c, views) \in Calls /\ CallTyped(Outdated(c, views))
         /\ Outdated(c, views).at = c.at /\ Outdated(c, views).kind = c.kind
         /\ Outdated(c, views).listed = c.listed /\ Outdated(c, views).seen = c.seen
         /\ Outdated(c, views).now = c.now
         /\ c.at # "idle" => Outdated(c, views).crossed = c.crossed \union views
  BY DEF Outdated, Calls, CallTyped

\* What the transaction writes: the row of its endpoint and, with a new name,
\* that of the account, both with the time of the call; what it has found is what
\* the service has read, as far as it compares.
LEMMA UpdateStep ==
  ASSUME StampsTyped, NEW e \in Editor, ApplyUpdate(e)
  PROVE  /\ Stamped(e) /\ call[e].kind \in Table
         /\ user' \in [name : Name, at : Time]
         /\ user' = user \/ user'.at = call[e].now
         /\ row' \in [Table -> Membership]
         /\ row'[call[e].kind].at = call[e].now
         /\ row'[call[e].kind].role = Next(e, "role") /\ row'[call[e].kind].status = Next(e, "status")
         /\ \A kind \in Table : kind # call[e].kind => row'[kind] = row[kind]
         /\ UNCHANGED <<other, clockVars>>
         /\ View(call[e].kind).version = call[e].seen.version
         /\ row[call[e].kind].role = call[e].seen.role
         /\ row[call[e].kind].status = call[e].seen.status
  <1>1. call[e].at = "stamped" /\ call[e].kind \in Table
    BY CallParts DEF ApplyUpdate, CallTyped
  <1>2. PICK kind \in Table : kind = call[e].kind
    BY <1>1
  <1>3. /\ Next(e, "name") \in Name /\ Next(e, "role") \in Role /\ Next(e, "status") \in Status
    BY <1>1, CallParts DEF Next, CallTyped, Inputs, Views
  <1>4. PICK name \in Name : name = Next(e, "name")
    BY <1>3
  <1>5. PICK role \in Role : role = Next(e, "role")
    BY <1>3
  <1>6. PICK status \in Status : status = Next(e, "status")
    BY <1>3
  <1>7. PICK now \in Time : now = call[e].now
    BY CallParts
  <1>8. row' = [row EXCEPT ![kind] = [role |-> role, status |-> status, at |-> now]]
    BY <1>2, <1>5, <1>6, <1>7 DEF ApplyUpdate
  <1>9. row \in [Table -> Membership] /\ user \in [name : Name, at : Time]
    BY DEF StampsTyped
  <1>10. /\ row' \in [Table -> Membership]
         /\ row'[kind].at = now /\ row'[kind].role = role /\ row'[kind].status = status
         /\ \A k \in Table : k # kind => row'[k] = row[k]
    BY <1>8, <1>9 DEF Membership
  <1>11. user' = user \/ user' = [name |-> name, at |-> now]
    BY <1>4, <1>7 DEF ApplyUpdate
  <1>12. user' \in [name : Name, at : Time] /\ (user' = user \/ user'.at = now)
    BY <1>9, <1>11
  <1>13. UNCHANGED <<other, clockVars>>
    BY DEF ApplyUpdate
  <1>14. Unchanged(e, View(kind))
    BY <1>2 DEF ApplyUpdate
  <1>15. /\ View(kind).version = call[e].seen.version
         /\ row[kind].role = call[e].seen.role
         /\ row[kind].status = call[e].seen.status
    BY <1>14 DEF Unchanged, View
  <1> QED
    BY <1>1, <1>2, <1>5, <1>6, <1>7, <1>10, <1>12, <1>13, <1>15 DEF Stamped

\* What an update does to the calls: its own is over, and those of the other endpoint
\* are marked if it renames the account.
LEMMA UpdateCalls ==
  ASSUME StampsTyped, NEW e \in Editor, ApplyUpdate(e)
  PROVE  /\ call' \in [Editor -> Calls] /\ \A f \in Editor : CallTyped(call'[f])
         /\ call'[e] = NoCall
         /\ \A f \in Editor : f # e =>
              \/ call'[f] = Outdated(call[f], {"listed", "seen"})
              \/ call'[f] = call[f] /\ (call[f].kind = call[e].kind \/ user' = user)
  <1>1. \A f \in Editor :
          call'[f] = IF f = e THEN NoCall
                     ELSE IF Next(e, "name") # user.name /\ call[f].kind # call[e].kind
                     THEN Outdated(call[f], {"listed", "seen"}) ELSE call[f]
    BY DEF ApplyUpdate
  <1>2. Next(e, "name") = user.name => user' = user
    BY DEF ApplyUpdate
  <1>3. call' = [f \in Editor |-> call'[f]]
    BY DEF ApplyUpdate
  <1>4. call'[e] = NoCall
    BY <1>1
  <1>5. ASSUME NEW f \in Editor, f # e
        PROVE  \/ call'[f] = Outdated(call[f], {"listed", "seen"})
               \/ call'[f] = call[f] /\ (call[f].kind = call[e].kind \/ user' = user)
    BY <1>1, <1>2, <1>5
  <1>6. ASSUME NEW f \in Editor
        PROVE  call'[f] \in Calls /\ CallTyped(call'[f])
    <2>1. call[f] \in Calls /\ CallTyped(call[f])
      BY CallParts
    <2>2. Outdated(call[f], {"listed", "seen"}) \in Calls
          /\ CallTyped(Outdated(call[f], {"listed", "seen"}))
      BY <2>1, MarkedCall
    <2> QED
      BY <1>4, <1>5, <2>1, <2>2, NoCallTyped
  <1>7. call' \in [Editor -> Calls]
    BY <1>3, <1>6
  <1> QED
    BY <1>4, <1>5, <1>6, <1>7

\* What the others write: a time they have read.
LEMMA OtherSteps ==
  ASSUME StampsTyped, NEW o \in Other
  PROVE  /\ OtherReadsClock(o) =>
              /\ other' \in [Other -> Time] /\ \A p \in Other : p # o => other'[p] = other[p]
              /\ clock' \in Time /\ ordered' \in BOOLEAN /\ reads' \in Nat
              /\ ordered' => ordered /\ clock' = other'[o] /\ clock' > clock
              /\ UNCHANGED <<user, row, call>>
         /\ Touch(o) \/ Move(o) =>
              /\ other[o] > 0 /\ other' \in [Other -> Time] /\ other'[o] = 0
              /\ \A p \in Other : p # o => other'[p] = other[p]
              /\ UNCHANGED clockVars
         /\ Touch(o) =>
              /\ user' \in [name : Name, at : Time] /\ user'.at = other[o]
              /\ user'.name = user.name /\ UNCHANGED <<row, call>>
  <1>0. other \in [Other -> Time] /\ user \in [name : Name, at : Time] /\ 0 \in Time
    BY StampsAssumption DEF StampsTyped, Time
  <1>1. ASSUME OtherReadsClock(o)
        PROVE  /\ other' \in [Other -> Time] /\ \A p \in Other : p # o => other'[p] = other[p]
               /\ clock' \in Time /\ ordered' \in BOOLEAN /\ reads' \in Nat
               /\ ordered' => ordered /\ clock' = other'[o] /\ clock' > clock
               /\ UNCHANGED <<user, row, call>>
    <2>1. PICK now \in Time : Reads(now) /\ other' = [other EXCEPT ![o] = now]
      BY <1>1 DEF OtherReadsClock
    <2>2. /\ other' \in [Other -> Time] /\ \A p \in Other : p # o => other'[p] = other[p]
          /\ other'[o] = now
      BY <1>0, <2>1
    <2>3. /\ clock' \in Time /\ ordered' \in BOOLEAN /\ reads' \in Nat
          /\ ordered' => ordered /\ clock' = now /\ now > clock
      BY <2>1, ReadsStep
    <2> QED
      BY <1>1, <2>2, <2>3 DEF OtherReadsClock
  <1>2. ASSUME Touch(o) \/ Move(o)
        PROVE  /\ other[o] > 0 /\ other' \in [Other -> Time] /\ other'[o] = 0
               /\ \A p \in Other : p # o => other'[p] = other[p]
               /\ UNCHANGED clockVars
    <2>1. other[o] > 0 /\ other' = [other EXCEPT ![o] = 0] /\ UNCHANGED clockVars
      BY <1>2 DEF Touch, Move
    <2> QED
      BY <1>0, <2>1
  <1>3. ASSUME Touch(o)
        PROVE  /\ user' \in [name : Name, at : Time] /\ user'.at = other[o]
               /\ user'.name = user.name /\ UNCHANGED <<row, call>>
    <2>1. PICK now \in Time : now = other[o]
      BY <1>0
    <2>2. user' = [user EXCEPT !.at = now] /\ UNCHANGED <<row, call>>
      BY <1>3, <2>1 DEF Touch
    <2> QED
      BY <1>0, <2>1, <2>2
  <1> QED
    BY <1>1, <1>2, <1>3

\* What a move writes: the row of the organization; what was shown of it is marked.
LEMMA MoveStep ==
  ASSUME StampsTyped, NEW o \in Other, Move(o)
  PROVE  /\ row' \in [Table -> Membership] /\ row'["organization"].at = other[o]
         /\ row'["deployment"] = row["deployment"] /\ user' = user
         /\ call' \in [Editor -> Calls] /\ \A f \in Editor : CallTyped(call'[f])
         /\ \A f \in Editor :
              \/ call'[f] = Outdated(call[f], {"listed"})
              \/ call'[f] = call[f] /\ ~(call[f].kind = "organization" /\ call[f].at = "listed")
  <1>1. PICK now \in Time : now = other[o]
    BY DEF StampsTyped
  <1>2. row \in [Table -> Membership]
    BY DEF StampsTyped
  <1>3. PICK role \in Role \union {"owner"}, status \in Status :
          row' = [row EXCEPT !["organization"] = [role |-> role, status |-> status, at |-> now]]
    BY <1>1 DEF Move
  <1>4. /\ row' \in [Table -> Membership] /\ row'["organization"].at = now
        /\ row'["deployment"] = row["deployment"]
    BY <1>2, <1>3 DEF Table, Membership
  <1>5. call' = [f \in Editor |->
                   IF call[f].kind = "organization" /\ call[f].at = "listed"
                   THEN Outdated(call[f], {"listed"}) ELSE call[f]]
    BY DEF Move
  <1>6. ASSUME NEW f \in Editor
        PROVE  /\ call'[f] \in Calls /\ CallTyped(call'[f])
               /\ \/ call'[f] = Outdated(call[f], {"listed"})
                  \/ call'[f] = call[f]
                       /\ ~(call[f].kind = "organization" /\ call[f].at = "listed")
    <2>1. call[f] \in Calls /\ CallTyped(call[f])
      BY CallParts
    <2>2. Outdated(call[f], {"listed"}) \in Calls /\ CallTyped(Outdated(call[f], {"listed"}))
      BY <2>1, MarkedCall
    <2> QED
      BY <1>5, <2>1, <2>2
  <1>7. user' = user
    BY DEF Move
  <1> QED
    BY <1>1, <1>4, <1>5, <1>6, <1>7

-----------------------------------------------------------------------------
(* Types and times. *)

\* A list, a read or a refusal: it moves one call and nothing else.
Quiet(e) ==
  /\ call' \in [Editor -> Calls] /\ OthersStay(e) /\ CallTyped(call'[e])
  /\ call'[e].at # "stamped"
  /\ UNCHANGED <<user, row, other, clockVars>>

LEMMA QuietSteps ==
  ASSUME StampsTyped, NEW e \in Editor
  PROVE  /\ \A kind \in Table : ListMembers(e, kind) => Quiet(e)
         /\ \A kind \in Table, input \in Input : ReadTarget(e, kind, input) => Quiet(e)
         /\ RefuseVersion(e) \/ RefuseState(e) => EndCall(e) /\ Quiet(e)
  <1>1. ASSUME NEW kind \in Table, ListMembers(e, kind)
        PROVE  Quiet(e)
    BY <1>1, ListStep DEF Quiet
  <1>2. ASSUME NEW kind \in Table, NEW input \in Input, ReadTarget(e, kind, input)
        PROVE  Quiet(e)
    BY <1>2, ReadStep DEF Quiet
  <1>3. ASSUME RefuseVersion(e) \/ RefuseState(e)
        PROVE  EndCall(e) /\ Quiet(e)
    <2>1. EndCall(e)
      BY <1>3 DEF RefuseVersion, RefuseState
    <2> QED
      BY <2>1, EndStep, NoCallTyped DEF Quiet
  <1> QED
    BY <1>1, <1>2, <1>3

\* The types are kept, whatever the clocks say.
LEMMA StampsTypesStay == StampsTyped /\ [StampsNext]_stampVars => StampsTyped'
  <1> SUFFICES ASSUME StampsTyped, [StampsNext]_stampVars PROVE StampsTyped'
    OBVIOUS
  <1>0. /\ user \in [name : Name, at : Time] /\ row \in [Table -> Membership]
        /\ clock \in Time /\ ordered \in BOOLEAN /\ reads \in Nat
        /\ other \in [Other -> Time] /\ call \in [Editor -> Calls]
        /\ \A e \in Editor : CallTyped(call[e])
    BY DEF StampsTyped
  <1>1. ASSUME NEW e \in Editor, Quiet(e)
        PROVE  StampsTyped'
    BY <1>0, <1>1 DEF StampsTyped, Quiet, OthersStay, clockVars
  <1>2. ASSUME NEW e \in Editor, ReadClock(e)
        PROVE  StampsTyped'
    BY <1>0, <1>2, ClockStep DEF StampsTyped, OthersStay
  <1>3. ASSUME NEW e \in Editor, ApplyUpdate(e)
        PROVE  StampsTyped'
    BY <1>0, <1>3, UpdateStep, UpdateCalls DEF StampsTyped, clockVars
  <1>4. ASSUME NEW o \in Other, OtherReadsClock(o)
        PROVE  StampsTyped'
    BY <1>0, <1>4, OtherSteps DEF StampsTyped
  <1>5. ASSUME NEW o \in Other, Touch(o)
        PROVE  StampsTyped'
    BY <1>0, <1>5, OtherSteps DEF StampsTyped, clockVars
  <1>6. ASSUME NEW o \in Other, Move(o)
        PROVE  StampsTyped'
    BY <1>0, <1>6, OtherSteps, MoveStep DEF StampsTyped, clockVars
  <1>7. ASSUME UNCHANGED stampVars
        PROVE  StampsTyped'
    BY <1>0, <1>7 DEF StampsTyped, stampVars
  <1> QED
    BY <1>1, <1>2, <1>3, <1>4, <1>5, <1>6, <1>7, QuietSteps DEF StampsNext

\* The clock does not go back; only a reading makes a time that can still be written,
\* and that time is new; and only such times are written.
TimesStep ==
  /\ ordered /\ clock <= clock'
  /\ \A n \in Time : n <= clock /\ ~Pending(n) => ~Pending(n)'
  /\ user'.at = user.at \/ Pending(user'.at)
  /\ \A kind \in Table : row'[kind].at = row[kind].at \/ Pending(row'[kind].at)

LEMMA TimesMove ==
  ASSUME StampsTyped, ordered', [StampsNext]_stampVars
  PROVE  TimesStep
  <1>0. /\ clock \in Nat /\ clock' \in Nat /\ \A n \in Time : n \in Nat
        /\ call \in [Editor -> Calls] /\ other \in [Other -> Time]
    BY StampsTypesStay, StampsAssumption DEF StampsTyped, Time
  <1>1. ASSUME NEW e \in Editor, Quiet(e)
        PROVE  TimesStep
    <2>1. ordered /\ clock' = clock /\ user' = user /\ row' = row /\ other' = other
      BY <1>1 DEF Quiet, clockVars
    <2>2. \A n \in Time : Pending(n)' => Pending(n)
      BY <1>1, <2>1 DEF Quiet, OthersStay, Pending, Stamped
    <2> QED
      BY <1>0, <2>1, <2>2 DEF TimesStep
  <1>2. ASSUME NEW e \in Editor, ReadClock(e)
        PROVE  TimesStep
    <2>1. /\ ordered /\ clock' > clock /\ user' = user /\ row' = row /\ other' = other
          /\ OthersStay(e) /\ call'[e].now = clock'
      BY <1>2, ClockStep
    <2>2. \A n \in Time : n <= clock /\ Pending(n)' => Pending(n)
      BY <1>0, <2>1 DEF OthersStay, Pending, Stamped
    <2> QED
      BY <1>0, <2>1, <2>2 DEF TimesStep
  <1>3. ASSUME NEW e \in Editor, ApplyUpdate(e)
        PROVE  TimesStep
    <2>1. /\ ordered /\ clock' = clock /\ other' = other
          /\ Stamped(e) /\ call[e].kind \in Table
          /\ user' = user \/ user'.at = call[e].now
          /\ row'[call[e].kind].at = call[e].now
          /\ \A kind \in Table : kind # call[e].kind => row'[kind] = row[kind]
      BY <1>3, UpdateStep DEF clockVars
    <2>2. Pending(call[e].now)
      BY <2>1 DEF Pending
    <2>3. ASSUME NEW f \in Editor, Stamped(f)'
          PROVE  Stamped(f) /\ call'[f].now = call[f].now
      <3>1. f # e
        BY <1>3, <2>3, UpdateCalls, NoCallTyped DEF Stamped
      <3>2. call'[f] = call[f] \/ call'[f] = Outdated(call[f], {"listed", "seen"})
        BY <1>3, <3>1, UpdateCalls
      <3> QED
        BY <2>3, <3>2, CallParts, MarkedCall DEF Stamped
    <2>4. \A n \in Time : Pending(n)' => Pending(n)
      BY <2>1, <2>3 DEF Pending
    <2>5. user'.at = user.at \/ Pending(user'.at)
      BY <2>1, <2>2
    <2>6. \A kind \in Table : row'[kind].at = row[kind].at \/ Pending(row'[kind].at)
      BY <2>1, <2>2
    <2> QED
      BY <1>0, <2>1, <2>4, <2>5, <2>6 DEF TimesStep
  <1>4. ASSUME NEW o \in Other, OtherReadsClock(o)
        PROVE  TimesStep
    <2>1. /\ ordered /\ clock' > clock /\ user' = user /\ row' = row /\ call' = call
          /\ other'[o] = clock' /\ \A p \in Other : p # o => other'[p] = other[p]
      BY <1>4, OtherSteps
    <2>2. \A n \in Time : n <= clock /\ Pending(n)' => Pending(n)
      BY <1>0, <2>1 DEF Pending, Stamped
    <2> QED
      BY <1>0, <2>1, <2>2 DEF TimesStep
  <1>5. ASSUME NEW o \in Other, other[o] > 0, other'[o] = 0, UNCHANGED clockVars,
               \A p \in Other : p # o => other'[p] = other[p],
               \A f \in Editor : Stamped(f)' => Stamped(f) /\ call'[f].now = call[f].now
        PROVE  /\ Pending(other[o]) /\ ordered /\ clock' = clock
               /\ \A n \in Time : Pending(n)' => Pending(n)
    BY <1>5 DEF Pending, clockVars
  <1>6. ASSUME NEW o \in Other, Touch(o)
        PROVE  TimesStep
    <2>1. /\ user'.at = other[o] /\ UNCHANGED <<row, call>>
          /\ other[o] > 0 /\ other'[o] = 0 /\ UNCHANGED clockVars
          /\ \A p \in Other : p # o => other'[p] = other[p]
      BY <1>6, OtherSteps
    <2>2. \A f \in Editor : Stamped(f)' => Stamped(f) /\ call'[f].now = call[f].now
      BY <2>1 DEF Stamped
    <2>3. /\ Pending(other[o]) /\ ordered /\ clock' = clock
          /\ \A n \in Time : Pending(n)' => Pending(n)
      BY <1>5, <2>1, <2>2
    <2> QED
      BY <1>0, <2>1, <2>3 DEF TimesStep
  <1>7. ASSUME NEW o \in Other, Move(o)
        PROVE  TimesStep
    <2>1. /\ other[o] > 0 /\ other'[o] = 0 /\ UNCHANGED clockVars
          /\ \A p \in Other : p # o => other'[p] = other[p]
          /\ row'["organization"].at = other[o] /\ row'["deployment"] = row["deployment"]
          /\ user' = user
      BY <1>7, OtherSteps, MoveStep
    <2>2. ASSUME NEW f \in Editor, Stamped(f)'
          PROVE  Stamped(f) /\ call'[f].now = call[f].now
      <3>1. call'[f] = call[f] \/ call'[f] = Outdated(call[f], {"listed"})
        BY <1>7, MoveStep
      <3> QED
        BY <2>2, <3>1, CallParts, MarkedCall DEF Stamped
    <2>3. /\ Pending(other[o]) /\ ordered /\ clock' = clock
          /\ \A n \in Time : Pending(n)' => Pending(n)
      BY <1>5, <2>1, <2>2
    <2> QED
      BY <1>0, <2>1, <2>3 DEF TimesStep, Table
  <1>8. ASSUME UNCHANGED stampVars
        PROVE  TimesStep
    BY <1>0, <1>8 DEF TimesStep, stampVars, Pending, Stamped
  <1> QED
    BY <1>1, <1>2, <1>3, <1>4, <1>6, <1>7, <1>8, QuietSteps DEF StampsNext

\* Times that can still be written differ from each other and from those that
\* are written.
LEMMA StampsStayApart ==
  ASSUME StampsInvariant, ordered', [StampsNext]_stampVars
  PROVE  StampsAreApart' /\ StampsArePast'
  <1>0. StampsTyped /\ TimesStep /\ ordered
    BY TimesMove DEF StampsInvariant, TimesStep
  <1>1. StampsAreApart /\ StampsArePast
    BY <1>0 DEF StampsInvariant
  <1>2. /\ clock \in Nat /\ user.at \in Nat /\ \A kind \in Table : row[kind].at \in Nat
        /\ \A e \in Editor : call[e].now \in Nat
        /\ \A o \in Other : other[o] \in Nat
        /\ call \in [Editor -> Calls] /\ other \in [Other -> Time]
    BY <1>0, StampsAssumption DEF StampsTyped, Membership, Calls, Time
  \* A step that makes no time and writes the time gone, or none.
  <1>3. ASSUME NEW gone \in Nat, clock' = clock,
               \A e \in Editor : Stamped(e)' =>
                 Stamped(e) /\ call'[e].now = call[e].now /\ call[e].now # gone,
               \A o \in Other : other'[o] > 0 => other'[o] = other[o] /\ other[o] # gone,
               \A o \in Other : other'[o] <= clock,
               gone <= clock \/ (user' = user /\ row' = row),
               user'.at \in {user.at, gone},
               \A kind \in Table : row'[kind].at \in {row[kind].at, gone}
        PROVE  StampsAreApart' /\ StampsArePast'
    <2>1. \A n : Pending(n)' => Pending(n) /\ n # gone
      BY <1>3 DEF Pending
    <2>2. ~Pending(user.at)'
      <3>1. PICK at : at = user'.at
        OBVIOUS
      <3>2. ~Pending(at)'
        BY <1>1, <1>3, <2>1, <3>1 DEF StampsAreApart
      <3> QED
        BY <3>1, <3>2 DEF Pending
    <2>3. ASSUME NEW kind \in Table
          PROVE  ~Pending(row[kind].at)'
      <3>1. PICK at : at = row'[kind].at
        OBVIOUS
      <3>2. ~Pending(at)'
        BY <1>1, <1>3, <2>1, <3>1 DEF StampsAreApart
      <3> QED
        BY <3>1, <3>2 DEF Pending
    <2>4. /\ \A e, f \in Editor : Stamped(e)' /\ Stamped(f)' /\ call'[e].now = call'[f].now => e = f
          /\ \A e \in Editor, o \in Other : Stamped(e)' /\ other'[o] > 0 => call'[e].now # other'[o]
          /\ \A o, p \in Other : other'[o] > 0 /\ other'[o] = other'[p] => o = p
      BY <1>1, <1>3 DEF StampsAreApart
    <2>5. user'.at <= clock' /\ \A kind \in Table : row'[kind].at <= clock'
      BY <1>1, <1>2, <1>3 DEF StampsArePast
    <2>6. \A e \in Editor : Stamped(e)' => call'[e].now <= clock'
      BY <1>1, <1>3 DEF StampsArePast
    <2> QED
      BY <1>3, <2>2, <2>3, <2>4, <2>5, <2>6 DEF StampsAreApart, StampsArePast
  <1>4. ASSUME NEW e \in Editor, Quiet(e)
        PROVE  StampsAreApart' /\ StampsArePast'
    BY <1>1, <1>2, <1>4 DEF Quiet, clockVars, StampsAreApart, StampsArePast, Pending, Stamped,
       OthersStay
  <1>5. ASSUME NEW e \in Editor, ReadClock(e)
        PROVE  StampsAreApart' /\ StampsArePast'
    <2>1. /\ clock' \in Nat /\ clock' > clock /\ OthersStay(e) /\ call'[e].now = clock'
          /\ UNCHANGED <<user, row, other>>
      BY <1>0, <1>5, ClockStep, StampsAssumption DEF Time
    <2>2. \A f \in Editor : f # e => call'[f].now = call[f].now /\ (Stamped(f)' <=> Stamped(f))
      BY <2>1 DEF OthersStay, Stamped
    <2> QED
      BY <1>1, <1>2, <2>1, <2>2 DEF StampsAreApart, StampsArePast, Pending
  <1>6. ASSUME NEW e \in Editor, ApplyUpdate(e)
        PROVE  StampsAreApart' /\ StampsArePast'
    <2>1. /\ clock' = clock /\ other' = other /\ Stamped(e) /\ call[e].kind \in Table
          /\ user' = user \/ user'.at = call[e].now
          /\ row'[call[e].kind].at = call[e].now
          /\ \A kind \in Table : kind # call[e].kind => row'[kind] = row[kind]
      BY <1>0, <1>6, UpdateStep DEF clockVars
    <2>2. ASSUME NEW f \in Editor, Stamped(f)'
          PROVE  Stamped(f) /\ call'[f].now = call[f].now /\ call[f].now # call[e].now
      <3>1. f # e
        BY <1>0, <1>6, <2>2, UpdateCalls, NoCallTyped DEF Stamped
      <3>2. call'[f] = call[f] \/ call'[f] = Outdated(call[f], {"listed", "seen"})
        BY <1>0, <1>6, <3>1, UpdateCalls
      <3>3. Stamped(f) /\ call'[f].now = call[f].now
        BY <1>0, <2>2, <3>2, CallParts, MarkedCall DEF Stamped
      <3> QED
        BY <1>1, <2>1, <3>1, <3>3 DEF StampsAreApart
    <2>3. \A o \in Other : other[o] > 0 => other[o] # call[e].now
      BY <1>1, <2>1 DEF StampsAreApart
    <2>4. call[e].now <= clock /\ \A o \in Other : other'[o] <= clock
      BY <1>1, <2>1 DEF StampsArePast
    <2> QED
      BY <1>2, <1>3, <2>1, <2>2, <2>3, <2>4
  <1>7. ASSUME NEW o \in Other, OtherReadsClock(o)
        PROVE  StampsAreApart' /\ StampsArePast'
    <2>1. /\ clock' \in Nat /\ clock' > clock /\ UNCHANGED <<user, row, call>>
          /\ other'[o] = clock' /\ \A p \in Other : p # o => other'[p] = other[p]
      BY <1>0, <1>7, OtherSteps, StampsAssumption DEF Time
    <2> QED
      BY <1>1, <1>2, <2>1 DEF StampsAreApart, StampsArePast, Pending, Stamped
  <1>8. ASSUME NEW o \in Other, Touch(o) \/ Move(o)
        PROVE  StampsAreApart' /\ StampsArePast'
    <2>1. /\ other[o] > 0 /\ other'[o] = 0 /\ clock' = clock
          /\ \A p \in Other : p # o => other'[p] = other[p]
      BY <1>0, <1>8, OtherSteps DEF clockVars
    <2>2. user'.at \in {user.at, other[o]} /\ \A kind \in Table : row'[kind].at \in {row[kind].at, other[o]}
      <3>1. CASE Touch(o)
        BY <1>0, <3>1, OtherSteps
      <3>2. CASE Move(o)
        BY <1>0, <3>2, MoveStep DEF Table
      <3> QED
        BY <1>8, <3>1, <3>2
    <2>3. ASSUME NEW f \in Editor, Stamped(f)'
          PROVE  Stamped(f) /\ call'[f].now = call[f].now /\ call[f].now # other[o]
      <3>1. call'[f] = call[f] \/ call'[f] = Outdated(call[f], {"listed"})
        BY <1>0, <1>8, OtherSteps, MoveStep
      <3>2. Stamped(f) /\ call'[f].now = call[f].now
        BY <1>0, <2>3, <3>1, CallParts, MarkedCall DEF Stamped
      <3> QED
        BY <1>1, <2>1, <3>2 DEF StampsAreApart
    <2>4. \A p \in Other : other'[p] > 0 => other'[p] = other[p] /\ other[p] # other[o]
      BY <1>1, <2>1 DEF StampsAreApart
    <2>5. other[o] <= clock /\ \A p \in Other : other'[p] <= clock
      BY <1>1, <1>2, <2>1 DEF StampsArePast
    <2> QED
      BY <1>2, <1>3, <2>1, <2>2, <2>3, <2>4, <2>5
  <1>9. ASSUME UNCHANGED stampVars
        PROVE  StampsAreApart' /\ StampsArePast'
    BY <1>1, <1>9 DEF stampVars, StampsAreApart, StampsArePast, Pending, Stamped
  <1> QED
    BY <1>0, <1>4, <1>5, <1>6, <1>7, <1>8, <1>9, QuietSteps DEF StampsNext

-----------------------------------------------------------------------------
(* Views. *)

\* A version that nobody can still write stays so, and does not come back.
LEMMA PastStays ==
  ASSUME StampsTyped, StampsTyped', TimesStep, NEW version \in Time, NEW kind \in Table,
         Past(version)
  PROVE  Past(version)' /\ (Gone(version, kind) => Gone(version, kind)')
  <1>1. clock \in Nat /\ clock' \in Nat /\ version \in Nat
    BY StampsAssumption DEF StampsTyped, Time
  <1>2. version <= clock' /\ ~Pending(version)'
    BY <1>1 DEF TimesStep, Past
  <1>3. user'.at = version => user.at = version
    BY DEF TimesStep, Past
  <1>4. row'[kind].at = version => row[kind].at = version
    BY DEF TimesStep, Past
  <1> QED
    BY <1>2, <1>3, <1>4 DEF Past, Gone

\* A view stays fixed as long as neither the name nor the row changes.
LEMMA FixedStays ==
  ASSUME StampsTyped, StampsTyped', TimesStep, NEW kind \in Table, NEW view \in Views,
         user'.name = user.name
  PROVE  /\ NameFixed(view, kind) => NameFixed(view, kind)'
         /\ row'[kind] = row[kind] /\ Fixed(view, kind) => Fixed(view, kind)'
  <1>0. view.version \in Time
    BY DEF Views
  <1>1. NameFixed(view, kind) => NameFixed(view, kind)'
    BY <1>0, PastStays DEF NameFixed
  <1>2. row'[kind] = row[kind] /\ Same(View(kind), view) => Same(View(kind), view)'
    BY DEF Same, View
  <1>3. row'[kind] = row[kind] /\ Fixed(view, kind) => Fixed(view, kind)'
    BY <1>0, <1>2, PastStays DEF Fixed
  <1> QED
    BY <1>1, <1>3

\* An update through the endpoint of a view stamps its row with a later time than the
\* version it has seen.
LEMMA UpdateFixes ==
  ASSUME StampsTyped, StampsTyped', TimesStep, NEW e \in Editor, ApplyUpdate(e), CallOK(e),
         NEW view \in Views, NEW kind \in Table, kind = call[e].kind
  PROVE  /\ NameFixed(view, kind) => NameFixed(view, kind)'
         /\ Fixed(view, kind) => Fixed(view, kind)'
  <1>0. view.version \in Time /\ \A n \in Time : n \in Nat
    BY StampsAssumption DEF Views, Time
  <1>1. PICK now \in Time : now = call[e].now
    BY CallParts
  <1>2. /\ Stamped(e)
        /\ user' = user \/ user'.at = now
        /\ row'[kind].at = now /\ View(kind).version = call[e].seen.version
    BY <1>1, UpdateStep
  <1>3. Pending(now)
    BY <1>1, <1>2 DEF Pending
  <1>4. View(kind).version < now
    BY <1>1, <1>2 DEF CallOK, Valid, Stamped
  <1>5. /\ View(kind).version \in Time /\ user.at \in Time /\ row[kind].at \in Time
        /\ user.at <= View(kind).version /\ row[kind].at <= View(kind).version
    BY ViewIs DEF Views
  <1>6. ASSUME NameFixed(view, kind)
        PROVE  NameFixed(view, kind)'
    <2>1. Past(view.version)' /\ (Gone(view.version, kind) => Gone(view.version, kind)')
      BY <1>0, <1>6, PastStays DEF NameFixed
    <2>2. view.version # now
      BY <1>3, <1>6 DEF NameFixed, Past
    <2>3. user' = user \/ Gone(view.version, kind)'
      BY <1>2, <2>2 DEF Gone
    <2> QED
      BY <1>6, <2>1, <2>3 DEF NameFixed
  <1>7. ASSUME Fixed(view, kind)
        PROVE  Fixed(view, kind)'
    <2>1. Past(view.version)' /\ (Gone(view.version, kind) => Gone(view.version, kind)')
      BY <1>0, <1>7, PastStays DEF Fixed
    <2>2. view.version < now \/ Gone(view.version, kind)
      BY <1>0, <1>4, <1>5, <1>7 DEF Fixed, Gone
    <2> QED
      BY <1>2, <2>1, <2>2 DEF Fixed
  <1> QED
    BY <1>6, <1>7

\* What has just been read is what is there.
LEMMA ReadIsFixed ==
  ASSUME StampsTyped, StampsAreApart, StampsArePast, NEW kind \in Table
  PROVE  Fixed(View(kind), kind) /\ NameFixed(View(kind), kind)
  <1>1. View(kind).version \in {user.at, row[kind].at}
    BY ViewIs
  <1>2. Past(View(kind).version)
    BY <1>1 DEF StampsAreApart, StampsArePast, Past
  <1>3. Same(View(kind), View(kind)) /\ user.name = View(kind).name
    BY DEF Same, View
  <1> QED
    BY <1>2, <1>3 DEF Fixed, NameFixed

\* A fixed view whose version is the one that is there now says what the member
\* is now.
LEMMA FixedIsSame ==
  ASSUME StampsTyped, NEW kind \in Table, NEW view \in Views, view.version = View(kind).version
  PROVE  /\ Fixed(view, kind) => Same(View(kind), view)
         /\ NameFixed(view, kind) => user.name = view.name
  <1>1. /\ View(kind).version \in {user.at, row[kind].at}
        /\ row[kind].at <= View(kind).version
        /\ user.at \in Nat /\ row[kind].at \in Nat
    BY ViewIs, StampsAssumption DEF Time
  <1> QED
    BY <1>1 DEF Fixed, NameFixed, Gone

\* A call that takes no step stays as it has to be, if its views stay fixed or are
\* marked.
LEMMA OtherCallsOK ==
  ASSUME StampsTyped, StampsTyped', TimesStep, NEW f \in Editor, CallOK(f),
         NEW views \in SUBSET {"listed", "seen"}, "seen" \in views => "listed" \in views,
         (call'[f] = call[f] /\ views = {}) \/ call'[f] = Outdated(call[f], views),
         NEW kind, kind = call[f].kind,
         call[f].at = "listed" /\ "listed" \notin views =>
           \A view \in Views : Fixed(view, kind) => Fixed(view, kind)',
         call[f].at \in {"read", "stamped"} /\ "seen" \notin views =>
           \A view \in Views : NameFixed(view, kind) => NameFixed(view, kind)'
  PROVE  CallOK(f)'
  <1>1. PICK c \in Calls : c = call[f]
    BY CallParts
  <1>2. CallTyped(c) /\ Valid(c) /\ c.listed \in Views /\ c.seen \in Views
    BY <1>1, CallParts DEF CallOK
  <1>3. PICK d : d = call'[f]
    OBVIOUS
  <1>4. /\ d.at = c.at /\ d.kind = c.kind /\ d.listed = c.listed /\ d.seen = c.seen
        /\ d.now = c.now
        /\ c.at # "idle" => d.crossed = c.crossed \union views
    <2>1. CASE d = c /\ views = {}
      BY <2>1
    <2>2. CASE d = Outdated(c, views)
      BY <1>2, <2>2, MarkedCall
    <2> QED
      BY <1>1, <1>3, <2>1, <2>2
  <1>5. clock \in Nat /\ clock' \in Nat /\ clock <= clock' /\ c.seen.version \in Nat
    BY <1>2, StampsAssumption DEF StampsTyped, TimesStep, Time, Views
  <1>6. c.at = "listed" /\ "listed" \notin d.crossed => Fixed(c.listed, kind)'
    BY <1>1, <1>2, <1>4 DEF Valid
  <1>7. c.at \in {"read", "stamped"} /\ "seen" \notin d.crossed => NameFixed(c.seen, kind)'
    BY <1>1, <1>2, <1>4 DEF Valid
  <1>8. c.at \in {"read", "stamped"} => c.seen.version <= clock'
    BY <1>2, <1>5 DEF Valid
  <1>9. c.at \in {"read", "stamped"} /\ "listed" \notin d.crossed =>
          "seen" \notin d.crossed /\ (c.listed # Nothing => Same(c.seen, c.listed))
    BY <1>2, <1>4 DEF Valid
  <1>10. c.at = "stamped" => c.seen.version < c.now
    BY <1>2 DEF Valid
  <1>11. \A x : x.at = d.at /\ x.kind = d.kind /\ x.listed = d.listed /\ x.seen = d.seen
                 /\ x.now = d.now /\ x.crossed = d.crossed => Valid(x)'
    BY <1>1, <1>4, <1>6, <1>7, <1>8, <1>9, <1>10 DEF Valid, Same
  <1>12. Valid(d)'
    BY <1>11
  <1> QED
    BY <1>3, <1>12 DEF CallOK

\* All steps keep the calls as they have to be.
LEMMA CallsStayOK ==
  ASSUME StampsInvariant, ordered', [StampsNext]_stampVars
  PROVE  \A e \in Editor : CallOK(e)'
  <1>0. /\ StampsTyped /\ StampsTyped' /\ TimesStep
        /\ StampsAreApart /\ StampsArePast /\ \A e \in Editor : CallOK(e)
        /\ clock \in Nat /\ clock' \in Nat
    BY TimesMove, StampsTypesStay, StampsAssumption
       DEF StampsInvariant, TimesStep, StampsTyped, Time
  <1>1. ASSUME user'.name = user.name, row' = row, NEW f \in Editor, call'[f] = call[f]
        PROVE  CallOK(f)'
    <2>1. call[f].at # "idle" => call[f].kind \in Table
      BY <1>0, CallParts DEF CallTyped
    <2>2. PICK kind : kind = call[f].kind
      OBVIOUS
    <2>3. kind \in Table =>
            /\ \A view \in Views : Fixed(view, kind) => Fixed(view, kind)'
            /\ \A view \in Views : NameFixed(view, kind) => NameFixed(view, kind)'
      BY <1>0, <1>1, FixedStays
    <2>4. {} \in SUBSET {"listed", "seen"}
      OBVIOUS
    <2> QED
      BY <1>0, <1>1, <2>1, <2>2, <2>3, <2>4, OtherCallsOK
  <1>2. ASSUME NEW e \in Editor, NEW kind \in Table, ListMembers(e, kind)
        PROVE  \A f \in Editor : CallOK(f)'
    <2>1. /\ call'[e].at = "listed" /\ call'[e].kind = kind /\ call'[e].listed = View(kind)
          /\ OthersStay(e) /\ user' = user /\ row' = row
      BY <1>0, <1>2, ListStep
    <2>2. PICK view \in Views : view = View(kind)
      BY <1>0, ViewIs
    <2>3. Fixed(view, kind)'
      BY <1>0, <2>1, <2>2, ReadIsFixed, FixedStays
    <2>4. PICK d : d = call'[e]
      OBVIOUS
    <2>5. d.at = "listed" /\ d.kind = kind /\ d.listed = view
      BY <2>1, <2>2, <2>4
    <2>6. Valid(d)'
      BY <2>3, <2>5 DEF Valid
    <2>7. CallOK(e)'
      BY <2>4, <2>6 DEF CallOK
    <2> QED
      BY <1>1, <2>1, <2>7 DEF OthersStay
  <1>3. ASSUME NEW e \in Editor, NEW kind \in Table, NEW input \in Input, ReadTarget(e, kind, input)
        PROVE  \A f \in Editor : CallOK(f)'
    <2>1. /\ call'[e].at = "read" /\ call'[e].kind = kind /\ call'[e].seen = View(kind)
          /\ call'[e].listed = call[e].listed /\ call'[e].crossed = call[e].crossed \ {"seen"}
          /\ OthersStay(e) /\ user' = user /\ row' = row
      BY <1>0, <1>3, ReadStep
    <2>2. PICK view \in Views : view = View(kind)
      BY <1>0, ViewIs
    <2>3. NameFixed(view, kind)'
      BY <1>0, <2>1, <2>2, ReadIsFixed, FixedStays
    <2>4. view.version <= clock'
      <3>1. Past(view.version)'
        BY <2>3 DEF NameFixed
      <3> QED
        BY <3>1 DEF Past
    <2>5. \/ call[e] = NoCall
          \/ /\ call[e].at = "listed" /\ call[e].kind = kind
             /\ call[e].listed.version = View(kind).version
      <3>1. call[e].at = "idle" => call[e] = NoCall
        BY <1>0, CallParts DEF CallTyped
      <3> QED
        BY <1>3, <3>1 DEF ReadTarget
    <2>6. "listed" \notin call[e].crossed /\ call[e].listed # Nothing => Same(view, call[e].listed)
      <3>1. CASE call[e] = NoCall
        BY <3>1 DEF NoCall
      <3>2. CASE /\ call[e].at = "listed" /\ call[e].kind = kind
                 /\ call[e].listed.version = View(kind).version
        <4>1. PICK listed \in Views : listed = call[e].listed
          BY <1>0, CallParts
        <4>2. "listed" \notin call[e].crossed => Fixed(listed, kind)
          BY <1>0, <3>2, <4>1 DEF CallOK, Valid
        <4>3. Fixed(listed, kind) => Same(View(kind), listed)
          BY <1>0, <3>2, <4>1, FixedIsSame
        <4> QED
          BY <2>2, <4>1, <4>2, <4>3
      <3> QED
        BY <2>5, <3>1, <3>2
    <2>7. PICK d : d = call'[e]
      OBVIOUS
    <2>8. /\ d.at = "read" /\ d.kind = kind /\ d.seen = view
          /\ "listed" \notin d.crossed =>
               "seen" \notin d.crossed /\ (d.listed # Nothing => Same(d.seen, d.listed))
      BY <2>1, <2>2, <2>6, <2>7
    <2>9. Valid(d)'
      BY <2>3, <2>4, <2>8 DEF Valid, Same
    <2>10. CallOK(e)'
      BY <2>7, <2>9 DEF CallOK
    <2> QED
      BY <1>1, <2>1, <2>10 DEF OthersStay
  <1>4. ASSUME NEW e \in Editor, RefuseVersion(e) \/ RefuseState(e)
        PROVE  \A f \in Editor : CallOK(f)'
    <2>1. /\ call'[e] = NoCall /\ OthersStay(e) /\ user' = user /\ row' = row
      BY <1>0, <1>4, QuietSteps, EndStep
    <2>2. CallOK(e)'
      BY <2>1, NoCallTyped DEF CallOK, Valid
    <2> QED
      BY <1>1, <2>1, <2>2 DEF OthersStay
  <1>5. ASSUME NEW e \in Editor, ReadClock(e)
        PROVE  \A f \in Editor : CallOK(f)'
    <2>1. /\ call'[e].at = "stamped" /\ call'[e].now = clock' /\ clock' > clock
          /\ call'[e].kind = call[e].kind /\ call'[e].listed = call[e].listed
          /\ call'[e].seen = call[e].seen /\ call'[e].crossed = call[e].crossed
          /\ OthersStay(e) /\ call[e].at = "read" /\ user' = user /\ row' = row
      BY <1>0, <1>5, ClockStep
    <2>2. PICK c \in Calls : c = call[e]
      BY <1>0, CallParts
    <2>3. Valid(c) /\ c.at = "read" /\ c.seen \in Views /\ c.kind \in Table /\ c.seen.version \in Nat
      BY <1>0, <2>1, <2>2, CallParts, StampsAssumption DEF CallOK, CallTyped, Time
    <2>4. NameFixed(c.seen, c.kind) => NameFixed(c.seen, c.kind)'
      <3>1. PICK kind \in Table : kind = c.kind
        BY <2>3
      <3>2. PICK view \in Views : view = c.seen
        BY <2>3
      <3>3. NameFixed(view, kind) => NameFixed(view, kind)'
        BY <1>0, <2>1, FixedStays
      <3> QED
        BY <3>1, <3>2, <3>3
    <2>5. PICK d : d = call'[e]
      OBVIOUS
    <2>6. /\ d.at = "stamped" /\ d.kind = c.kind /\ d.listed = c.listed /\ d.seen = c.seen
          /\ d.crossed = c.crossed /\ d.now = clock'
      BY <2>1, <2>2, <2>5
    <2>7. c.seen.version <= clock' /\ c.seen.version < clock'
      BY <1>0, <2>1, <2>3 DEF Valid
    <2>8. Valid(d)'
      BY <2>3, <2>4, <2>6, <2>7 DEF Valid, Same
    <2>9. CallOK(e)'
      BY <2>5, <2>8 DEF CallOK
    <2> QED
      BY <1>1, <2>1, <2>9 DEF OthersStay
  <1>6. ASSUME NEW e \in Editor, ApplyUpdate(e), NEW f \in Editor
        PROVE  CallOK(f)'
    <2>1. CASE f = e
      BY <1>0, <1>6, <2>1, UpdateCalls, NoCallTyped DEF CallOK, Valid
    <2>2. CASE f # e /\ call'[f] = Outdated(call[f], {"listed", "seen"})
      BY <1>0, <2>2, OtherCallsOK
    <2>3. CASE f # e /\ call'[f] = call[f] /\ (call[f].kind = call[e].kind \/ user' = user)
      <3>1. call[f].at # "idle" => call[f].kind \in Table
        BY <1>0, CallParts DEF CallTyped
      <3>2. PICK kind : kind = call[f].kind
        OBVIOUS
      <3>3. ASSUME kind \in Table, NEW view \in Views
            PROVE  /\ Fixed(view, kind) => Fixed(view, kind)'
                   /\ NameFixed(view, kind) => NameFixed(view, kind)'
        <4>1. CASE kind = call[e].kind
          BY <1>0, <1>6, <3>3, <4>1, UpdateFixes
        <4>2. CASE kind # call[e].kind /\ user' = user
          BY <1>0, <1>6, <3>3, <4>2, UpdateStep, FixedStays
        <4> QED
          BY <2>3, <3>2, <4>1, <4>2
      <3>4. {} \in SUBSET {"listed", "seen"}
        OBVIOUS
      <3> QED
        BY <1>0, <2>3, <3>1, <3>2, <3>3, <3>4, OtherCallsOK
    <2> QED
      BY <1>0, <1>6, <2>1, <2>2, <2>3, UpdateCalls
  <1>7. ASSUME NEW o \in Other, OtherReadsClock(o) \/ Touch(o)
        PROVE  \A f \in Editor : CallOK(f)'
    BY <1>0, <1>1, <1>7, OtherSteps
  <1>8. ASSUME NEW o \in Other, Move(o), NEW f \in Editor
        PROVE  CallOK(f)'
    <2>1. /\ user' = user /\ row'["deployment"] = row["deployment"]
          /\ \/ call'[f] = Outdated(call[f], {"listed"})
             \/ call'[f] = call[f] /\ ~(call[f].kind = "organization" /\ call[f].at = "listed")
      BY <1>0, <1>8, MoveStep
    <2>2. call[f].at # "idle" => call[f].kind \in Table
      BY <1>0, CallParts DEF CallTyped
    <2>3. PICK kind : kind = call[f].kind
      OBVIOUS
    <2>4. kind \in Table =>
            /\ \A view \in Views : NameFixed(view, kind) => NameFixed(view, kind)'
            /\ kind = "deployment" => \A view \in Views : Fixed(view, kind) => Fixed(view, kind)'
      BY <1>0, <2>1, FixedStays
    <2>5. CASE call'[f] = Outdated(call[f], {"listed"})
      <3>1. call[f].at \in {"read", "stamped"} =>
              \A view \in Views : NameFixed(view, kind) => NameFixed(view, kind)'
        BY <2>2, <2>3, <2>4
      <3>2. {"listed"} \in SUBSET {"listed", "seen"}
        OBVIOUS
      <3> QED
        BY <1>0, <2>3, <2>5, <3>1, <3>2, OtherCallsOK
    <2>6. CASE call'[f] = call[f] /\ ~(call[f].kind = "organization" /\ call[f].at = "listed")
      <3>1. /\ call[f].at = "listed" => kind = "deployment" /\ kind \in Table
            /\ call[f].at # "idle" => kind \in Table
        BY <2>2, <2>3, <2>6 DEF Table
      <3>2. /\ call[f].at = "listed" =>
                 \A view \in Views : Fixed(view, kind) => Fixed(view, kind)'
            /\ call[f].at \in {"read", "stamped"} =>
                 \A view \in Views : NameFixed(view, kind) => NameFixed(view, kind)'
        BY <2>4, <2>6, <3>1
      <3>3. {} \in SUBSET {"listed", "seen"}
        OBVIOUS
      <3> QED
        BY <1>0, <2>3, <2>6, <3>2, <3>3, OtherCallsOK
    <2> QED
      BY <2>1, <2>5, <2>6
  <1>9. ASSUME UNCHANGED stampVars
        PROVE  \A f \in Editor : CallOK(f)'
    BY <1>1, <1>9 DEF stampVars
  <1> QED
    BY <1>2, <1>3, <1>4, <1>5, <1>6, <1>7, <1>8, <1>9 DEF StampsNext

\* For any number of editors and of others, and for any readings of the clocks: the
\* tables and the calls keep their types, and as long as the times are read in order
\* a version is never seen again after the member has changed, but by the ways that
\* mark the view (UpdateMember, UpdateDeploymentMember, and those who write the
\* account and the membership otherwise).
THEOREM StampsHold == StampsSpec => []StampsInvariant
  <1>1. StampsInvariant /\ [StampsNext]_stampVars => StampsInvariant'
    <2> SUFFICES ASSUME StampsInvariant, [StampsNext]_stampVars
                 PROVE  StampsInvariant'
      OBVIOUS
    <2>1. StampsTyped'
      BY StampsTypesStay DEF StampsInvariant
    <2>2. ordered' => StampsAreApart' /\ StampsArePast' /\ \A e \in Editor : CallOK(e)'
      BY StampsStayApart, CallsStayOK
    <2> QED
      BY <2>1, <2>2 DEF StampsInvariant
  <1> QED
    BY <1>1, StampsInitially, PTL DEF StampsSpec

\* With both endpoints in use, and until a clock goes back or stands still, no update
\* (UpdateMember, UpdateDeploymentMember) is applied to a member that is no longer what
\* the service has read or the client was shown, unless another way than the endpoint
\* has outdated the view.  Without these exceptions it is false (MCStampsTwoTables.cfg).
THEOREM StaleUpdatesRefused == StampsSpec => StaleUpdatesAreRefused
  <1>1. ASSUME StampsInvariant, NEW e \in Editor, ApplyUpdate(e), ordered,
               NEW view \in {"listed", "seen"} \ call[e].crossed
        PROVE  Finds(e, view)
    <2>0. StampsTyped
      BY <1>1 DEF StampsInvariant
    <2>1. PICK kind \in Table : kind = call[e].kind
      BY <1>1, <2>0, UpdateStep
    <2>2. PICK seen \in Views : seen = call[e].seen
      BY <2>0, CallParts
    <2>3. /\ Stamped(e) /\ View(kind).version = seen.version
          /\ row[kind].role = seen.role /\ row[kind].status = seen.status
      BY <1>1, <2>0, <2>1, <2>2, UpdateStep
    <2>4. /\ "seen" \notin call[e].crossed => NameFixed(seen, kind)
          /\ "listed" \notin call[e].crossed =>
               /\ "seen" \notin call[e].crossed
               /\ call[e].listed # Nothing => Same(seen, call[e].listed)
      BY <1>1, <2>1, <2>2, <2>3 DEF StampsInvariant, CallOK, Valid, Stamped
    <2>5. "seen" \notin call[e].crossed
      BY <1>1, <2>4
    <2>6. user.name = seen.name
      BY <2>0, <2>3, <2>4, <2>5, FixedIsSame
    <2>7. Same(View(kind), seen)
      BY <2>3, <2>6 DEF Same, View
    <2>8. CASE view = "seen"
      BY <2>1, <2>2, <2>7, <2>8 DEF Finds
    <2>9. CASE view = "listed"
      BY <1>1, <2>1, <2>4, <2>7, <2>9 DEF Finds, Same
    <2> QED
      BY <2>8, <2>9
  <1>2. StampsInvariant /\ [StampsNext]_stampVars =>
          [\A e \in Editor : ApplyUpdate(e) /\ ordered =>
             \A view \in {"listed", "seen"} \ call[e].crossed : Finds(e, view)]_stampVars
    BY <1>1
  <1> QED
    BY <1>2, StampsHold, PTL DEF StaleUpdatesAreRefused, StampsSpec

\* For all clocks and whoever else writes: an update (UpdateMember,
\* UpdateDeploymentMember) gives the member no role and no status that is neither in the
\* request nor in the row.
THEOREM AuthorityKept == StampsSpec => AuthorityIsKept
  <1>1. ASSUME StampsTyped, NEW e \in Editor, ApplyUpdate(e), NEW field \in {"role", "status"},
               call[e].input[field] = Keep
        PROVE  row'[call[e].kind][field] = row[call[e].kind][field]
    <2>1. PICK kind \in Table : kind = call[e].kind
      BY <1>1, UpdateStep
    <2>2. /\ row'[kind].role = Next(e, "role") /\ row'[kind].status = Next(e, "status")
          /\ row[kind].role = call[e].seen.role /\ row[kind].status = call[e].seen.status
      BY <1>1, <2>1, UpdateStep
    <2>3. Next(e, field) = call[e].seen[field]
      BY <1>1 DEF Next
    <2>4. CASE field = "role"
      BY <2>1, <2>2, <2>3, <2>4
    <2>5. CASE field = "status"
      BY <2>1, <2>2, <2>3, <2>5
    <2> QED
      BY <2>4, <2>5
  <1>2. StampsTyped /\ [StampsNext]_stampVars =>
          [\A e \in Editor : ApplyUpdate(e) =>
             \A field \in {"role", "status"} : call[e].input[field] = Keep =>
               row'[call[e].kind][field] = row[call[e].kind][field]]_stampVars
    BY <1>1
  <1>3. StampsSpec => []StampsTyped
    <2>1. StampsInvariant => StampsTyped
      BY DEF StampsInvariant
    <2> QED
      BY <2>1, StampsHold, PTL
  <1> QED
    BY <1>2, <1>3, PTL DEF AuthorityIsKept, StampsSpec
===============================================================================
