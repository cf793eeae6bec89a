----------------------------- MODULE SetupProofs -----------------------------
(* What setup and the imports leave, for any numbers of accounts and            *)
(* organizations: one deployment, or, after a Nexus without an active account,  *)
(* that of the import and that of setup.                                        *)
EXTENDS SetupImport, FiniteSetTheorems, WellFoundedInduction, TLAPS

SourceRow == [role : Role, status : {"active", "revoked", "disabled"}] \union {NoRow}
TargetRow == Row \union {NoRow}

\* What the sources hold and what the commands have read of them.
SourcesOK ==
  /\ source \in [nexus : [users : [User -> SourceRow], bound : SUBSET Account],
                 control : [dep : [User -> SourceRow], om : [Org -> [User -> TargetRow]]]]
  /\ "control" \in Jobs => HasActive(source.control.dep)

JobsOK ==
  /\ job \in [Jobs -> [at : {"idle", "checked", "scanned", "ready"}, dep : [User -> SourceRow],
                       om : [Org -> [User -> TargetRow]], bound : SUBSET Account]]
  /\ "control" \in Jobs /\ job["control"].at = "ready" => HasActive(job["control"].dep)

\* A deployment has an active member from the transaction that creates it on, so
\* neither setup (which counts active members) nor an import (which counts
\* deployments) creates a second one.  The exception is a Nexus whose accounts are all
\* disabled: setup comes after it, and then there is an active member.
OneWithMembers ==
  \/ deployments = {}
  \/ \E d \in {"setup", "nexus", "control"} : deployments = {d} /\ HasActive(dep)
  \/ /\ "nexus" \in deployments /\ deployments \subseteq {"nexus", "setup"}
     /\ ~HasActive(origin.dep)
     /\ "setup" \in deployments => HasActive(dep)

ImportInvariant == ImportTypeOK /\ SourcesOK /\ JobsOK /\ OneWithMembers

-----------------------------------------------------------------------------
\* The status an imported row gets (importUser): active if the account was.
LEMMA ImportedRows ==
  ASSUME NEW row \in SourceRow
  PROVE  /\ imported(row) \in TargetRow
         /\ row.status = "active" => imported(row).status = "active"
BY DEF SourceRow, TargetRow, Row, NoRow, imported, membershipStatus

\* The organization that import-nexus fills (importUser) is well typed.
LEMMA ImportedUsers ==
  ASSUME NEW m \in [User -> SourceRow], NEW u \in User
  PROVE  importUser(m, u) \in TargetRow
<1>1. CASE m[u] = NoRow
  BY <1>1 DEF importUser, imported, organizationRole, ActiveOwner, NoRow, TargetRow
<1>2. CASE m[u] # NoRow
  <2>1. organizationRole(m, u) \in Role
    BY <1>2 DEF organizationRole, SourceRow, Role
  <2>2. imported(m[u]) = [role |-> m[u].role, status |-> membershipStatus(m[u])]
    BY <1>2 DEF imported
  <2>3. membershipStatus(m[u]) \in {"active", "revoked"}
    BY DEF membershipStatus
  <2>. QED
    BY <2>1, <2>2, <2>3 DEF importUser, TargetRow, Row
<1>. QED
  BY <1>1, <1>2

\* One transaction of importDeployment, whichever command runs it.
LEMMA ImportStep ==
  ASSUME ImportInvariant, NEW j \in Jobs,
         NEW organizations \in [Org -> [User -> TargetRow]],
         importDeployment(j, organizations)
  PROVE  ImportInvariant'
<1>1. /\ job[j].dep \in [User -> SourceRow]
      /\ j = "control" => HasActive(job[j].dep)
  BY DEF ImportInvariant, JobsOK, importDeployment
<1>2. j \in {"nexus", "control"}
  BY ImportAssumption
<1>3. dep' \in [User -> TargetRow]
  BY <1>1, ImportedRows DEF importDeployment
<1>4. ASSUME HasActive(job[j].dep)
      PROVE  HasActive(dep')
  <2>1. PICK u \in User : job[j].dep[u].status = "active"
    BY <1>4 DEF HasActive
  <2>2. dep'[u].status = "active"
    BY <1>1, <2>1, ImportedRows DEF importDeployment
  <2>. QED
    BY <2>2 DEF HasActive
<1>5. deployments' = {j}
  BY DEF importDeployment, TargetEmpty
<1>6. ImportTypeOK'
  BY <1>2, <1>3, <1>5 DEF ImportTypeOK, TargetRow, importDeployment
<1>7. SourcesOK'
  BY DEF ImportInvariant, SourcesOK, HasActive, importDeployment
<1>8. JobsOK'
  <2>1. Idle \in [at : {"idle", "checked", "scanned", "ready"}, dep : [User -> SourceRow],
                  om : [Org -> [User -> TargetRow]], bound : SUBSET Account]
    BY DEF Idle, NoMembers, NoOrgs, SourceRow, TargetRow
  <2>2. Idle.at = "idle"
    BY DEF Idle
  <2>. QED
    BY <2>1, <2>2 DEF ImportInvariant, JobsOK, importDeployment
<1>9. OneWithMembers'
  <2>1. origin' = job[j]
    BY DEF importDeployment
  <2>2. CASE HasActive(job[j].dep)
    BY <1>2, <1>4, <1>5, <2>2 DEF OneWithMembers, HasActive
  <2>3. CASE ~HasActive(job[j].dep)
    <3>1. deployments' = {"nexus"}
      BY <1>1, <1>2, <1>5, <2>3
    <3>2. ~HasActive(origin.dep)'
      BY <2>1, <2>3 DEF HasActive
    <3>. QED
      BY <3>1, <3>2 DEF OneWithMembers
  <2>. QED
    BY <2>2, <2>3
<1>. QED
  BY <1>6, <1>7, <1>8, <1>9 DEF ImportInvariant
-----------------------------------------------------------------------------
\* Every row that a source may hold.
LEMMA SourceTables ==
  /\ \A m \in Tables({"active", "disabled"}) : m \in [User -> SourceRow]
  /\ \A m \in Tables({"active", "revoked"}) :
       m \in [User -> SourceRow] /\ m \in [User -> TargetRow]
BY DEF Tables, SourceRow, TargetRow, Row

\* The databases and sources that commands may find satisfy the invariant.
LEMMA InitialImport ==
  ASSUME ImportInit
  PROVE  ImportInvariant
<1>. USE DEF ImportInit
<1>1. ImportTypeOK
  BY DEF ImportTypeOK, NoMembers, NoOrgs
<1>2. NoMembers \in [User -> SourceRow] /\ NoOrgs \in [Org -> [User -> TargetRow]]
  BY DEF NoMembers, NoOrgs, SourceRow, TargetRow
<1>3. source.nexus \in [users : [User -> SourceRow], bound : SUBSET Account]
  <2>1. CASE "nexus" \in Jobs
    <3>1. source.nexus \in NexusSources
      BY <2>1
    <3>. QED
      BY <3>1, SourceTables DEF NexusSources
  <2>2. CASE "nexus" \notin Jobs
    <3>1. source.nexus = [users |-> NoMembers, bound |-> {}]
      BY <2>2
    <3>. QED
      BY <2>2, <3>1, <1>2
  <2>. QED
    BY <2>1, <2>2
<1>4. /\ source.control \in [dep : [User -> SourceRow], om : [Org -> [User -> TargetRow]]]
      /\ "control" \in Jobs => HasActive(source.control.dep)
  <2>1. CASE "control" \in Jobs
    <3>1. /\ source.control \in [dep : Tables({"active", "revoked"}), om : ControlOrganizations]
          /\ HasControlOwner(source.control.dep)
      BY <2>1 DEF ControlSources
    <3>2. source.control.om \in [Org -> [User -> TargetRow]]
      BY <3>1, SourceTables DEF ControlOrganizations
    <3>3. HasActive(source.control.dep)
      BY <3>1 DEF HasControlOwner, ActiveOwners, ActiveOwner, HasActive
    <3>. QED
      BY <3>1, <3>2, <3>3, SourceTables
  <2>2. CASE "control" \notin Jobs
    <3>1. source.control = [dep |-> NoMembers, om |-> NoOrgs]
      BY <2>2
    <3>. QED
      BY <2>2, <3>1, <1>2
  <2>. QED
    BY <2>1, <2>2
<1>5. SourcesOK
  BY <1>3, <1>4 DEF SourcesOK
<1>6. JobsOK
  BY <1>2 DEF JobsOK, Idle
<1>7. OneWithMembers
  BY DEF OneWithMembers
<1>. QED
  BY <1>1, <1>5, <1>6, <1>7 DEF ImportInvariant

\* A step that leaves the target alone has only the sources and what was read to
\* keep in order.
LEMMA ReadStep ==
  ASSUME ImportInvariant, UNCHANGED target, SourcesOK', JobsOK'
  PROVE  ImportInvariant'
BY DEF ImportInvariant, ImportTypeOK, OneWithMembers, HasActive, target

\* What one command may hold of its source.
ReadSoFar(r) ==
  r \in [at : {"idle", "checked", "scanned", "ready"}, dep : [User -> SourceRow],
         om : [Org -> [User -> TargetRow]], bound : SUBSET Account]

\* A read of import-nexus (ScanUsers, scanImportedSubscriptions) is its own.
LEMMA JobStep ==
  ASSUME JobsOK, "nexus" \in Jobs, NEW r, ReadSoFar(r), job' = [job EXCEPT !["nexus"] = r]
  PROVE  JobsOK'
BY DEF JobsOK, ReadSoFar, HasActive

\* No action breaks the invariant (CreateOwner, importDeployment and the reads).
LEMMA NextImport ==
  ASSUME ImportInvariant, [ImportNext]_importVars
  PROVE  ImportInvariant'
<1>. USE DEF ImportInvariant
<1>s. UNCHANGED source => SourcesOK'
  BY DEF SourcesOK, HasActive
<1>j. UNCHANGED job => JobsOK'
  BY DEF JobsOK, HasActive
<1>1. CASE CreateOwner
  <2>1. \/ deployments = {}
        \/ deployments = {"nexus"} /\ ~HasActive(origin.dep)
    BY <1>1 DEF CreateOwner, SetupRequired, OneWithMembers
  <2>2. dep' \in [User -> TargetRow] /\ dep'[Founder] = ActiveOwner
    BY <1>1 DEF CreateOwner, ImportTypeOK, TargetRow, Row, Role, ActiveOwner, User
  <2>3. om' \in [Org -> [User -> TargetRow]]
    BY <1>1, ImportAssumption DEF CreateOwner, ImportTypeOK, TargetRow, Row, Role, ActiveOwner, User
  <2>4. /\ deployments' = deployments \union {"setup"}
        /\ ~HasActive(origin.dep) => ~HasActive(origin.dep)'
    BY <1>1 DEF CreateOwner, HasActive
  <2>5. HasActive(dep')
    BY <2>2 DEF HasActive, ActiveOwner, User
  <2>6. OneWithMembers' /\ ImportTypeOK'
    <3>1. OneWithMembers'
      BY <2>1, <2>4, <2>5 DEF OneWithMembers, HasActive
    <3>2. ImportTypeOK'
      BY <2>1, <2>2, <2>3, <2>4 DEF ImportTypeOK, TargetRow
    <3>. QED
      BY <3>1, <3>2
  <2>. QED
    BY <1>1, <1>s, <1>j, <2>6 DEF CreateOwner
<1>2. CASE "nexus" \in Jobs /\ NexusNext
  <2>1. CASE CheckState
    <3>1. JobsOK'
      BY <1>2, <2>1 DEF CheckState, JobsOK, HasActive
    <3>. QED
      BY <2>1, <3>1, <1>s, ReadStep DEF CheckState
  <2>2. CASE ScanUsers
    <3>2. job' = [job EXCEPT !["nexus"] =
                    [job["nexus"] EXCEPT !.at = "scanned", !.dep = source.nexus.users]]
      BY <2>2 DEF ScanUsers
    <3>3. source.nexus.users \in [User -> SourceRow]
      BY <1>2 DEF SourcesOK
    <3>4. ReadSoFar([job["nexus"] EXCEPT !.at = "scanned", !.dep = source.nexus.users])
      BY <1>2, <3>3 DEF JobsOK, ReadSoFar
    <3>1. JobsOK'
      BY <1>2, <3>2, <3>4, JobStep
    <3>. QED
      BY <2>2, <3>1, <1>s, ReadStep DEF ScanUsers
  <2>3. CASE scanImportedSubscriptions
    <3>2. job' = [job EXCEPT !["nexus"] =
                    [job["nexus"] EXCEPT !.at = "ready", !.bound = source.nexus.bound]]
      BY <2>3 DEF scanImportedSubscriptions
    <3>3. job["nexus"].at = "scanned" /\ source.nexus.bound \in SUBSET Account
      BY <2>3 DEF SourcesOK, scanImportedSubscriptions
    <3>4. ReadSoFar([job["nexus"] EXCEPT !.at = "ready", !.bound = source.nexus.bound])
      BY <1>2, <3>3 DEF JobsOK, ReadSoFar
    <3>1. JobsOK'
      BY <1>2, <3>2, <3>4, JobStep
    <3>. QED
      BY <2>3, <3>1, <1>s, ReadStep DEF scanImportedSubscriptions
  <2>4. CASE ImportNexusSQLite
    <3>1. job["nexus"].dep \in [User -> SourceRow]
      BY <1>2 DEF JobsOK
    <3>2. [u \in User |-> importUser(job["nexus"].dep, u)] \in [User -> TargetRow]
      BY <3>1, ImportedUsers
    <3>3. [NoOrgs EXCEPT ![Home] = [u \in User |-> importUser(job["nexus"].dep, u)]]
            \in [Org -> [User -> TargetRow]]
      BY <3>2 DEF NoOrgs, NoMembers, TargetRow
    <3>. QED
      BY <1>2, <2>4, <3>3, ImportStep DEF ImportNexusSQLite
  <2>5. CASE SourceWrites
    <3>1. PICK u \in Account, row \in [role : Role, status : {"active"}] :
            /\ source.nexus.users[u] = NoRow
            /\ source' = [source EXCEPT !.nexus.users[u] = row,
                                        !.nexus.bound = @ \union {u}]
      BY <2>5 DEF SourceWrites
    <3>2. source'.nexus.users = [source.nexus.users EXCEPT ![u] = row]
      BY <3>1 DEF SourcesOK
    <3>3. row \in SourceRow /\ row.status = "active" /\ u \in User
      BY DEF SourceRow, User
    <3>4. /\ source'.nexus.users \in [User -> SourceRow]
          /\ source'.nexus.users[u].status = "active"
      BY <3>2, <3>3 DEF SourcesOK
    <3>5. SourcesOK'
      BY <3>1, <3>3, <3>4 DEF SourcesOK, HasActive
    <3>. QED
      BY <2>5, <3>5, <1>j, ReadStep DEF SourceWrites
  <2>. QED
    BY <1>2, <2>1, <2>2, <2>3, <2>4, <2>5 DEF NexusNext
<1>3. CASE "control" \in Jobs /\ ControlNext
  <2>1. CASE scanControlSnapshot
    <3>1. JobsOK'
      BY <1>3, <2>1 DEF scanControlSnapshot, JobsOK, SourcesOK, HasActive
    <3>. QED
      BY <2>1, <3>1, <1>s, ReadStep DEF scanControlSnapshot
  <2>2. CASE ImportControlSQLite
    <3>1. job["control"].om \in [Org -> [User -> TargetRow]]
      BY <1>3 DEF JobsOK
    <3>. QED
      BY <1>3, <2>2, <3>1, ImportStep DEF ImportControlSQLite
  <2>. QED
    BY <1>3, <2>1, <2>2 DEF ControlNext
<1>4. CASE \E j \in Jobs : Fail(j)
  <2>1. Idle \in [at : {"idle", "checked", "scanned", "ready"}, dep : [User -> SourceRow],
                  om : [Org -> [User -> TargetRow]], bound : SUBSET Account]
    BY DEF Idle, NoMembers, NoOrgs, SourceRow, TargetRow
  <2>2. Idle.at = "idle"
    BY DEF Idle
  <2>3. JobsOK'
    BY <1>4, <2>1, <2>2 DEF Fail, JobsOK
  <2>. QED
    BY <1>4, <2>3, <1>s, ReadStep DEF Fail
<1>5. CASE UNCHANGED importVars
  BY <1>5, <1>s, <1>j, ReadStep DEF importVars
<1>. QED
  BY <1>1, <1>2, <1>3, <1>4, <1>5 DEF ImportNext

-----------------------------------------------------------------------------
\* The inductive invariant: sources, commands and target keep their types, and the
\* deployment that there is has an active member, or comes from a Nexus without one.
THEOREM ImportHolds == ImportSpec => []ImportInvariant
<1>1. ImportInit => ImportInvariant
  BY InitialImport
<1>2. ImportInvariant /\ [ImportNext]_importVars => ImportInvariant'
  BY NextImport
<1>. QED
  BY <1>1, <1>2, PTL DEF ImportSpec

\* However setup and the imports interleave, fail and are repeated, there is one
\* deployment at most (CreateOwner, importDeployment); two only if a Nexus whose
\* accounts are all disabled was imported before setup.
THEOREM OneDeployment == ImportSpec => []SingleDeployment
<1>1. ImportInvariant => SingleDeployment
  <2>1. CASE deployments = {}
    BY <2>1, FS_EmptySet DEF SingleDeployment, OneDeploymentAtMost
  <2>2. ASSUME NEW d, deployments = {d}
        PROVE  SingleDeployment
    <3>1. Cardinality({d}) = 1
      BY FS_Singleton
    <3>. QED
      BY <2>2, <3>1 DEF SingleDeployment, OneDeploymentAtMost
  <2>3. CASE deployments = {"nexus", "setup"} /\ ~HasActive(origin.dep)
    BY <2>3 DEF SingleDeployment
  <2>. QED
    BY <2>1, <2>2, <2>3 DEF ImportInvariant, OneWithMembers
<1>. QED
  BY <1>1, ImportHolds, PTL
-----------------------------------------------------------------------------
(* What an import leaves. *)

\* The rows of the target are the rows that the import had read, as importUser and
\* scanControlUsers write them.  A Control has an active owner, and so had the
\* command that has read it.
ImportKept ==
  /\ "control" \in Jobs =>
       /\ source.control.dep \in [User -> TargetRow]
       /\ ActiveOwners(source.control.dep) # {}
       /\ job["control"].at = "ready" =>
            job["control"].dep \in [User -> TargetRow] /\ ActiveOwners(job["control"].dep) # {}
  /\ deployments = {"nexus"} =>
       /\ origin.dep \in [User -> SourceRow]
       /\ dep = [u \in User |-> imported(origin.dep[u])]
       /\ om[Home] = [u \in User |-> importUser(origin.dep, u)]
  /\ deployments = {"control"} =>
       om = origin.om /\ dep = origin.dep /\ ActiveOwners(dep) # {}

\* A row of a Control is imported as it is.
LEMMA ControlRows ==
  ASSUME NEW m \in [User -> TargetRow]
  PROVE  [u \in User |-> imported(m[u])] = m
<1>1. \A row \in TargetRow : imported(row) = row
  BY DEF TargetRow, Row, NoRow, imported, membershipStatus
<1>. QED
  BY <1>1

\* An active owner comes with every Control, and nothing is imported yet.
LEMMA KeptAtStart ==
  ASSUME ImportInit
  PROVE  ImportKept
<1>1. ASSUME "control" \in Jobs
      PROVE  source.control.dep \in [User -> TargetRow] /\ ActiveOwners(source.control.dep) # {}
  <2>1. source.control \in ControlSources
    BY <1>1 DEF ImportInit
  <2>2. /\ source.control.dep \in Tables({"active", "revoked"})
        /\ HasControlOwner(source.control.dep)
    BY <2>1 DEF ControlSources
  <2>. QED
    BY <2>2, SourceTables DEF HasControlOwner
<1>2. ASSUME "control" \in Jobs
      PROVE  job["control"].at # "ready"
  BY <1>2 DEF ImportInit, Idle
<1>3. deployments = {}
  BY DEF ImportInit
<1>. QED
  BY <1>1, <1>2, <1>3 DEF ImportKept

\* Only the import that creates the deployment writes the target.
LEMMA KeptStep ==
  ASSUME ImportInvariant, ImportKept, [ImportNext]_importVars
  PROVE  ImportKept'
<1>0. Idle.at = "idle"
  BY DEF Idle
<1>1. CASE CreateOwner
  <2>1. /\ deployments' = deployments \union {"setup"}
        /\ UNCHANGED <<source, job, origin>>
    BY <1>1 DEF CreateOwner
  <2>. QED
    BY <1>1, <2>1 DEF CreateOwner, ImportKept
<1>2. ASSUME "nexus" \in Jobs, UNCHANGED target, UNCHANGED source.control,
             NEW r, job' = [job EXCEPT !["nexus"] = r]
      PROVE  ImportKept'
  <2>1. "control" \in Jobs => job'["control"] = job["control"]
    BY <1>2 DEF ImportInvariant, JobsOK
  <2>2. UNCHANGED <<deployments, dep, om, origin>>
    BY <1>2 DEF target
  <2>. QED
    BY <1>2, <2>1, <2>2 DEF ImportKept
<1>3. CASE "nexus" \in Jobs /\ NexusNext /\ ~ImportNexusSQLite /\ ~SourceWrites
  <2>1. UNCHANGED <<source, target>> /\ \E r : job' = [job EXCEPT !["nexus"] = r]
    <3>1. CASE CheckState
      <4>1. job' = [job EXCEPT !["nexus"] = [job["nexus"] EXCEPT !.at = "checked"]]
        BY <3>1 DEF CheckState
      <4>. QED
        BY <3>1, <4>1 DEF CheckState
    <3>2. CASE ScanUsers
      <4>1. job' = [job EXCEPT !["nexus"] =
                      [job["nexus"] EXCEPT !.at = "scanned", !.dep = source.nexus.users]]
        BY <3>2 DEF ScanUsers
      <4>. QED
        BY <3>2, <4>1 DEF ScanUsers
    <3>3. CASE scanImportedSubscriptions
      <4>1. job' = [job EXCEPT !["nexus"] =
                      [job["nexus"] EXCEPT !.at = "ready", !.bound = source.nexus.bound]]
        BY <3>3 DEF scanImportedSubscriptions
      <4>. QED
        BY <3>3, <4>1 DEF scanImportedSubscriptions
    <3>. QED
      BY <1>3, <3>1, <3>2, <3>3 DEF NexusNext
  <2>. QED
    BY <1>2, <1>3, <2>1
<1>4. CASE "nexus" \in Jobs /\ SourceWrites
  <2>1. UNCHANGED <<job, target>> /\ source'.control = source.control
    BY <1>4 DEF SourceWrites, ImportInvariant, SourcesOK
  <2>. QED
    BY <2>1 DEF ImportKept, target
<1>5. ASSUME NEW j \in Jobs, NEW organizations, importDeployment(j, organizations)
      PROVE  /\ deployments' = {j} /\ source' = source
             /\ dep' = [u \in User |-> imported(job[j].dep[u])]
             /\ om' = organizations /\ origin' = job[j]
             /\ \A k \in Jobs : job'[k] = IF k = j THEN Idle ELSE job[k]
  BY <1>5 DEF importDeployment, TargetEmpty, ImportInvariant, JobsOK
<1>6. CASE "nexus" \in Jobs /\ ImportNexusSQLite
  <2> DEFINE organizations ==
        [NoOrgs EXCEPT ![Home] = [u \in User |-> importUser(job["nexus"].dep, u)]]
  <2>1. importDeployment("nexus", organizations)
    BY <1>6 DEF ImportNexusSQLite
  <2>2. organizations[Home] = [u \in User |-> importUser(job["nexus"].dep, u)]
    BY ImportAssumption DEF NoOrgs
  <2>3. job["nexus"].dep \in [User -> SourceRow]
    BY <1>6 DEF ImportInvariant, JobsOK
  <2>. HIDE DEF organizations
  <2>. QED
    BY <1>0, <1>5, <1>6, <2>1, <2>2, <2>3 DEF ImportKept
<1>7. CASE "control" \in Jobs /\ scanControlSnapshot
  <2>1. /\ job'["control"].dep = source.control.dep
        /\ UNCHANGED <<source, deployments, dep, om, origin>>
    BY <1>7 DEF scanControlSnapshot, ImportInvariant, JobsOK, target
  <2>. QED
    BY <2>1 DEF ImportKept
<1>8. CASE "control" \in Jobs /\ ImportControlSQLite
  <2>1. importDeployment("control", job["control"].om) /\ job["control"].at = "ready"
    BY <1>8 DEF ImportControlSQLite, importDeployment
  <2>2. [u \in User |-> imported(job["control"].dep[u])] = job["control"].dep
    BY <1>8, <2>1, ControlRows DEF ImportKept
  <2>. QED
    BY <1>0, <1>5, <1>8, <2>1, <2>2 DEF ImportKept
<1>9. ASSUME NEW j \in Jobs, Fail(j)
      PROVE  ImportKept'
  <2>1. /\ UNCHANGED <<source, deployments, dep, om, origin>>
        /\ \A k \in Jobs : job'[k] = IF k = j THEN Idle ELSE job[k]
    BY <1>9 DEF Fail, ImportInvariant, JobsOK, target
  <2>. QED
    BY <1>0, <2>1 DEF ImportKept
<1>10. CASE UNCHANGED importVars
  BY <1>10 DEF importVars, target, ImportKept
<1>. QED
  BY <1>1, <1>3, <1>4, <1>6, <1>7, <1>8, <1>9, <1>10 DEF ImportNext, NexusNext, ControlNext

\* What an import leaves is what it had read, as long as the deployment is its own.
THEOREM ImportsAreKept == ImportSpec => [](ImportInvariant /\ ImportKept)
<1>1. ImportInit => ImportInvariant /\ ImportKept
  BY InitialImport, KeptAtStart
<1>2. ImportInvariant /\ ImportKept /\ [ImportNext]_importVars => ImportInvariant' /\ ImportKept'
  BY NextImport, KeptStep
<1>. QED
  BY <1>1, <1>2, PTL DEF ImportSpec

\* An import of a Control keeps roles and organizations as they are, and brings an
\* active platform owner (scanControlOrganizations, scanControlUsers).
THEOREM ControlRolesAreKept == ImportSpec => []ControlImportKeepsRoles
<1>1. ImportInvariant /\ ImportKept => ControlImportKeepsRoles
  BY DEF ImportKept, ControlImportKeepsRoles
<1>. QED
  BY <1>1, ImportsAreKept, PTL

\* Of the accounts that are active owners one came first.
LEMMA EarliestExists ==
  ASSUME NEW owners, owners \subseteq User, owners # {}
  PROVE  \E u \in owners : \A v \in owners : u <= v
<1>. DEFINE R == {p \in Nat \X Nat : p[1] < p[2]}
<1>1. owners \subseteq Nat
  BY ImportAssumption DEF User, Account, Founder
<1>2. PICK u \in owners : \A v \in owners : ~(<<v, u>> \in R)
  <2>1. IsWellFoundedOn(R, Nat)
    BY NatLessThanWellFounded DEF OpToRel
  <2>. HIDE DEF R
  <2>. QED
    BY <1>1, <2>1, WFMin
<1>3. ASSUME NEW v \in owners, v < u
      PROVE  FALSE
  <2>1. <<v, u>> \in Nat \X Nat /\ <<v, u>>[1] = v /\ <<v, u>>[2] = u
    BY <1>1
  <2>2. <<v, u>> \in R
    BY <1>3, <2>1
  <2>. QED
    BY <1>2, <2>2
<1>. QED
  BY <1>1, <1>3

\* Who is an active owner of the platform, and of the organization, by an import of
\* Nexus (importUser).
LEMMA ImportedOwners ==
  ASSUME NEW m \in [User -> SourceRow], NEW u \in User
  PROVE  /\ imported(m[u]) = ActiveOwner <=> m[u] = ActiveOwner
         /\ imported(m[u]).status = "active" <=> m[u].status = "active"
         /\ importUser(m, u).status = imported(m[u]).status
         /\ importUser(m, u) = ActiveOwner <=>
              m[u] = ActiveOwner /\ \A v \in ActiveOwners(m) : ~(v < u)
<1>1. CASE m[u] = NoRow
  BY <1>1 DEF importUser, imported, organizationRole, ActiveOwner, NoRow
<1>2. CASE m[u] # NoRow
  <2>1. /\ m[u] \in [role : Role, status : {"active", "revoked", "disabled"}]
        /\ imported(m[u]) = [role |-> m[u].role, status |-> membershipStatus(m[u])]
    BY <1>2 DEF SourceRow, imported
  <2>2. membershipStatus(m[u]) = "active" <=> m[u].status = "active"
    BY DEF membershipStatus
  <2>3. importUser(m, u) = [role |-> organizationRole(m, u), status |-> membershipStatus(m[u])]
    BY <2>1 DEF importUser
  <2>4. m[u] = ActiveOwner <=> m[u].role = "owner" /\ m[u].status = "active"
    BY <2>1 DEF ActiveOwner
  <2>5. organizationRole(m, u) = "owner" /\ m[u].status = "active" <=>
          m[u] = ActiveOwner /\ \A v \in ActiveOwners(m) : ~(v < u)
    BY <2>4 DEF organizationRole
  <2>. QED
    BY <2>1, <2>2, <2>3, <2>4, <2>5 DEF ActiveOwner
<1>. QED
  BY <1>1, <1>2

\* The earliest active owner of a Nexus owns the organization, everybody has the
\* access it had, and no other account becomes an owner (importUser).
THEOREM FirstOwnerIsKept == ImportSpec => []FirstOwnerKeepsOrganization
<1>1. ASSUME ImportKept, deployments = {"nexus"}
      PROVE  LET owners == ActiveOwners(origin.dep)
             IN /\ ActiveOwners(dep) = owners
                /\ owners # {} => \E u \in owners :
                     ActiveOwners(om[Home]) = {u} /\ \A v \in owners : u <= v
                /\ owners = {} => ActiveOwners(om[Home]) = {}
                /\ \A u \in User :
                     /\ om[Home][u].status = dep[u].status
                     /\ dep[u].status = "active" <=> origin.dep[u].status = "active"
  <2> DEFINE m == origin.dep
             owners == ActiveOwners(m)
  <2>1. /\ m \in [User -> SourceRow]
        /\ \A u \in User : dep[u] = imported(m[u]) /\ om[Home][u] = importUser(m, u)
    BY <1>1 DEF ImportKept
  <2>2. owners \subseteq User /\ \A u \in User : u \in owners <=> m[u] = ActiveOwner
    BY DEF ActiveOwners
  <2>3. \A u \in User : u \in ActiveOwners(om[Home]) <=>
          u \in owners /\ \A v \in owners : ~(v < u)
    BY <2>1, <2>2, ImportedOwners DEF ActiveOwners
  <2>4. ActiveOwners(dep) = owners
    BY <2>1, <2>2, ImportedOwners DEF ActiveOwners
  <2>5. \A u \in User : /\ om[Home][u].status = dep[u].status
                        /\ dep[u].status = "active" <=> m[u].status = "active"
    BY <2>1, ImportedOwners
  <2>6. ActiveOwners(om[Home]) \subseteq User /\ User \subseteq Nat
    BY ImportAssumption DEF ActiveOwners, User, Account, Founder
  <2>. HIDE DEF m, owners
  <2>7. ASSUME owners # {}
        PROVE  \E u \in owners : ActiveOwners(om[Home]) = {u} /\ \A v \in owners : u <= v
    <3>1. PICK u \in owners : \A v \in owners : u <= v
      BY <2>2, <2>7, EarliestExists
    <3>2. ActiveOwners(om[Home]) = {u}
      <4>1. \A v \in owners : u \in Nat /\ v \in Nat /\ ~(v < u)
        BY <2>2, <2>6, <3>1
      <4>2. u \in ActiveOwners(om[Home])
        BY <2>2, <2>3, <4>1
      <4>3. ASSUME NEW w \in ActiveOwners(om[Home])
            PROVE  w = u
        <5>1. w \in owners /\ ~(u < w)
          BY <2>3, <2>6
        <5>2. u \in Nat /\ w \in Nat /\ u <= w
          BY <3>1, <4>1, <5>1
        <5>. QED
          BY <5>1, <5>2
      <4>. QED
        BY <4>2, <4>3
    <3>. QED
      BY <3>1, <3>2
  <2>8. owners = {} => ActiveOwners(om[Home]) = {}
    BY <2>3, <2>6
  <2>. QED
    BY <2>4, <2>5, <2>7, <2>8 DEF m, owners
<1>2. ImportKept => FirstOwnerKeepsOrganization
  BY <1>1 DEF FirstOwnerKeepsOrganization
<1>. QED
  BY <1>2, ImportsAreKept, PTL
=============================================================================
