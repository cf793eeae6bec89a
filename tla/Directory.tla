------------------------------- MODULE Directory -------------------------------
(****************************************************************************)
(* What the rest of the service needs to know of the membership tables: who *)
(* may use the deployment, and which organization each user is in.  Module  *)
(* Membership implements this specification; module Devices builds on it.   *)
(*                                                                          *)
(* home is a function because Membership allows one active membership per   *)
(* user.  The owner cannot leave, so whoever is removed leaves somebody     *)
(* behind, and an organization without members does not exist yet or has    *)
(* been dissolved.                                                          *)
(****************************************************************************)
CONSTANTS User, Org, NoOrg

VARIABLES access,    \* status of the user's deployment_memberships row
          home,      \* the organization the user is an active member of
          dissolved  \* organizations that are disabled for good

directoryVars == <<access, home, dissolved>>

DirectoryTypeOK ==
  /\ access \in [User -> {"none", "active", "revoked"}]
  /\ home \in [User -> Org \union {NoOrg}]
  /\ dissolved \subseteq Org

DirectoryInit ==
  /\ access = [u \in User |-> "none"]
  /\ home = [u \in User |-> NoOrg]
  /\ dissolved = {}

Members(o) == {u \in User : home[u] = o}

\* RegisterAccount and CreateDeploymentMember: an account of its own.
Enroll(u) ==
  /\ access[u] = "none"
  /\ access' = [access EXCEPT ![u] = "active"]
  /\ UNCHANGED <<home, dissolved>>

\* CreateOwner, create, join, and an invitation accepted with a new account.
Admit(u, o) ==
  /\ access[u] # "revoked" /\ home[u] = NoOrg /\ o \notin dissolved
  /\ access' = [access EXCEPT ![u] = "active"]
  /\ home' = [home EXCEPT ![u] = o]
  /\ UNCHANGED dissolved

\* leave, or removal by a manager; in both cases the owner stays.
Remove(u) ==
  /\ home[u] # NoOrg
  /\ \E v \in Members(home[u]) : v # u
  /\ home' = [home EXCEPT ![u] = NoOrg]
  /\ UNCHANGED <<access, dissolved>>

Dissolve(o) ==
  /\ \E u \in Members(o) : access[u] = "active"
  /\ home' = [u \in User |-> IF home[u] = o THEN NoOrg ELSE home[u]]
  /\ dissolved' = dissolved \union {o}
  /\ UNCHANGED access

\* UpdateDeploymentMember, by somebody else: nobody suspends itself, and the
\* organization is kept while access is revoked.
SomebodyElse(u) == \E v \in User \ {u} : access[v] = "active"

Suspend(u) ==
  /\ access[u] = "active" /\ SomebodyElse(u)
  /\ access' = [access EXCEPT ![u] = "revoked"]
  /\ UNCHANGED <<home, dissolved>>

Restore(u) ==
  /\ access[u] = "revoked" /\ SomebodyElse(u)
  /\ access' = [access EXCEPT ![u] = "active"]
  /\ UNCHANGED <<home, dissolved>>

DirectoryNext ==
  \/ \E u \in User : Enroll(u) \/ Remove(u) \/ Suspend(u) \/ Restore(u)
  \/ \E u \in User, o \in Org : Admit(u, o)
  \/ \E o \in Org : Dissolve(o)

DirectorySpec == DirectoryInit /\ [][DirectoryNext]_directoryVars
================================================================================
