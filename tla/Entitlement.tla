----------------------------- MODULE Entitlement -----------------------------
(****************************************************************************)
(* Subscription plans and what each account is entitled to: the tables      *)
(* subscription_plans and member_entitlements, the deployment access they   *)
(* are joined with, and the projection Nexus keeps of the effective limit.  *)
(*                                                                          *)
(* A member without a row in member_entitlements is on the plan "free"      *)
(* (COALESCE).  Every write is one transaction under the control lock and   *)
(* appends its events in it.  UpsertSubscriptionPlan and                    *)
(* UpdateMemberEntitlement only look at the role in the request's           *)
(* Principal; the deployment always has an owner (Membership), so such a    *)
(* request can arrive in every state and the guard is left out.             *)
(*                                                                          *)
(* Nexus is not part of the repository: as the README says of               *)
(* entitlement_changed and principal_changed, it reads the entitlement      *)
(* again when it meets an event of the user, one read of a user at a time.  *)
(****************************************************************************)
CONSTANTS User, Plan, Free, Admin,
          Limit,      \* monthly_token_limit values, "unlimited" among them
          FreeLimit, AdminLimit,
          None        \* no plan bound; nothing projected; nothing being read

ASSUME PlanAssumption ==
  /\ {Free, Admin} \subseteq Plan /\ Free # Admin
  /\ {FreeLimit, AdminLimit} \subseteq Limit
  /\ None \notin Plan \union Limit

VARIABLES plan,    \* subscription_plans
          bound,   \* member_entitlements.plan_key, or None
          access,  \* deployment_memberships.status
          unread,  \* users with an event that Nexus has not dealt with
          fetched, \* the limit Nexus has read and not yet stored
          proj     \* the limit Nexus applies to a user's next request

entVars == <<plan, bound, access, unread, fetched, proj>>

PlanRow == [status : {"none", "active", "archived"}, limit : Limit]
NoPlanRow == [status |-> "none", limit |-> FreeLimit]

EntitlementTypeOK ==
  /\ plan \in [Plan -> PlanRow]
  /\ bound \in [User -> Plan \union {None}]
  /\ access \in [User -> {"none", "active", "revoked"}]
  /\ unread \subseteq User
  /\ fetched \in [User -> Limit \union {None}]
  /\ proj \in [User -> Limit \union {None}]

EntitlementInit ==
  /\ plan = [k \in Plan |-> NoPlanRow]
  /\ bound = [u \in User |-> None]
  /\ access = [u \in User |-> "none"]
  /\ unread = {}
  /\ fetched = [u \in User |-> None]
  /\ proj = [u \in User |-> None]

-----------------------------------------------------------------------------
(* What the queries read. *)

\* COALESCE(e.plan_key, 'free')
PlanOf(u) == IF bound[u] = None THEN Free ELSE bound[u]

\* The join has a row only if the member and the plan both have one; it asks
\* neither that the member nor that the plan is active.
EffectiveEntitlement(u) == plan[PlanOf(u)].limit
Resolves(u) == access[u] # "none" /\ plan[PlanOf(u)].status # "none"

ActiveUsers == {u \in User : access[u] = "active"}

\* Seeded fault: an inner join, which misses the members without a row.
entitlementUsers_bound(k) == {u \in ActiveUsers : bound[u] = k}

entitlementUsers(k) == {u \in ActiveUsers : PlanOf(u) = k}

-----------------------------------------------------------------------------
(* First start and imports. *)

\* Of the tables that importDeployment counts, this one fills first.

Empty == \A u \in User : access[u] = "none"

insertDefaultSubscriptionPlans ==
  [k \in Plan |->
     IF k = Free THEN [status |-> "active", limit |-> FreeLimit]
     ELSE IF k = Admin THEN [status |-> "active", limit |-> AdminLimit]
     ELSE NoPlanRow]

CreateOwner(u) ==
  /\ ActiveUsers = {} /\ access[u] = "none"
  /\ access' = [access EXCEPT ![u] = "active"]
  /\ plan' = insertDefaultSubscriptionPlans
  /\ UNCHANGED <<bound, unread, fetched, proj>>

normalizeSubscriptionPlan(k, row) ==
  /\ row.status \in {"active", "archived"}
  /\ k = Free => row.status = "active"

\* The plans of a source database: every row it has passes the validation.
SourcePlans ==
  {src \in [Plan -> PlanRow] :
     \A k \in Plan : src[k] = NoPlanRow \/ normalizeSubscriptionPlan(k, src[k])}

\* Seeded fault: the source replaces the table instead of extending it.
Overlay_replace(table, src) == src

\* The source's rows, upserted one by one.
Overlay(table, src) ==
  [k \in Plan |-> IF src[k] = NoPlanRow THEN table[k] ELSE src[k]]

\* The foreign keys: a bound plan has a row, and so has the member.
ForeignKeys(plans, bindings, members) ==
  \A u \in User : bindings[u] # None =>
    plans[bindings[u]].status # "none" /\ members[u] # "none"

\* import-nexus: into a database without any row, after the defaults.  The
\* source has an active account: without one the target would still report
\* that setup is required, and could get a second deployment.
\* import-control-sqlite copies these tables and the events as they are, so
\* the new database starts in the state of the old one: no step here.
ImportDeployment(src, bindings, members) ==
  /\ Empty
  /\ \E u \in User : members[u] = "active"
  /\ plan' = Overlay(insertDefaultSubscriptionPlans, src)
  /\ ForeignKeys(plan', bindings, members)
  /\ bound' = bindings
  /\ access' = members
  /\ UNCHANGED <<unread, fetched, proj>>

\* import-nexus-subscriptions: into a database that is set up; only members
\* can be bound.
ImportSubscriptions(src, bindings) ==
  /\ ~Empty
  /\ \E k \in Plan : src[k] # NoPlanRow
  /\ plan' = Overlay(plan, src)
  /\ ForeignKeys(plan', bindings, access)
  /\ bound' = [u \in User |-> IF bindings[u] = None THEN bound[u] ELSE bindings[u]]
  /\ unread' = unread \union ActiveUsers
  /\ UNCHANGED <<access, fetched, proj>>

-----------------------------------------------------------------------------
(* Accounts, plans and entitlements. *)

Enroll(u) ==
  /\ ~Empty /\ access[u] = "none"
  /\ access' = [access EXCEPT ![u] = "active"]
  /\ UNCHANGED <<plan, bound, unread, fetched, proj>>

\* UpdateDeploymentMember revokes or restores; principal_changed either way.
\* The actor is active itself and cannot revoke itself.
SetAccess(u, status) ==
  /\ access[u] \notin {"none", status} /\ ActiveUsers \ {u} # {}
  /\ access' = [access EXCEPT ![u] = status]
  /\ unread' = unread \union {u}
  /\ UNCHANGED <<plan, bound, fetched, proj>>

UpsertSubscriptionPlan(k, row) ==
  /\ ~Empty
  /\ normalizeSubscriptionPlan(k, row)
  /\ plan' = [plan EXCEPT ![k] = row]
  /\ unread' = unread \union entitlementUsers(k)
  /\ UNCHANGED <<bound, access, fetched, proj>>

SetMemberEntitlement(u, k) ==
  /\ plan[k].status = "active"
  /\ access[u] # "none"
  /\ PlanOf(u) # k
  /\ bound' = [bound EXCEPT ![u] = k]
  /\ unread' = unread \union {u}
  /\ UNCHANGED <<plan, access, fetched, proj>>

-----------------------------------------------------------------------------
(* Nexus. *)

\* The internal entitlement endpoint, or the Principal of an exchange
\* (attachEntitlement).  handled: the user's events are dealt with by this read.
Read(u, handled) ==
  /\ fetched[u] = None /\ Resolves(u)
  /\ fetched' = [fetched EXCEPT ![u] = EffectiveEntitlement(u)]
  /\ unread' = IF handled THEN unread \ {u} ELSE unread
  /\ UNCHANGED <<plan, bound, access, proj>>

Store(u) ==
  /\ fetched[u] # None
  /\ proj' = [proj EXCEPT ![u] = fetched[u]]
  /\ fetched' = [fetched EXCEPT ![u] = None]
  /\ UNCHANGED <<plan, bound, access, unread>>

\* The response is lost or Nexus restarts before its cursor is stored: the
\* events will be listed again.
Lose(u) ==
  /\ fetched[u] # None
  /\ fetched' = [fetched EXCEPT ![u] = None]
  /\ unread' = unread \union {u}
  /\ UNCHANGED <<plan, bound, access, proj>>

-----------------------------------------------------------------------------
Bindings == [User -> Plan \union {None}]
Members == [User -> {"none", "active", "revoked"}]

EntitlementNext ==
  \/ \E u \in User : CreateOwner(u)
  \/ \E src \in SourcePlans, bindings \in Bindings, members \in Members :
       ImportDeployment(src, bindings, members)
  \/ \E src \in SourcePlans, bindings \in Bindings : ImportSubscriptions(src, bindings)
  \/ \E u \in User : Enroll(u)
  \/ \E u \in User, status \in {"active", "revoked"} : SetAccess(u, status)
  \/ \E k \in Plan, row \in PlanRow : UpsertSubscriptionPlan(k, row)
  \/ \E u \in User, k \in Plan : SetMemberEntitlement(u, k)
  \/ \E u \in User, handled \in BOOLEAN : Read(u, handled)
  \/ \E u \in User : Store(u)
  \/ \E u \in User : Lose(u)

EntitlementSpec == EntitlementInit /\ [][EntitlementNext]_entVars

-----------------------------------------------------------------------------
\* Every account has an effective entitlement, whatever plans are archived,
\* rebound or imported: attachEntitlement never turns a login or a session
\* away because its plan has no row.
EveryAccountResolves ==
  \A u \in User : access[u] # "none" => Resolves(u)

\* When Nexus has dealt with all events of an active member, the limit it
\* applies is the member's effective one: every commit that changes it, and
\* every restore after changes nobody announced to a revoked member, leaves
\* an event behind.
ProjectionIsCurrent ==
  \A u \in ActiveUsers :
    u \notin unread /\ fetched[u] = None /\ proj[u] # None
      => proj[u] = EffectiveEntitlement(u)

\* A read under way is as good as the events it has dealt with.
ReadsAreCurrent ==
  \A u \in ActiveUsers :
    u \notin unread /\ fetched[u] # None => fetched[u] = EffectiveEntitlement(u)

\* The inductive invariant.  Once there is an account, one is active and the
\* default plan has a row, and so has every bound plan; nothing is projected
\* for nobody.
EntitlementInvariant ==
  /\ EntitlementTypeOK
  /\ ~Empty => ActiveUsers # {} /\ plan[Free].status = "active"
  /\ ForeignKeys(plan, bound, access)
  /\ \A u \in User : access[u] = "none" => fetched[u] = None /\ proj[u] = None
  /\ ProjectionIsCurrent
  /\ ReadsAreCurrent
=============================================================================
