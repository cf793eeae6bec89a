-------------------------- MODULE EntitlementProofs --------------------------
(* EntitlementInvariant is inductive, for any users, plans and limits. *)
EXTENDS Entitlement, TLAPS

\* Overlaying validated source rows keeps the table's type and every row's
\* presence, and cannot archive the default plan (the import upserts).
LEMMA OverlayRows ==
  ASSUME NEW table \in [Plan -> PlanRow], NEW src \in SourcePlans
  PROVE  /\ Overlay(table, src) \in [Plan -> PlanRow]
         /\ \A k \in Plan : table[k].status # "none" => Overlay(table, src)[k].status # "none"
         /\ table[Free].status = "active" => Overlay(table, src)[Free].status = "active"
BY PlanAssumption DEF Overlay, SourcePlans, normalizeSubscriptionPlan

\* The default plans that CreateOwner and ImportDeployment insert.
LEMMA DefaultPlans ==
  /\ insertDefaultSubscriptionPlans \in [Plan -> PlanRow]
  /\ insertDefaultSubscriptionPlans[Free].status = "active"
BY PlanAssumption DEF insertDefaultSubscriptionPlans, PlanRow, NoPlanRow

\* PlanOf picks a plan; EffectiveEntitlement is its limit.
LEMMA PlanOfType ==
  ASSUME EntitlementTypeOK, NEW u \in User
  PROVE  PlanOf(u) \in Plan /\ EffectiveEntitlement(u) \in Limit
BY PlanAssumption DEF EntitlementTypeOK, PlanOf, EffectiveEntitlement, PlanRow

\* Setting up or importing: nothing has been read or projected before, since
\* there was no account.
LEMMA SetUpStep ==
  ASSUME EntitlementInvariant, Empty,
         plan' \in [Plan -> PlanRow], plan'[Free].status = "active",
         bound' \in Bindings, access' \in Members,
         \E v \in User : access'[v] = "active",
         ForeignKeys(plan', bound', access'),
         UNCHANGED <<unread, fetched, proj>>
  PROVE  EntitlementInvariant'
<1>1. EntitlementTypeOK'
  BY DEF EntitlementInvariant, EntitlementTypeOK, Bindings, Members
<1>2. \A u \in User : fetched'[u] = None /\ proj'[u] = None
  BY DEF EntitlementInvariant, Empty
<1>3. (~Empty => ActiveUsers # {} /\ plan[Free].status = "active")'
  BY DEF ActiveUsers
<1>4. (ForeignKeys(plan, bound, access))'
  BY DEF ForeignKeys
<1>5. ProjectionIsCurrent' /\ ReadsAreCurrent'
  BY <1>2 DEF ProjectionIsCurrent, ReadsAreCurrent, ActiveUsers
<1>. QED
  BY <1>1, <1>2, <1>3, <1>4, <1>5 DEF EntitlementInvariant

\* A write to plans or bindings keeps the invariant when every active user
\* whose effective limit it changes is among the announced ones.
LEMMA WriteStep ==
  ASSUME EntitlementInvariant, ~Empty,
         NEW announced \in SUBSET User,
         plan' \in [Plan -> PlanRow], plan'[Free].status = "active",
         bound' \in Bindings,
         ForeignKeys(plan', bound', access),
         unread' = unread \union announced,
         UNCHANGED <<access, fetched, proj>>,
         \A u \in ActiveUsers \ announced : EffectiveEntitlement(u)' = EffectiveEntitlement(u)
  PROVE  EntitlementInvariant'
<1>1. EntitlementTypeOK'
  BY DEF EntitlementInvariant, EntitlementTypeOK, Bindings
<1>2. ActiveUsers' = ActiveUsers /\ ActiveUsers # {}
  BY DEF EntitlementInvariant, ActiveUsers
<1>3. (ForeignKeys(plan, bound, access))'
  BY DEF ForeignKeys
<1>4. ProjectionIsCurrent' /\ ReadsAreCurrent'
  BY <1>2 DEF EntitlementInvariant, ProjectionIsCurrent, ReadsAreCurrent, ActiveUsers
<1>5. \A u \in User : access'[u] = "none" => fetched'[u] = None /\ proj'[u] = None
  BY DEF EntitlementInvariant
<1>6. (~Empty => ActiveUsers # {} /\ plan[Free].status = "active")'
  BY <1>2
<1>. QED
  BY <1>1, <1>3, <1>4, <1>5, <1>6 DEF EntitlementInvariant

\* What Nexus does to a user changes nothing of the tables.
LEMMA NexusStep ==
  ASSUME EntitlementInvariant, NEW u \in User,
         Store(u) \/ Lose(u) \/ \E handled \in BOOLEAN : Read(u, handled)
  PROVE  EntitlementInvariant'
<1>1. CASE \E handled \in BOOLEAN : Read(u, handled)
  <2>1. EffectiveEntitlement(u) \in Limit
    BY PlanOfType DEF EntitlementInvariant
  <2>2. EntitlementTypeOK'
    BY <1>1, <2>1 DEF EntitlementInvariant, EntitlementTypeOK, Read
  <2>3. ProjectionIsCurrent' /\ ReadsAreCurrent'
    BY <1>1, <2>1, PlanAssumption
       DEF EntitlementInvariant, EntitlementTypeOK, Read, ProjectionIsCurrent, ReadsAreCurrent,
           ActiveUsers, EffectiveEntitlement, PlanOf
  <2>4. \A v \in User : access'[v] = "none" => fetched'[v] = None /\ proj'[v] = None
    BY <1>1 DEF EntitlementInvariant, EntitlementTypeOK, Read, Resolves
  <2>. QED
    BY <1>1, <2>2, <2>3, <2>4 DEF EntitlementInvariant, Read, Empty, ActiveUsers, ForeignKeys
<1>2. CASE Store(u)
  <2>1. EntitlementTypeOK'
    BY <1>2 DEF EntitlementInvariant, EntitlementTypeOK, Store
  <2>2. ProjectionIsCurrent' /\ ReadsAreCurrent'
    BY <1>2
       DEF EntitlementInvariant, EntitlementTypeOK, Store, ProjectionIsCurrent, ReadsAreCurrent,
           ActiveUsers, EffectiveEntitlement, PlanOf
  <2>3. \A v \in User : access'[v] = "none" => fetched'[v] = None /\ proj'[v] = None
    BY <1>2 DEF EntitlementInvariant, EntitlementTypeOK, Store
  <2>. QED
    BY <1>2, <2>1, <2>2, <2>3 DEF EntitlementInvariant, Store, Empty, ActiveUsers, ForeignKeys
<1>3. CASE Lose(u)
  <2>1. EntitlementTypeOK'
    BY <1>3 DEF EntitlementInvariant, EntitlementTypeOK, Lose
  <2>2. ProjectionIsCurrent' /\ ReadsAreCurrent'
    BY <1>3
       DEF EntitlementInvariant, EntitlementTypeOK, Lose, ProjectionIsCurrent, ReadsAreCurrent,
           ActiveUsers, EffectiveEntitlement, PlanOf
  <2>3. \A v \in User : access'[v] = "none" => fetched'[v] = None /\ proj'[v] = None
    BY <1>3 DEF EntitlementInvariant, EntitlementTypeOK, Lose
  <2>. QED
    BY <1>3, <2>1, <2>2, <2>3 DEF EntitlementInvariant, Lose, Empty, ActiveUsers, ForeignKeys
<1>. QED
  BY <1>1, <1>2, <1>3

\* Enrolling a user or changing its access: no plan, and the user is either new
\* to Nexus or announced.
LEMMA AccessStep ==
  ASSUME EntitlementInvariant, NEW u \in User, NEW status \in {"active", "revoked"},
         Enroll(u) \/ SetAccess(u, status)
  PROVE  EntitlementInvariant'
<1>1. EntitlementTypeOK'
  BY DEF EntitlementInvariant, EntitlementTypeOK, Enroll, SetAccess
<1>2. ~Empty /\ \A v \in User : access[v] # "none" => access'[v] # "none"
  BY DEF EntitlementInvariant, EntitlementTypeOK, Enroll, SetAccess, Empty
<1>3. ActiveUsers' # {} /\ plan'[Free].status = "active"
  BY <1>2 DEF EntitlementInvariant, EntitlementTypeOK, Enroll, SetAccess, ActiveUsers
<1>4. (ForeignKeys(plan, bound, access))'
  BY <1>2 DEF EntitlementInvariant, Enroll, SetAccess, ForeignKeys
<1>5. \A v \in User : access'[v] = "none" => fetched'[v] = None /\ proj'[v] = None
  BY <1>2 DEF EntitlementInvariant, Enroll, SetAccess
<1>6. \A v \in User : /\ EffectiveEntitlement(v)' = EffectiveEntitlement(v)
                      /\ fetched'[v] = fetched[v] /\ proj'[v] = proj[v]
  BY DEF Enroll, SetAccess, EffectiveEntitlement, PlanOf
<1>7. \A v \in ActiveUsers' : \/ v \in ActiveUsers /\ (v \in unread => v \in unread')
                              \/ v \in unread'
                              \/ fetched[v] = None /\ proj[v] = None
  BY DEF EntitlementInvariant, EntitlementTypeOK, Enroll, SetAccess, ActiveUsers
<1>8. ProjectionIsCurrent' /\ ReadsAreCurrent'
  BY <1>6, <1>7 DEF EntitlementInvariant, ProjectionIsCurrent, ReadsAreCurrent, ActiveUsers
<1>. QED
  BY <1>1, <1>3, <1>4, <1>5, <1>8 DEF EntitlementInvariant

\* One step per action of EntitlementNext.
LEMMA EntitlementStep ==
  EntitlementInvariant /\ [EntitlementNext]_entVars => EntitlementInvariant'
<1>. SUFFICES ASSUME EntitlementInvariant, [EntitlementNext]_entVars
     PROVE EntitlementInvariant'
  OBVIOUS
<1>0. EntitlementTypeOK
  BY DEF EntitlementInvariant
<1>1. ASSUME NEW u \in User, CreateOwner(u) PROVE EntitlementInvariant'
  <2>1. Empty
    BY <1>1 DEF CreateOwner, EntitlementInvariant
  <2>2. bound' \in Bindings /\ access' \in Members /\ access'[u] = "active"
    BY <1>0, <1>1 DEF CreateOwner, EntitlementTypeOK, Bindings, Members
  <2>3. \A v \in User : bound'[v] = None
    BY <1>1, <2>1 DEF CreateOwner, EntitlementInvariant, ForeignKeys, Empty
  <2>4. ForeignKeys(plan', bound', access')
    BY <2>3 DEF ForeignKeys
  <2>. QED
    BY <1>1, <2>1, <2>2, <2>4, DefaultPlans, SetUpStep DEF CreateOwner
<1>2. ASSUME NEW src \in SourcePlans, NEW bindings \in Bindings, NEW members \in Members,
             ImportDeployment(src, bindings, members)
      PROVE EntitlementInvariant'
  <2>1. plan' \in [Plan -> PlanRow] /\ plan'[Free].status = "active"
    BY <1>2, OverlayRows, DefaultPlans DEF ImportDeployment
  <2>2. ForeignKeys(plan', bound', access')
    BY <1>2 DEF ImportDeployment
  <2>. QED
    BY <1>2, <2>1, <2>2, SetUpStep DEF ImportDeployment
<1>3. ASSUME NEW src \in SourcePlans, NEW bindings \in Bindings,
             ImportSubscriptions(src, bindings)
      PROVE EntitlementInvariant'
  <2>1. /\ plan' \in [Plan -> PlanRow] /\ plan'[Free].status = "active"
        /\ \A k \in Plan : plan[k].status # "none" => plan'[k].status # "none"
    BY <1>0, <1>3, OverlayRows DEF ImportSubscriptions, EntitlementInvariant, EntitlementTypeOK
  <2>2. bound' \in Bindings
    BY <1>0, <1>3 DEF ImportSubscriptions, EntitlementTypeOK, Bindings
  <2>3. ForeignKeys(plan', bound', access)
    BY <1>0, <1>3, <2>1 DEF ImportSubscriptions, EntitlementInvariant, EntitlementTypeOK,
                            ForeignKeys, Bindings
  <2>4. ActiveUsers \in SUBSET User
    BY DEF ActiveUsers
  <2>. QED
    BY <1>3, <2>1, <2>2, <2>3, <2>4, WriteStep DEF ImportSubscriptions
<1>4. ASSUME NEW u \in User, Enroll(u) PROVE EntitlementInvariant'
  BY <1>4, AccessStep
<1>5. ASSUME NEW u \in User, NEW status \in {"active", "revoked"}, SetAccess(u, status)
      PROVE EntitlementInvariant'
  BY <1>5, AccessStep
<1>6. ASSUME NEW k \in Plan, NEW row \in PlanRow, UpsertSubscriptionPlan(k, row)
      PROVE EntitlementInvariant'
  <2>1. /\ plan' \in [Plan -> PlanRow] /\ plan'[Free].status = "active"
        /\ \A j \in Plan : plan[j].status # "none" => plan'[j].status # "none"
    BY <1>0, <1>6, PlanAssumption DEF UpsertSubscriptionPlan, normalizeSubscriptionPlan,
                                      EntitlementInvariant, EntitlementTypeOK
  <2>2. bound' \in Bindings /\ ForeignKeys(plan', bound', access)
    BY <1>0, <1>6, <2>1 DEF UpsertSubscriptionPlan, EntitlementInvariant, EntitlementTypeOK,
                            ForeignKeys, Bindings
  <2>3. entitlementUsers(k) \in SUBSET User
    BY DEF entitlementUsers, ActiveUsers
  <2>4. \A u \in ActiveUsers \ entitlementUsers(k) :
           EffectiveEntitlement(u)' = EffectiveEntitlement(u)
    <3>1. \A u \in User : PlanOf(u) \in Plan
      BY <1>0, PlanOfType
    <3>. QED
      BY <1>0, <1>6, <3>1 DEF UpsertSubscriptionPlan, entitlementUsers, ActiveUsers,
                              EffectiveEntitlement, PlanOf, EntitlementTypeOK
  <2>. QED
    BY <1>6, <2>1, <2>2, <2>3, <2>4, WriteStep DEF UpsertSubscriptionPlan
<1>7. ASSUME NEW u \in User, NEW k \in Plan, SetMemberEntitlement(u, k)
      PROVE EntitlementInvariant'
  <2>1. ~Empty /\ plan' = plan /\ plan[Free].status = "active"
    BY <1>7 DEF SetMemberEntitlement, Empty, EntitlementInvariant
  <2>2. bound' \in Bindings /\ ForeignKeys(plan', bound', access)
    BY <1>0, <1>7 DEF SetMemberEntitlement, EntitlementInvariant, EntitlementTypeOK,
                      ForeignKeys, Bindings
  <2>3. \A v \in ActiveUsers \ {u} : EffectiveEntitlement(v)' = EffectiveEntitlement(v)
    BY <1>0, <1>7 DEF SetMemberEntitlement, EffectiveEntitlement, PlanOf, ActiveUsers,
                      EntitlementTypeOK
  <2>4. plan' \in [Plan -> PlanRow]
    BY <1>0, <2>1 DEF EntitlementTypeOK
  <2>. QED
    BY <1>7, <2>1, <2>2, <2>3, <2>4, WriteStep DEF SetMemberEntitlement
<1>8. ASSUME NEW u \in User,
             Store(u) \/ Lose(u) \/ \E handled \in BOOLEAN : Read(u, handled)
      PROVE EntitlementInvariant'
  BY <1>8, NexusStep
<1>9. CASE UNCHANGED entVars
  BY <1>9 DEF entVars, EntitlementInvariant, EntitlementTypeOK, Empty, ActiveUsers, ForeignKeys,
              ProjectionIsCurrent, ReadsAreCurrent, EffectiveEntitlement, PlanOf
<1>. QED
  BY <1>1, <1>2, <1>3, <1>4, <1>5, <1>6, <1>7, <1>8, <1>9 DEF EntitlementNext

\* The invariant holds of every behaviour of the plan and entitlement code.
THEOREM EntitlementHolds == EntitlementSpec => []EntitlementInvariant
<1>1. EntitlementInit => EntitlementInvariant
  BY PlanAssumption
     DEF EntitlementInit, EntitlementInvariant, EntitlementTypeOK, Empty, ActiveUsers, ForeignKeys,
         ProjectionIsCurrent, ReadsAreCurrent, NoPlanRow, PlanRow
<1>. QED
  BY <1>1, EntitlementStep, PTL DEF EntitlementSpec

\* No login or session is ever turned away for want of a plan row, for any
\* number of accounts, plans and imports.
THEOREM AccountsResolve == EntitlementSpec => []EveryAccountResolves
<1>1. EntitlementInvariant => EveryAccountResolves
  BY DEF EntitlementInvariant, EveryAccountResolves, Resolves, PlanOf, ForeignKeys, Empty
<1>. QED
  BY <1>1, EntitlementHolds, PTL

\* A drained event log means a current projection of every active member.
THEOREM ProjectionCurrent == EntitlementSpec => []ProjectionIsCurrent
<1>1. EntitlementInvariant => ProjectionIsCurrent
  BY DEF EntitlementInvariant
<1>. QED
  BY <1>1, EntitlementHolds, PTL
=============================================================================
