-------------------------------- MODULE Stamps --------------------------------
(****************************************************************************)
(* The versions of a member.  An update names the version it is based on,   *)
(* and a version is a time: the later updated_at of the account and of the  *)
(* membership.  The two update endpoints, for members of the platform and   *)
(* of an organization, share the account's row; logins and changes of the   *)
(* avatar write it too, and who joins, leaves or takes over the             *)
(* organization writes the membership.  The time a transaction writes was   *)
(* read before it waited for its lock, by a replica with a clock of its     *)
(* own: times may be equal, or run backwards.                               *)
(*                                                                          *)
(* One account that is not the owner of the platform.  Who may update whom, *)
(* the sessions and the events are in Membership.                           *)
(****************************************************************************)
EXTENDS Naturals

CONSTANTS Editor,   \* clients that update the member, one call after the other
          Other,    \* those who write the account or the membership otherwise
          Name,     \* display names
          First,    \* the one the account starts with
          MaxClock, \* bound of the times
          MaxReads  \* bound of the readings of a clock

ASSUME StampsAssumption == First \in Name /\ MaxClock \in Nat /\ MaxReads \in Nat

VARIABLES user,    \* row of users: name and updated_at
          row,     \* its rows of the two membership tables
          call,    \* Editor -> a call in progress
          other,   \* Other -> the time it has read
          ordered, \* history: every time that was read was later than those before
          clock,   \* history: the last one, while they are ordered
          reads    \* how often a clock was read

clockVars == <<ordered, clock, reads>>
stampVars == <<user, row, call, other, ordered, clock, reads>>

Time == 0 .. MaxClock
Keep == "keep"                     \* a field that is not in the request
Role == {"admin", "member"}        \* what a request may name
Status == {"active", "revoked"}
Table == {"deployment", "organization"}

\* Requests with one field; more than one are handled field by field.
Input == {[name |-> n, role |-> Keep, status |-> Keep] : n \in Name}
           \union {[name |-> Keep, role |-> r, status |-> Keep] : r \in Role}
           \union {[name |-> Keep, role |-> Keep, status |-> s] : s \in Status}

Later(a, b) == IF a > b THEN a ELSE b

\* scanDeploymentMember: what a list, a read and the transaction see of the member.
View(kind) == [name |-> user.name, role |-> row[kind].role, status |-> row[kind].status,
               version |-> Later(user.at, row[kind].at)]

Nothing == [name |-> First, role |-> Keep, status |-> Keep, version |-> 0]
NoInput == [name |-> Keep, role |-> Keep, status |-> Keep]
\* crossed is history: the views that somebody has outdated by another way than the
\* endpoint of the call.
NoCall == [at |-> "idle", kind |-> "none", listed |-> Nothing, seen |-> Nothing,
           input |-> NoInput, now |-> 0, crossed |-> {}]

\* What a row of a membership table may say.
Membership == [role : Role \union {"owner"}, status : Status, at : Time]

StampsInit ==
  /\ user = [name |-> First, at |-> 0]
  /\ row = [kind \in Table |-> [role |-> "member", status |-> "active", at |-> 0]]
  /\ call = [e \in Editor |-> NoCall]
  /\ other = [o \in Other |-> 0]
  /\ ordered = TRUE /\ clock = 0 /\ reads = 0

\* s.now(): replicas need not agree, and two readings may be the same.
Reads(now) ==
  /\ now > 0
  /\ reads < MaxReads /\ reads' = reads + 1
  /\ ordered' = (ordered /\ now > clock)
  /\ clock' = IF ordered' THEN now ELSE 0

\* The client lists the members and keeps the version.
ListMembers(e, kind) ==
  /\ call[e].at = "idle"
  /\ call' = [call EXCEPT ![e].at = "listed", ![e].kind = kind, ![e].listed = View(kind)]
  /\ UNCHANGED <<user, row, other, clockVars>>

\* The service reads the target and compares the version if the request has one.  An
\* organization member has to be active; an owner is not updated.
ReadTarget(e, kind, input) ==
  /\ \/ call[e].at = "idle"
     \/ call[e].at = "listed" /\ call[e].kind = kind
          /\ call[e].listed.version = View(kind).version
  /\ kind = "organization" => row[kind].status = "active"
  /\ row[kind].role # "owner"
  /\ call' = [call EXCEPT ![e].at = "read", ![e].kind = kind, ![e].seen = View(kind),
                          ![e].input = input, ![e].crossed = @ \ {"seen"}]
  /\ UNCHANGED <<user, row, other, clockVars>>

EndCall(e) ==
  /\ call' = [call EXCEPT ![e] = NoCall]
  /\ UNCHANGED <<user, row, other, clockVars>>

\* ErrConflict, ErrForbidden.
RefuseVersion(e) ==
  /\ call[e].at = "listed"
  /\ LET view == View(call[e].kind) IN
       \/ call[e].listed.version # view.version
       \/ call[e].kind = "organization" /\ view.status = "revoked"
       \/ view.role = "owner"
  /\ EndCall(e)

ReadClock(e) ==
  /\ call[e].at = "read"
  /\ \E now \in Time :
       Reads(now) /\ call' = [call EXCEPT ![e].at = "stamped", ![e].now = now]
  /\ UNCHANGED <<user, row, other>>

\* Seeded fault: only the fields that give power are compared.
Unchanged_role(e, view) ==
  view.role = call[e].seen.role /\ view.status = call[e].seen.status

\* Seeded fault: the version is taken for all of the member.
Unchanged_version(e, view) ==
  /\ view.version = call[e].seen.version
  /\ call[e].kind = "organization" => view.status = "active"

\* ErrStateConflict otherwise.
Unchanged(e, view) ==
  /\ view.role = call[e].seen.role
  /\ view.status = call[e].seen.status
  /\ view.version = call[e].seen.version
  /\ call[e].kind = "organization" => view.status = "active"

\* A field that is not in the request keeps the value of the service's read.
Next(e, field) == IF call[e].input[field] = Keep THEN call[e].seen[field] ELSE call[e].input[field]

\* What the client was shown and the service has read of a member is outdated, where
\* the call is in progress.
Outdated(c, views) == IF c.at = "idle" THEN c ELSE [c EXCEPT !.crossed = @ \union views]

\* The transaction of UpdateDeploymentMember or UpdateMember, under the lock of the
\* deployment.  A new name stamps the account, the old one leaves its row alone.
ApplyUpdate(e) ==
  LET kind == call[e].kind
      renames == Next(e, "name") # user.name
  IN /\ call[e].at = "stamped" /\ Unchanged(e, View(kind))
     /\ row' = [row EXCEPT ![kind] = [role |-> Next(e, "role"), status |-> Next(e, "status"),
                                      at |-> call[e].now]]
     /\ user' = IF renames THEN [name |-> Next(e, "name"), at |-> call[e].now] ELSE user
     /\ call' = [f \in Editor |->
                   IF f = e THEN NoCall
                   ELSE IF renames /\ call[f].kind # kind
                   THEN Outdated(call[f], {"listed", "seen"}) ELSE call[f]]
     /\ UNCHANGED <<other, clockVars>>

RefuseState(e) ==
  /\ call[e].at = "stamped" /\ ~Unchanged(e, View(call[e].kind))
  /\ EndCall(e)

OtherReadsClock(o) ==
  /\ other[o] = 0
  /\ \E now \in Time : Reads(now) /\ other' = [other EXCEPT ![o] = now]
  /\ UNCHANGED <<user, row, call>>

\* CreateSession and UpdateAvatar write the row of the account, without a version.
Touch(o) ==
  /\ other[o] > 0
  /\ user' = [user EXCEPT !.at = other[o]]
  /\ other' = [other EXCEPT ![o] = 0]
  /\ UNCHANGED <<row, call, clockVars>>

\* ChangeOrganization writes the membership, without a version: the member enters
\* again, leaves, takes the organization over or gives it away.
Move(o) ==
  /\ other[o] > 0
  /\ LET member == row["organization"] IN
       \E role \in Role \union {"owner"}, status \in Status :
         /\ \/ member.status = "revoked" /\ status = "active" /\ role # "owner"
            \/ member.status = "active" /\ status = "revoked"
                 /\ role = member.role /\ role # "owner"
            \/ member.status = "active" /\ status = "active"
                 /\ role = IF member.role = "owner" THEN "admin" ELSE "owner"
         /\ row' = [row EXCEPT !["organization"] = [role |-> role, status |-> status, at |-> other[o]]]
  /\ call' = [f \in Editor |->
                IF call[f].kind = "organization" /\ call[f].at = "listed"
                THEN Outdated(call[f], {"listed"}) ELSE call[f]]
  /\ other' = [other EXCEPT ![o] = 0]
  /\ UNCHANGED <<user, clockVars>>

StampsNext ==
  \/ \E e \in Editor :
       \/ \E kind \in Table :
            \/ ListMembers(e, kind)
            \/ \E input \in Input : ReadTarget(e, kind, input)
       \/ RefuseVersion(e) \/ ReadClock(e) \/ ApplyUpdate(e) \/ RefuseState(e)
  \/ \E o \in Other : OtherReadsClock(o) \/ Touch(o) \/ Move(o)

StampsSpec == StampsInit /\ [][StampsNext]_stampVars

-----------------------------------------------------------------------------
(* Properties. *)

\* What a view says of the member.
Same(a, b) == a.name = b.name /\ a.role = b.role /\ a.status = b.status

\* The update found the member as the view shows it.
Finds(e, view) ==
  call[e][view] # Nothing => Same(View(call[e].kind), call[e][view])

\* As long as times are read in order, an update is applied only if the member still
\* is what the service has read and, where the client named a version, what the client
\* was shown: it undoes nobody's change in between (UpdateMember,
\* UpdateDeploymentMember).  The version does not see what went another way than the
\* endpoint: a rename by the other one, and a membership that moved under a listing.
StaleUpdatesAreRefused ==
  [][\A e \in Editor : ApplyUpdate(e) /\ ordered =>
       \A view \in {"listed", "seen"} \ call[e].crossed : Finds(e, view)]_stampVars

\* Whatever the clocks say and whoever else writes, an update changes no role and no
\* status that its request does not name: the transaction compares both with what the
\* service has filled the request in with (UpdateMember, UpdateDeploymentMember).
AuthorityIsKept ==
  [][\A e \in Editor : ApplyUpdate(e) =>
       \A field \in {"role", "status"} : call[e].input[field] = Keep =>
         row'[call[e].kind][field] = row[call[e].kind][field]]_stampVars

\* No exceptions.  This does not hold (MCStampsTwoTables).
EveryStaleUpdateIsRefused ==
  [][\A e \in Editor : ApplyUpdate(e) => Finds(e, "listed") /\ Finds(e, "seen")]_stampVars
===============================================================================
