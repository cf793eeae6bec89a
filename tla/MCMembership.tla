---------------------------- MODULE MCMembership ----------------------------
(* A small instance of Membership for TLC. *)
EXTENDS Membership, Naturals, FiniteSets, TLC

CONSTANTS First  \* the organization that is created first

\* Bounds: two accounts with two organizations, or three accounts with one; among
\* three, one member update is in flight beside another request, or an invitation
\* has been created and one request is in flight; the dissolution of their
\* organization is the last step that is looked at.  The organizations are
\* interchangeable, so First is the one used first.
Enrolling == {u \in User : dep[u].status # "none"}
Busy == {r \in Request : req[r].phase # "idle"}
FewRows ==
  /\ Cardinality(Enrolling) + Cardinality({o \in Org : org[o] # "none"}) <= 4
  /\ Enrolling = User =>
       /\ Cardinality({r \in Request : req[r].phase = "prepared"}) <= 1
       /\ Cardinality(Busy) <= 1 \/ \A i \in Invitation : inv[i].state = "none"
       /\ \A o \in Org : org[o] # "disabled"
  /\ org[First] = "none" => \A o \in Org : org[o] = "none"

\* Accounts, requests and invitations are interchangeable.
Symmetry == Permutations(User) \union Permutations(Request)
              \union Permutations(Invitation)

\* No action reads appended, and only action properties speak of it: states
\* that differ in it alone need not be explored twice.
Tables == <<dep, org, mem, inv, req>>
=============================================================================
