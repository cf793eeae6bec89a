\* Two requests in flight; three accounts and one organization, or two and two.
CONSTANTS
  User = {u1, u2, u3}
  Org = {o1, o2}
  Invitation = {i1}
  Request = {r1, r2}
  NoOrg = NoOrg
  First = o1
SPECIFICATION Spec
SYMMETRY Symmetry
VIEW Tables
CONSTRAINT FewRows
INVARIANTS
  OneOwnerPerOrganization
  OneOrganizationPerUser
  OnePlatformOwner
  MembershipInvariant
PROPERTIES
  OnlySuperiorsChangeMembers
  EntryConsumesInvitation
  ChangesAreAnnounced
  RevocationFlagIsExact
  ImplementsDirectory
