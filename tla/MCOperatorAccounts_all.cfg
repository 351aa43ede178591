\* An Owner and an invited operator, with sign-ins, lockouts and ageing sessions, or two recovery
\* links, against disabling, deletion, a role change and emergency recovery; or two Owners and a
\* Manager with two role changes in every order.
CONSTANTS
  Accounts = {a1, m1, o1, o2}
  Founders = {a1}
  Hired = {}
  Protected = {a1}
  Partners = {o1, o2}
  Assistant = m1
  Sessions = {s1, s2}
  Changes = {c1, c2}
  Links = {l1, l2}
  None = none
  MaxLoginFailures = 2
SPECIFICATION AccountsSpec
SYMMETRY Symmetry
CHECK_DEADLOCK FALSE
CONSTRAINT RolesOrAccess
INVARIANT SessionsCurrent
INVARIANT OneOpenLink
INVARIANT DeletedIsInert
INVARIANT OwnerRemains
PROPERTY NoRevival
PROPERTY OwnerChangesVerified
