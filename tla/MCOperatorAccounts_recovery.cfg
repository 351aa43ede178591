\* Three Owners, two resets and a role change that was authenticated before them.
CONSTANTS
  Accounts = {a1, a2, a3}
  Founders = {a1, a2, a3}
  Hired = {}
  Protected = {}
  Partners = {}
  Assistant = a1
  Sessions = {s1, s2}
  Changes = {c1}
  Links = {l1, l2}
  None = none
  MaxLoginFailures = 1
SPECIFICATION Spec
SYMMETRY Symmetry
CHECK_DEADLOCK FALSE
CONSTRAINT NoTrouble
INVARIANT OwnerToOwnerRecovery
