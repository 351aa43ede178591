\* An Owner resets a Manager twice.
CONSTANTS
  Accounts = {a1, m1}
  Founders = {a1}
  Hired = {m1}
  Protected = {}
  Partners = {}
  Assistant = a1
  Sessions = {s1}
  Changes = {}
  Links = {l1, l2}
  None = none
  MaxLoginFailures = 1
SPECIFICATION Spec
SYMMETRY Symmetry
CHECK_DEADLOCK FALSE
CONSTRAINT NoTrouble
INVARIANT LinkEnrolls
