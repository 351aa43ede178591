\* Nothing fails; the key update and the re-enrollment only overlap.
CONSTANTS
  Device = d
  Keys = {k1, k2}
  Nonces = {n1}
  None = none
  MaxJobs = 4
  MaxFaults = 0
SPECIFICATION Spec
SYMMETRY Symmetry
CHECK_DEADLOCK FALSE
INVARIANT KeysAgree
