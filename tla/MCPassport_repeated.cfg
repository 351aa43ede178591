\* A job handed out again after a block.
CONSTANTS
  Device = d
  Keys = {k1, k2}
  Nonces = {n1}
  None = none
  MaxJobs = 3
  MaxFaults = 1
SPECIFICATION Spec
CHECK_DEADLOCK FALSE
INVARIANT ShutOutReachesSigner
