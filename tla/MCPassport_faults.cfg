\* Four jobs while nothing fails, three with any one fault.
CONSTANTS
  Device = d
  Keys = {k1, k2}
  Nonces = {n1}
  None = none
  MaxJobs = 4
  MaxFaults = 1
SPECIFICATION Spec
SYMMETRY Symmetry
CHECK_DEADLOCK FALSE
CONSTRAINT FourthJobIfReliable
INVARIANT ReliableShutOut
PROPERTY TwoBoxRule
PROPERTY NoReplay
