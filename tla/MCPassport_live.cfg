\* Every job is answered in spite of a fault.
CONSTANTS
  Device = d
  Keys = {k1, k2}
  Nonces = {n1}
  None = none
  MaxJobs = 2
  MaxFaults = 1
SPECIFICATION LiveSpec
CHECK_DEADLOCK FALSE
PROPERTY JobsAnswered
