\* One device; two approvals, so that a lease can outlive the first.
CONSTANTS
  Devices = {d1}
  Rids = {i1}
  Keys = {k1}
  Names = {}
  None = none
  Operators = {boss}
  FirstOwner = boss
  MaxSerial = 2
  MaxUses = 2
  MaxOpReq = 1
  MaxDevReq = 1
  MaxFlush = 1
SPECIFICATION GuardSpec
CONSTRAINT LeasesOnly
CHECK_DEADLOCK FALSE
PROPERTY AdmitsOnlyCurrentLeases
PROPERTY RevokedShutOut
PROPERTY ModeApplied
PROPERTY LeaseAdmitted
