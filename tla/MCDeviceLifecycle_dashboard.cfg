\* A dashboard approval and a denial of the same pending device.
CONSTANTS
  Devices = {d1}
  Rids = {i1}
  Keys = {k1, k2}
  Names = {}
  None = none
  Operators = {boss}
  FirstOwner = boss
  MaxSerial = 2
  MaxUses = 2
  MaxOpReq = 2
  MaxDevReq = 0
SPECIFICATION Spec
SYMMETRY Symmetry
CHECK_DEADLOCK FALSE
PROPERTY DashboardNeverApprovesDenied
