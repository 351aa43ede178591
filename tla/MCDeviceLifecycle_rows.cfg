\* Two devices that compete for ids, keys and a name, or two operators whose roles change under their requests.
CONSTANTS
  Devices = {d1, d2}
  Rids = {i1, i2}
  Keys = {k1, k2}
  Names = {n1}
  None = none
  Operators = {boss, mgr}
  FirstOwner = boss
  MaxSerial = 1
  MaxUses = 2
  MaxOpReq = 1
  MaxDevReq = 1
SPECIFICATION Spec
CONSTRAINT OneQuestion
SYMMETRY Symmetry
CHECK_DEADLOCK FALSE
INVARIANT UniqueIdentities
PROPERTY ReturnConsumesOwnerGrant
