\* One device and one Owner: every interleaving of two operator requests and a device request.
CONSTANTS
  Devices = {d1}
  Rids = {i1}
  Keys = {k1, k2}
  Names = {}
  None = none
  Operators = {boss}
  FirstOwner = boss
  MaxSerial = 2
  MaxUses = 2
  MaxOpReq = 2
  MaxDevReq = 1
SPECIFICATION Spec
SYMMETRY Symmetry
CHECK_DEADLOCK FALSE
INVARIANT TypeOK
INVARIANT CredentialsConsistent
INVARIANT GrantsConsistent
PROPERTY RevokedIsTerminal
PROPERTY KeepsPromise
