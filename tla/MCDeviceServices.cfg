\* One drop of two parts and two calls about it; one message and two sockets;
\* two certificates; one drop to sync; one envelope and two copies of it, in
\* units of five minutes; two networks of one block; two watchers; two ids.
CONSTANTS
  Drops = {f1}
  Devices = {p, q}
  Leavers = {q}
  Calls = {r1, r2}
  None = none
  Parts = 2
  MaxDropFaults = 1
  Members = {p, q}
  Messages = {m1}
  Sockets = {s1, s2}
  NoSocket = none
  MaxChatFaults = 2
  CertDevices = {p}
  CertOperators = {o}
  Certs = {c1, c2}
  Tasks = {t1, t2}
  Nothing = none
  MaxCertFaults = 2
  Offers = {f1}
  Fillers = {x}
  Unknown = none
  Contents = {k1, k2, k3}
  FirstContent = k1
  MaxSyncChanges = 2
  MaxClientStarts = 1
  Envelopes = {e1}
  Copies = {y1, y2}
  Stamps = {0, 2, 4}
  Skew = 2
  Retention = 5
  ClaimDelay = 1
  Never = none
  MaxTime = 9
  Nets = {n1, n2}
  Addresses = {a1, a2}
  Phones = {p}
  Gates = {g1, g2}
  Nobody = none
  NoNet = none
  MaxNetFaults = 1
  Watchers = {w1, w2}
  MaxReports = 4
  MaxAlertFaults = 1
  Ids = {p, q}
  SettingCount = 2
  Modes = {optional, required}
  DefaultMode = optional
  FirstMode = required
  Unreadable = none
  MaxListChanges = 3
  MaxListFaults = 2
SPECIFICATION ServicesSpec
CONSTRAINT RegistrationsStay
CONSTRAINT OneAtATime
CHECK_DEADLOCK FALSE
INVARIANT ServicesTypeOK
INVARIANT OfferHasFile
INVARIANT BlobReclaimed
INVARIANT NoGap
INVARIANT ReliableDelivery
INVARIANT RevokedAtEdge
INVARIANT LiveIsOnFile
INVARIANT BlockedHasNoCert
INVARIANT AtMostOnce
INVARIANT NewcomersAlerted
INVARIANT MailsAddUp
INVARIANT NeverFallsBack
PROPERTY DropsDrain
PROPERTY RevokedCanGo
PROPERTY SyncConverges
PROPERTY LogArrives
PROPERTY ListsCatchUp
PROPERTY OwnerDecisionStands
PROPERTY ClaimIsNoWayAround
