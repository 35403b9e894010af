\* Two users ask for one schema whose role does not exist yet, at two
\* overlapping pods; deliveries repeat, calls fail, pods stop, an operator
\* replays and an administrator revokes, each within its bound and at most two
\* of these.  The bridge falls silent when everything is decided and the
\* bounds are used.
CONSTANTS
  t1 = t1
  t2 = t2
  t3 = t3
  ann = ann
  bob = bob
  r1 = r1
  NoRole = NoRole
  NoReq = NoReq
  Tasks = {t1, t2}
  Users = {ann, bob}
  Roles = {r1}
  Requester <- MCRequester
  About <- MCAbout
  Marked = {t1, t2}
  KcUsers = {ann, bob}
  Pods = {p1, p2}
  Slots = {s1, s2}
  Signatures <- MCSigned
  Flat = {t2}
  MaxAttempts = 2
  MaxFaults = 1
  MaxReplays = 1
  MaxRevokes = 1
SPECIFICATION Spec
SYMMETRY Symmetric
INVARIANTS RememberedMeansGranted RepeatsAreExplained
PROPERTIES ImplementsLedger HandlersEndInGrant
CONSTRAINT FewDisturbances
CHECK_DEADLOCK FALSE
