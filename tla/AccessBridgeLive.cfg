\* Retries, failures and stops under fairness; bob is unknown to Keycloak.
CONSTANTS
  t1 = t1
  t2 = t2
  t3 = t3
  ann = ann
  bob = bob
  r1 = r1
  NoRole = NoRole
  NoReq = NoReq
  Tasks = {t1, t2}
  Users = {ann, bob}
  Roles = {r1}
  Requester <- MCRequester
  About <- MCAbout
  Marked = {t1, t2}
  KcUsers = {ann}
  Pods = {p1}
  Slots = {s1, s2}
  Signatures <- MCSignatures
  Flat = {t1, t2}
  MaxAttempts = 2
  MaxFaults = 2
  MaxReplays = 0
  MaxRevokes = 0
SPECIFICATION FairSpec
PROPERTIES GrantedOrReported
CHECK_DEADLOCK FALSE
