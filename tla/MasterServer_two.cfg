CONSTANTS
  s1 = s1
  s2 = s2
  s3 = s3
  t1 = t1
  t2 = t2
  Servers = {s1, s2, s3}
  Tablets = {t1, t2}
  ReplicasOf <- MCReplicas
  Calls = {c1, c2}
  None = None
  MaxCrashes = 1
  MaxDown = 2
SYMMETRY CallSymmetry
SPECIFICATION Spec
INVARIANTS
  TypeOK
  SinglePrimary
  ViewHasOnePrimary
  SettledViewsAgree
  SettledPrimariesAlive
