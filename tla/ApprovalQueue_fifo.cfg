SPECIFICATION Spec
CONSTANTS
  s1 = s1  s2 = s2  s3 = s3  c1 = c1  c2 = c2  c3 = c3  r1 = r1  r2 = r2  t1 = t1
  alice = alice  bob = bob  carol = carol  dave = dave
  ToolOf <- MCToolOf
  Roster <- MCRoster
  None = None
  Submissions = {s1, s2}
  FifoCalls = {c1, c2, c3}
  RoleCalls = {}
  ChainCalls = {c1, c2, c3}
  Tools = {t1}
  Signers = {}
  Tiers = {}
  ManifestRoles <- NoRoleSets
  RememberedUnknownOutcomes = 2
SYMMETRY Symmetric
INVARIANTS StopEmpties EntriesMatchWaiters
PROPERTIES  UnknownOutcomeSuppressesGrant
