SPECIFICATION Spec
CONSTANTS
  arm = arm
  both = both
  listed = listed
  unknown = unknown
  NoTable = NoTable
  NoNodes = NoNodes
  Jobs <- MCJobs
  Users <- MCUsers
  Manifests <- MCManifests
  ECR <- MCECR
  Loaded = {both}
  Patterns <- MCPatterns
  FirstFile <- MCFile
  r1 = r1
  r2 = r2
  Admins = {r1, r2}
  AdminOps = {"add", "remove", "reload", "database", "restart"}
  FetchFails = {arm}
  MaxChanges = 3
INVARIANTS TypeOK AcceptedIsSound ValidIsAccepted KnownNamesUnique 

SYMMETRY AdminSymmetry
CONSTRAINT ThirdAlone
