SPECIFICATION FairSpec
CONSTANTS
  n1 = n1
  n2 = n2
  u1 = u1
  u2 = u2
  r1 = r1
  r2 = r2
  Nodes = {n1}
  Users = {u1}
  SuperUsers = {}
  NodeSets = {{n1}}
  Request = {r1}
  Ops = {"submitnew", "submit", "remove"}
  RecordStates = {}
  RabbitMQ = FALSE
  ChannelCap = 2
  MaxJobs = 1
  MaxGoals = 3
  MaxRestarts = 1
  PushNotification = TRUE
  ScannerLimit = 3
  StreamFaults = {"drop"}
  MaxStreamFaults = 2
INVARIANTS StreamIsCurrent
PROPERTIES NodeCatchesUp JobWithdrawn SubmittedReachesNodes
