SPECIFICATION Spec
CONSTANTS
  n1 = n1
  n2 = n2
  u1 = u1
  u2 = u2
  r1 = r1
  r2 = r2
  Nodes = {n1}
  Users = {u1}
  SuperUsers = {}
  NodeSets = {{n1}}
  Request = {r1, r2}
  Ops = {"submitnew", "submit", "edit", "dryrun", "suspend", "remove"}
  RecordStates = {"Suspended"}
  RabbitMQ = TRUE
  ChannelCap = 1
  MaxJobs = 1
  MaxGoals = 2
  MaxRestarts = 1
  PushNotification = TRUE
  ScannerLimit = 1
  StreamFaults = {"eof"}
  MaxStreamFaults = 1
CHECK_DEADLOCK FALSE
SYMMETRY RequestSymmetry
INVARIANTS SchedulerStarts ServedIsSent
