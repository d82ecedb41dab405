SPECIFICATION Spec
CONSTANTS
  r2 = r2
  n1 = n1
  n2 = n2
  u1 = u1
  u2 = u2
  r1 = r1
  Nodes = {n1}
  Users = {u1, u2}
  SuperUsers = {u2}
  NodeSets = {{n1}}
  Request = {r1}
  Ops = {"create", "edit", "submit", "dryrun", "submitnew", "suspend", "remove", "force"}
  RecordStates = {}
  RabbitMQ = FALSE
  ChannelCap = 2
  MaxJobs = 2
  MaxGoals = 3
  MaxRestarts = 1
  PushNotification = FALSE
  ScannerLimit = 3
  StreamFaults = {}
  MaxStreamFaults = 0
INVARIANTS TypeOK ServedIsCurrent
PROPERTIES OwnerKept AssignmentImplemented
