SPECIFICATION FairSpec
CONSTANTS
  c1 = c1
  c2 = c2
  None = None
  NoTemplate = NoTemplate
  Clients = {c1, c2}
  Commands = {"run", "profile", "deploy", "rm"}
  Deployments <- MCDeployments
  Secrets = {"secret"}
  MaxErrorCount = 1
  Faults = {"interrupt", "log", "terminate", "watch"}
CHECK_DEADLOCK FALSE
INVARIANTS TypeOK RunCleansUp TemplateSound
PROPERTIES DeletesOwnPod WatchedRunEnds
