SPECIFICATION Spec
CONSTANTS
  a = a
  b = b
  c = c
  g1 = g1
  g2 = g2
  g3 = g3
  j1 = j1
  j2 = j2
  NoGoal = NoGoal
  NoJob = NoJob
  Name = {a, b, c}
  Goal = {g1, g2, g3}
  Job = {j1, j2}
  JobOf <- MCJobOf
  PluginsOf <- OnePlugin
  GoalLists <- BothGoals
  GPUPlugins <- AllGPU
  APINames = {}
  APIGoals = {}
  Policy = "gpuaware"
  Faults = {"skip", "create", "terminate", "warning", "nostatus"}
  ChannelCap = 4
  MaxGen = 1
  MaxRuns = 3
  MaxUpdates = 1
  MaxBacklog = 1
  MaxRestarts = 0
INVARIANTS GPUExclusive OrderInvariant AtMostOneGPUPod PodsAreManaged
PROPERTIES OutcomeReported LifecycleImplemented
