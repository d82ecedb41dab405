SPECIFICATION Spec
CONSTANTS
  a = a
  b = b
  c = c
  g1 = g1
  g2 = g2
  g3 = g3
  j1 = j1
  j2 = j2
  NoGoal = NoGoal
  NoJob = NoJob
  Name = {a, b, c}
  Goal = {g1, g2, g3}
  Job = {j1, j2}
  JobOf <- MCJobOf
  PluginsOf <- OnePlugin
  GoalLists <- NewGoal
  GPUPlugins <- NoGPU
  APINames = {}
  APIGoals = {}
  Policy = "default"
  Faults = {"create", "terminate", "delete", "configmap"}
  ChannelCap = 4
  MaxGen = 4
  MaxRuns = 2
  MaxUpdates = 3
  MaxBacklog = 1
  MaxRestarts = 1
INVARIANTS TypeOK NoDuplicates QueuesMatchStatus ActivePluginHeld
SYMMETRY GoalSymmetry
