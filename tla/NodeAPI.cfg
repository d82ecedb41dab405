SPECIFICATION FairSpec
CONSTANTS
  a = a
  b = b
  c = c
  g1 = g1
  g2 = g2
  g3 = g3
  j1 = j1
  j2 = j2
  NoGoal = NoGoal
  NoJob = NoJob
  Name = {a, b, c}
  Goal = {g1, g2, g3}
  Job = {j1, j2}
  JobOf <- MCJobOf
  PluginsOf <- OnePlugin
  GoalLists = {}
  GPUPlugins <- NoGPU
  APINames = {c}
  APIGoals = {g1}
  Policy = "default"
  Faults = {}
  ChannelCap = 5
  MaxGen = 3
  MaxRuns = 0
  MaxUpdates = 1
  MaxBacklog = 1
  MaxRestarts = 0
INVARIANTS SelectedIsFound
PROPERTIES APIPluginLaunched
