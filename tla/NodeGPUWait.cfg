SPECIFICATION FairSpec
CONSTANTS
  a = a
  b = b
  c = c
  g1 = g1
  g2 = g2
  g3 = g3
  j1 = j1
  j2 = j2
  NoGoal = NoGoal
  NoJob = NoJob
  Name = {a, b, c}
  Goal = {g1, g2, g3}
  Job = {j1, j2}
  JobOf <- MCJobOf
  PluginsOf <- OnePlugin
  GoalLists <- DropGoal
  GPUPlugins <- AllGPU
  APINames = {}
  APIGoals = {}
  Policy = "gpuaware"
  Faults = {}
  ChannelCap = 4
  MaxGen = 2
  MaxRuns = 2
  MaxUpdates = 2
  MaxBacklog = 1
  MaxRestarts = 0
PROPERTIES QueuedIsDequeued
