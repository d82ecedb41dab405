--------------------------- MODULE NodeScheduler ---------------------------
(***************************************************************************)
(* The scheduler that runs on an edge node (pkg/nodescheduler): one main   *)
(* goroutine that selects over its channels (NodeScheduler.Run), a         *)
(* goroutine for every pod it launches, the HTTP goroutines of its REST    *)
(* API, and the cluster (module Kubernetes).                               *)
(*                                                                         *)
(* A handler of the main goroutine that loops (rule evaluation, selection, *)
(* launching, bulk goals, clean-up) takes one step per iteration, because  *)
(* the other goroutines and the cluster run between them; pc says where    *)
(* the main goroutine is, and it receives only at pc = "select".           *)
(***************************************************************************)
EXTENDS Kubernetes, PluginRuntime, PluginQueue

CONSTANTS
  GoalLists,   \* the lists of goals the cloud may send to this node
  PluginsOf,   \* PluginsOf[g]: the plugins of this node's sub-goal of g
  APINames,    \* names of plugins submitted through the node's REST API
  APIGoals,    \* goals posted through the node's REST API
  GPUPlugins,  \* the <<name, goal>> whose selector has resource.gpu = "true"
  Policy,      \* the scheduling policy
  ChannelCap,  \* capacity of chanNeedScheduling (maxChannelBuffer, 100)
  \* bounds of the model
  MaxGen,      \* registrations of one goal identifier
  MaxRuns,     \* times a plugin is queued by a rule
  MaxUpdates,  \* goal lists the cloud sends and goals posted
  MaxBacklog,  \* goal lists on their way to the main goroutine
  MaxRestarts  \* restarts of the process

\* A list holds at most one goal of each job.
ASSUME NodeAssumption ==
  /\ GoalLists \subseteq SUBSET Goal
  /\ \A G \in GoalLists : \A g, h \in G : JobOf[g] = JobOf[h] => g = h
  /\ PluginsOf \in [Goal -> SUBSET Name]
  /\ APINames \subseteq Name
  /\ APIGoals \subseteq Goal
  /\ GPUPlugins \subseteq Name \X (Goal \cup {NoGoal})
  /\ Policy \in {"default", "gpuaware", "roundrobin"}
  /\ ChannelCap \in Nat \ {0}
  /\ MaxGen \in Nat /\ MaxRuns \in Nat
  /\ MaxUpdates \in Nat /\ MaxBacklog \in Nat /\ MaxRestarts \in Nat

\* A PluginRuntime object.  Registering a goal makes new objects for its
\* plugins, so an object is identified by its index and by which registration
\* of the goal made it (for the REST API: by which request did).
Runtime ==
  {r \in [name : Name, goal : Goal \cup {NoGoal}, gen : 1..MaxGen] :
     r.name \in IF r.goal = NoGoal THEN APINames ELSE PluginsOf[r.goal]}

\* Mutant: the selector is not found.
RequiresGPU_NotFound(r) == <<r.name, r.goal>> \in {}

RequiresGPU(r) == <<r.name, r.goal>> \in GPUPlugins

VARIABLES
  \* goal manager
  goals,            \* the keys of ScienceGoals
  generation,       \* how often each goal was registered (history)
  loaded,           \* the values of LoadedPlugins, one per index
  \* runtime objects
  status,           \* state of each object's state machine
  podUID,           \* UID of its pod, 0 before the first
  reported,         \* objects whose current run has a published outcome
  \* queues and channels
  readyQueue,
  readyIndex,       \* iterator of the ready queue while it is being iterated
  scheduledPlugins,
  needScheduling,   \* messages in chanNeedScheduling; their content is unused
  fromCloud,        \* goal lists in chanFromCloudScheduler
  \* local state of the main goroutine
  pc,
  evalGoals,        \* goals the rule evaluation still has to visit
  evalGoal,         \* the goal whose rules it is evaluating
  gpuTaken,         \* GPUPluginExists of the GPU-aware policy
  toRun,            \* pluginsToRun
  bulk,             \* goals of the received list not yet handled
  keep,             \* goalsToKeep
  cleaning,         \* goal being cleaned up, its plugins left, what follows
  \* other goroutines
  creating,         \* launch goroutines about to create their pod
  aborting,         \* launch goroutines about to delete a pod after a failure
  apiSending,       \* HTTP goroutines about to send to chanNeedScheduling
  \* bounds
  runs, updates, restarts

goalVars    == <<goals, generation, loaded>>
runtimeVars == <<status, podUID, reported>>
queueVars   == <<readyQueue, readyIndex, scheduledPlugins>>
chanVars    == <<needScheduling, fromCloud>>
ruleVars    == <<evalGoals, evalGoal>>
policyVars  == <<gpuTaken, toRun>>
bulkVars    == <<bulk, keep, cleaning>>
launchVars  == <<creating, aborting>>
boundVars   == <<runs, updates, restarts>>

vars == <<kubeVars, goalVars, runtimeVars, queueVars, chanVars, pc, ruleVars,
          policyVars, bulkVars, launchVars, apiSending, boundVars>>

\* Where the main goroutine is: waiting in its select; evaluating rules;
\* iterating the ready queue in the policy; launching the selected plugins;
\* handling a list of goals; cleaning up one goal; sending to its own channel
\* chanNeedScheduling; or gone, after a nil dereference.
PC == {"select", "rules", "selecting", "launching", "bulk", "cleaning",
       "sending", "crashed"}

NotCleaning == [goal |-> NoGoal, names |-> {}, next |-> NoGoal]

TypeOK ==
  /\ KubeTypeOK
  /\ goals \subseteq Goal
  /\ generation \in [Goal \cup {NoGoal} -> 0..MaxGen]
  /\ loaded \subseteq Runtime
  /\ status \in [Runtime -> PluginState]
  /\ podUID \in [Runtime -> Nat]
  /\ reported \subseteq Runtime
  /\ readyQueue \in Seq(Runtime)
  /\ readyIndex \in Nat
  /\ scheduledPlugins \in Seq(Runtime)
  /\ needScheduling \in 0..ChannelCap
  /\ fromCloud \in Seq(SUBSET Goal)
  /\ pc \in PC
  /\ evalGoals \subseteq Goal
  /\ evalGoal \in Goal \cup {NoGoal}
  /\ gpuTaken \in BOOLEAN
  /\ toRun \in Seq(Runtime)
  /\ bulk \subseteq Goal
  /\ keep \subseteq Goal
  /\ cleaning \in [goal : Goal \cup {NoGoal}, names : SUBSET Name,
                   next : Goal \cup {NoGoal}]
  /\ creating \in [Runtime -> Nat]
  /\ aborting \in [Runtime -> Nat]
  /\ apiSending \in Nat
  /\ runs \in Nat
  /\ updates \in Nat
  /\ restarts \in Nat

Init ==
  /\ KubeInit
  /\ goals = {}
  /\ generation = [g \in Goal \cup {NoGoal} |-> 0]
  /\ loaded = {}
  /\ status = [r \in Runtime |-> Inactive]
  /\ podUID = [r \in Runtime |-> 0]
  /\ reported = {}
  /\ readyQueue = <<>>
  /\ readyIndex = 0
  /\ scheduledPlugins = <<>>
  /\ needScheduling = 0
  /\ fromCloud = <<>>
  /\ pc = "select"
  /\ evalGoals = {}
  /\ evalGoal = NoGoal
  /\ gpuTaken = FALSE
  /\ toRun = <<>>
  /\ bulk = {}
  /\ keep = {}
  /\ cleaning = NotCleaning
  /\ creating = [r \in Runtime |-> 0]
  /\ aborting = [r \in Runtime |-> 0]
  /\ apiSending = 0
  /\ runs = 0
  /\ updates = 0
  /\ restarts = 0

-----------------------------------------------------------------------------
(* Goals received from the cloud go through the config map of the cluster. *)

\* The cloud streams the list of goals of this node.
CloudSendsGoals(G) ==
  /\ updates < MaxUpdates
  /\ Len(fromCloud) + Len(cmEvents) < MaxBacklog
  /\ updates' = updates + 1
  /\ fromCloud' = Append(fromCloud, G)
  /\ UNCHANGED <<kubeVars, goalVars, runtimeVars, queueVars, needScheduling, pc,
                 ruleVars, policyVars, bulkVars, launchVars, apiSending, runs,
                 restarts>>

\* An error of the write is logged and the list is lost.
ReceiveFromCloud ==
  /\ pc = "select"
  /\ fromCloud # <<>>
  /\ fromCloud' = Tail(fromCloud)
  /\ \/ ConfigMapWritten(Head(fromCloud))
     \/ "configmap" \in Faults /\ UNCHANGED <<configMap, cmEvents>>
  /\ UNCHANGED <<pods, uids, podEvents, kubeEvents, goalVars, runtimeVars,
                 queueVars, needScheduling, pc, ruleVars, policyVars, bulkVars,
                 launchVars, apiSending, boundVars>>

ReceiveConfigMap ==
  /\ pc = "select"
  /\ cmEvents # <<>>
  /\ cmEvents' = Tail(cmEvents)
  /\ bulk' = Head(cmEvents)
  /\ keep' = Head(cmEvents)
  /\ pc' = "bulk"
  /\ UNCHANGED <<pods, uids, podEvents, kubeEvents, configMap, goalVars,
                 runtimeVars, queueVars, chanVars, ruleVars, policyVars,
                 cleaning, launchVars, apiSending, boundVars>>

\* registerGoal(g) in the goal manager whose goals were G: a new inactive
\* object for every plugin of the sub-goal, replacing the one of its index.
Register(g, G) ==
  /\ generation[g] < MaxGen
  /\ goals' = G \cup {g}
  /\ generation' = [generation EXCEPT ![g] = @ + 1]
  /\ loaded' = {r \in loaded : r.goal # g} \cup
               {r \in Runtime : r.goal = g /\ r.gen = generation[g] + 1}

\* One goal of the list: already there, new, or another goal of its job is
\* there and has to be cleaned up first.
BulkGoal(g) ==
  /\ pc = "bulk"
  /\ g \in bulk
  /\ bulk' = bulk \ {g}
  /\ LET existing == {e \in goals : JobOf[e] = JobOf[g]}
     IN  \/ /\ g \in existing
            /\ UNCHANGED <<goalVars, pc, cleaning>>
         \/ /\ existing = {}
            /\ Register(g, goals)
            /\ UNCHANGED <<pc, cleaning>>
         \/ \E e \in existing \ {g} :
              /\ cleaning' = [goal |-> e, names |-> PluginsOf[e], next |-> g]
              /\ pc' = "cleaning"
              /\ UNCHANGED goalVars
  /\ UNCHANGED <<kubeVars, runtimeVars, queueVars, chanVars, ruleVars,
                 policyVars, keep, launchVars, apiSending, boundVars>>

\* After the list: clean up a goal it does not hold, or finish.
BulkRemove ==
  /\ pc = "bulk"
  /\ bulk = {}
  /\ \/ \E e \in goals \ keep :
          /\ cleaning' = [goal |-> e, names |-> PluginsOf[e], next |-> NoGoal]
          /\ pc' = "cleaning"
          /\ UNCHANGED keep
     \/ /\ goals \subseteq keep
        /\ pc' = "select"
        /\ keep' = {}
        /\ UNCHANGED cleaning
  /\ UNCHANGED <<kubeVars, goalVars, runtimeVars, queueVars, chanVars, ruleVars,
                 policyVars, bulk, launchVars, apiSending, boundVars>>

\* cleanUpGoal, one plugin: out of the ready queue, out of the scheduled
\* plugins by name, and the pod of whatever came out is deleted.  The object
\* stays loaded unless something came out of the scheduled plugins.
CleanPlugin(n) ==
  /\ pc = "cleaning"
  /\ n \in cleaning.names
  /\ cleaning' = [cleaning EXCEPT !.names = @ \ {n}]
  /\ \/ /\ ~ \E r \in loaded : r.name = n /\ r.goal = cleaning.goal
        /\ UNCHANGED <<readyQueue, scheduledPlugins, loaded, reported, pods,
                       podEvents>>
     \/ \E r \in loaded :
          /\ r.name = n /\ r.goal = cleaning.goal
          /\ readyQueue' = AfterPop(readyQueue, n)
          /\ scheduledPlugins' = AfterPop(scheduledPlugins, n)
          /\ IF HasName(scheduledPlugins, n)
             THEN LET pn == <<n, JobID(Popped(scheduledPlugins, n).goal)>>
                  IN  /\ loaded' = loaded \ {r}
                      /\ IF PodExists(pn)
                         THEN /\ reported' = reported \cup {r}
                              /\ TerminatePod(pn, podEvents)
                         ELSE UNCHANGED <<reported, pods, podEvents>>
             ELSE UNCHANGED <<loaded, reported, pods, podEvents>>
  /\ UNCHANGED <<uids, kubeEvents, configMap, cmEvents, goals, generation,
                 status, podUID, readyIndex, chanVars, pc, ruleVars, policyVars,
                 bulk, keep, launchVars, apiSending, boundVars>>

\* cleanUpGoal, at its end: the goal is dropped; the goal that replaces it, if
\* any, is registered.
CleanDone ==
  /\ pc = "cleaning"
  /\ cleaning.names = {}
  /\ LET left == goals \ {cleaning.goal}
     IN  IF cleaning.next = NoGoal
         THEN goals' = left /\ UNCHANGED <<generation, loaded>>
         ELSE Register(cleaning.next, left)
  /\ cleaning' = NotCleaning
  /\ pc' = "bulk"
  /\ UNCHANGED <<kubeVars, runtimeVars, queueVars, chanVars, ruleVars,
                 policyVars, bulk, keep, launchVars, apiSending, boundVars>>

-----------------------------------------------------------------------------
(* Rule evaluation, every ten seconds.                                     *)

\* A schedule rule of the goal of r is valid, r is inactive and the node has a
\* core and memory left: r is queued.  The goals are visited one after the
\* other in any order.
QueuePlugin(r) ==
  /\ runs < MaxRuns
  /\ r \in loaded
  /\ status[r] = Inactive
  /\ \/ /\ pc = "select"
        /\ r.goal \in goals
        /\ evalGoals' = goals \ {r.goal}
     \/ /\ pc = "rules"
        /\ r.goal \in evalGoals \cup {evalGoal}
        /\ evalGoals' = evalGoals \ {r.goal}
  /\ evalGoal' = r.goal
  /\ pc' = "rules"
  /\ status' = [status EXCEPT ![r] = Queued]
  /\ reported' = reported \ {r}
  /\ readyQueue' = Push(readyQueue, r)
  /\ runs' = runs + 1
  /\ UNCHANGED <<kubeVars, goalVars, podUID, readyIndex, scheduledPlugins,
                 chanVars, policyVars, bulkVars, launchVars, apiSending, updates,
                 restarts>>

\* Some plugin was queued: the scheduler triggers itself.
RulesEvaluated ==
  /\ pc = "rules"
  /\ pc' = "sending"
  /\ evalGoals' = {}
  /\ evalGoal' = NoGoal
  /\ UNCHANGED <<kubeVars, goalVars, runtimeVars, queueVars, chanVars,
                 policyVars, bulkVars, launchVars, apiSending, boundVars>>

\* A tick at which no plugin is queued changes nothing.
IdleTick ==
  /\ pc = "select"
  /\ UNCHANGED vars

\* Mutant: the message is lost.
SendNeedScheduling_Lost == UNCHANGED needScheduling

\* A send to chanNeedScheduling; it waits while the channel is full.
SendNeedScheduling ==
  /\ needScheduling < ChannelCap
  /\ needScheduling' = needScheduling + 1

\* The main goroutine sends to the channel it alone receives from; on a full
\* channel the send blocks for ever.
TriggerScheduling ==
  /\ pc = "sending"
  /\ SendNeedScheduling
  /\ pc' = "select"
  /\ UNCHANGED <<kubeVars, goalVars, runtimeVars, queueVars, fromCloud, ruleVars,
                 policyVars, bulkVars, launchVars, apiSending, boundVars>>

-----------------------------------------------------------------------------
(* Scheduling.                                                             *)

\* The GPU-aware policy looks for a GPU plugin among the scheduled ones, the
\* default policy does not; both then iterate the ready queue.  The round-robin
\* policy takes the oldest ready plugin out of the queue if none is scheduled.
StartScheduling ==
  /\ pc = "select"
  /\ needScheduling > 0
  /\ needScheduling' = needScheduling - 1
  /\ IF Policy = "roundrobin"
     THEN /\ pc' = "launching"
          /\ IF scheduledPlugins = <<>> /\ readyQueue # <<>>
             THEN /\ toRun' = <<Head(readyQueue)>>
                  /\ readyQueue' = Tail(readyQueue)
             ELSE UNCHANGED <<toRun, readyQueue>>
          /\ UNCHANGED <<gpuTaken, readyIndex>>
     ELSE /\ pc' = "selecting"
          /\ gpuTaken' = (Policy = "gpuaware" /\
                          \E i \in DOMAIN scheduledPlugins :
                            RequiresGPU(scheduledPlugins[i]))
          /\ readyIndex' = 0
          /\ UNCHANGED <<toRun, readyQueue>>
  /\ UNCHANGED <<kubeVars, goalVars, runtimeVars, scheduledPlugins, fromCloud,
                 ruleVars, bulkVars, launchVars, apiSending, boundVars>>

\* Mutant: what this call of the policy has selected already does not count.
GPUWaits_ScheduledOnly(r) ==
  /\ Policy = "gpuaware" /\ RequiresGPU(r)
  /\ \E i \in DOMAIN scheduledPlugins : RequiresGPU(scheduledPlugins[i])

\* Mutant: users of the GPU are also looked for in the queue that is selected from.
GPUWaits_ReadyToo(r) ==
  /\ Policy = "gpuaware" /\ RequiresGPU(r)
  /\ gpuTaken \/ \E i \in DOMAIN readyQueue : RequiresGPU(readyQueue[i])

\* A GPU plugin waits while another one is scheduled or was just selected.
GPUWaits(r) == Policy = "gpuaware" /\ RequiresGPU(r) /\ gpuTaken

\* Mutant: the policy pops what it selects, as the round-robin policy does.
SelectNext_Pops ==
  /\ pc = "selecting"
  /\ readyIndex < Len(readyQueue)
  /\ LET r == readyQueue[readyIndex + 1]
     IN  IF GPUWaits(r)
         THEN readyIndex' = readyIndex + 1 /\ UNCHANGED <<readyQueue, policyVars>>
         ELSE /\ readyQueue' = RemoveAt(readyQueue, readyIndex + 1)
              /\ toRun' = Append(toRun, r)
              /\ gpuTaken' = (gpuTaken \/ (Policy = "gpuaware" /\ RequiresGPU(r)))
              /\ UNCHANGED readyIndex
  /\ UNCHANGED <<kubeVars, goalVars, runtimeVars, scheduledPlugins, chanVars, pc,
                 ruleVars, bulkVars, launchVars, apiSending, boundVars>>

\* The next plugin of the ready queue is taken, or has to wait for the GPU.
SelectNext ==
  /\ pc = "selecting"
  /\ readyIndex < Len(readyQueue)
  /\ readyIndex' = readyIndex + 1
  /\ LET r == readyQueue[readyIndex + 1]
     IN  IF GPUWaits(r)
         THEN UNCHANGED policyVars
         ELSE /\ toRun' = Append(toRun, r)
              /\ gpuTaken' = (gpuTaken \/ (Policy = "gpuaware" /\ RequiresGPU(r)))
  /\ UNCHANGED <<kubeVars, goalVars, runtimeVars, readyQueue, scheduledPlugins,
                 chanVars, pc, ruleVars, bulkVars, launchVars, apiSending,
                 boundVars>>

SelectDone ==
  /\ pc = "selecting"
  /\ readyIndex >= Len(readyQueue)
  /\ pc' = "launching"
  /\ readyIndex' = 0
  /\ gpuTaken' = FALSE
  /\ UNCHANGED <<kubeVars, goalVars, runtimeVars, readyQueue, scheduledPlugins,
                 chanVars, ruleVars, toRun, bulkVars, launchVars, apiSending,
                 boundVars>>

\* One selected plugin: the entry of its name moves from the ready queue to the
\* scheduled plugins and a goroutine is started for it.  Pop returns nil when
\* there is no such entry; the goroutine then dereferences nil and the process
\* dies.
LaunchNext ==
  /\ pc = "launching"
  /\ toRun # <<>>
  /\ toRun' = Tail(toRun)
  /\ LET n == Head(toRun).name
         r == Popped(readyQueue, n)
     IN  IF HasName(readyQueue, n)
         THEN /\ readyQueue' = AfterPop(readyQueue, n)
              /\ scheduledPlugins' = Push(scheduledPlugins, r)
              /\ creating' = [creating EXCEPT ![r] = @ + 1]
              /\ UNCHANGED pc
         ELSE /\ pc' = "crashed"
              /\ UNCHANGED <<readyQueue, scheduledPlugins, creating>>
  /\ UNCHANGED <<kubeVars, goalVars, runtimeVars, readyIndex, chanVars, ruleVars,
                 gpuTaken, bulkVars, aborting, apiSending, boundVars>>

LaunchDone ==
  /\ pc = "launching"
  /\ toRun = <<>>
  /\ pc' = "select"
  /\ UNCHANGED <<kubeVars, goalVars, runtimeVars, queueVars, chanVars, ruleVars,
                 policyVars, bulkVars, launchVars, apiSending, boundVars>>

\* The launch goroutine of r makes the pod template (which may fail), adds the
\* job to the pod's name and creates the pod; when the call fails, because of
\* an error or because a pod of that name exists, it reports the failure.
CreatePod(r) ==
  /\ pc # "crashed"
  /\ creating[r] > 0
  /\ creating' = [creating EXCEPT ![r] = @ - 1]
  /\ \/ /\ PodCreated(r.name, r.goal)
        /\ UNCHANGED <<aborting, reported>>
     \/ /\ "create" \in Faults
        /\ reported' = reported \cup {r}
        /\ UNCHANGED <<aborting, pods, uids, podEvents>>
     \/ /\ "create" \in Faults \/ PodExists(<<r.name, JobID(r.goal)>>)
        /\ reported' = reported \cup {r}
        /\ aborting' = [aborting EXCEPT ![r] = @ + 1]
        /\ UNCHANGED <<pods, uids, podEvents>>
  /\ UNCHANGED <<kubeEvents, configMap, cmEvents, goalVars, status, podUID,
                 queueVars, chanVars, pc, ruleVars, policyVars, bulkVars,
                 apiSending, boundVars>>

\* Mutant: the deletion is deferred whether or not the creation failed.
AbortPod_Always(r) ==
  /\ pc # "crashed"
  /\ aborting' = [aborting EXCEPT ![r] = @ - 1]
  /\ TerminatePod(<<r.name, JobID(r.goal)>>, podEvents)
  /\ UNCHANGED <<uids, kubeEvents, configMap, cmEvents, goalVars, runtimeVars,
                 queueVars, chanVars, pc, ruleVars, policyVars, bulkVars,
                 creating, apiSending, boundVars>>

\* ... and deletes the pod of that name, whoever's it is.
AbortPod(r) ==
  /\ pc # "crashed"
  /\ aborting[r] > 0
  /\ aborting' = [aborting EXCEPT ![r] = @ - 1]
  /\ TerminatePod(<<r.name, JobID(r.goal)>>, podEvents)
  /\ UNCHANGED <<uids, kubeEvents, configMap, cmEvents, goalVars, runtimeVars,
                 queueVars, chanVars, pc, ruleVars, policyVars, bulkVars,
                 creating, apiSending, boundVars>>

-----------------------------------------------------------------------------
(* Events from the cluster.                                                *)

\* Mutant: the scheduled plugins are not looked up.
Manages_Unscheduled(r, p) == r \in loaded /\ r.name = p.name /\ r.goal = p.goal

\* The object a pod's labels lead to, when it is among the scheduled plugins:
\* looked up by name, goal and job, not by the pod's UID.
Manages(r, p) ==
  /\ r \in loaded
  /\ r.name = p.name /\ r.goal = p.goal
  /\ IsExist(scheduledPlugins, r)

\* Mutant: a modified pod is taken for a deleted one.
ReceivePodEvent_AnyChange(type) ==
  /\ pc = "select"
  /\ podEvents # <<>>
  /\ (type = "Added") = (Head(podEvents).type = "Added")

ReceivePodEvent(type) ==
  /\ pc = "select"
  /\ podEvents # <<>>
  /\ Head(podEvents).type = type

\* Pods without goal or job labels, of dropped goals, or not scheduled.
IgnorePodEvent ==
  /\ pc = "select"
  /\ podEvents # <<>>
  /\ ~ \E r \in loaded : Manages(r, Head(podEvents).pod)
  /\ podEvents' = Tail(podEvents)
  /\ UNCHANGED <<pods, uids, kubeEvents, configMap, cmEvents, goalVars,
                 runtimeVars, queueVars, chanVars, pc, ruleVars, policyVars,
                 bulkVars, launchVars, apiSending, boundVars>>

PodAdded(r) ==
  /\ ReceivePodEvent("Added")
  /\ LET p == Head(podEvents).pod
     IN  /\ Manages(r, p)
         /\ status' = [status EXCEPT ![r] = After(@, Scheduled)]
         /\ podUID' = IF Accepts(status[r], Scheduled)
                      THEN [podUID EXCEPT ![r] = p.uid] ELSE podUID
  /\ podEvents' = Tail(podEvents)
  /\ UNCHANGED <<pods, uids, kubeEvents, configMap, cmEvents, goalVars, reported,
                 queueVars, chanVars, pc, ruleVars, policyVars, bulkVars,
                 launchVars, apiSending, boundVars>>

\* Mutant: the case of a succeeded pod is missing.
EventsOfView_NoSucceeded(v) ==
  CASE v = "pending" -> {Initializing}
    [] v = "running" -> {Running}
    [] v = "failed"  -> {Failed}
    [] OTHER         -> {}

\* The event of the state machine a changed pod leads to; none when only the
\* plugin's container has exited.  A running pod that lists no status for that
\* container counts as failed.
EventsOfView(v) ==
  CASE v = "pending"   -> {Initializing}
    [] v = "running"   -> {Running} \cup
                          IF "nostatus" \in Faults THEN {Failed} ELSE {}
    [] v = "succeeded" -> {Completed}
    [] v = "failed"    -> {Failed}
    [] OTHER           -> {}

\* The event e, tried on the object r, publishes an outcome of its run.
Publishes(r, e) == e \in {Completed, Failed} /\ Accepts(status[r], e)

\* Mutant: a failure is not reported.
ReportedAfter_OnlySuccess(r, e) ==
  IF e = Completed /\ Publishes(r, e) THEN reported \cup {r} ELSE reported

\* reported after e was tried on r.
ReportedAfter(r, e) == IF Publishes(r, e) THEN reported \cup {r} ELSE reported

\* A refused event is logged.  An accepted Completed or Failed is reported and
\* the pod is deleted.
PodModified(r) ==
  /\ ReceivePodEvent("Modified")
  /\ LET p == Head(podEvents).pod
     IN  /\ Manages(r, p)
         /\ \/ /\ EventsOfView(p.view) = {}
               /\ podEvents' = Tail(podEvents)
               /\ UNCHANGED <<status, reported, pods>>
            \/ \E e \in EventsOfView(p.view) :
                 /\ status' = [status EXCEPT ![r] = After(@, e)]
                 /\ reported' = ReportedAfter(r, e)
                 /\ IF Publishes(r, e)
                    THEN TerminatePod(PodName(p), Tail(podEvents))
                    ELSE podEvents' = Tail(podEvents) /\ UNCHANGED pods
  /\ UNCHANGED <<uids, kubeEvents, configMap, cmEvents, goalVars, podUID,
                 queueVars, chanVars, pc, ruleVars, policyVars, bulkVars,
                 launchVars, apiSending, boundVars>>

\* A pod that is gone without an outcome counts as failed, where the state
\* machine accepts that.  The entry of the plugin's name leaves the scheduled
\* plugins, the object becomes inactive and scheduling is triggered.
PodDeleted(r) ==
  /\ ReceivePodEvent("Deleted")
  /\ Manages(r, Head(podEvents).pod)
  /\ reported' = ReportedAfter(r, Failed)
  /\ scheduledPlugins' = AfterPop(scheduledPlugins, r.name)
  /\ LET s == After(status[r], Failed)
     IN  /\ status' = [status EXCEPT ![r] = After(s, Inactive)]
         /\ pc' = IF Accepts(s, Inactive) THEN "sending" ELSE pc
  /\ podEvents' = Tail(podEvents)
  /\ UNCHANGED <<pods, uids, kubeEvents, configMap, cmEvents, goalVars, podUID,
                 readyQueue, readyIndex, chanVars, ruleVars, policyVars,
                 bulkVars, launchVars, apiSending, boundVars>>

\* A failure Event: the plugin whose pod had that UID fails, is reported as
\* failed whether or not its state machine agrees, and the pod is deleted, by
\* name.  Events of unknown UIDs are dropped.
ReceiveKubeEvent ==
  /\ pc = "select"
  /\ kubeEvents # <<>>
  /\ kubeEvents' = Tail(kubeEvents)
  /\ LET e == Head(kubeEvents)
     IN  \/ /\ ~ \E r \in loaded : podUID[r] = e.uid
            /\ UNCHANGED <<status, reported, pods, podEvents>>
         \/ \E r \in loaded :
              /\ podUID[r] = e.uid
              /\ status' = [status EXCEPT ![r] = After(@, Failed)]
              /\ reported' = reported \cup {r}
              /\ TerminatePod(e.podName, podEvents)
  /\ UNCHANGED <<uids, configMap, cmEvents, goalVars, podUID, queueVars,
                 chanVars, pc, ruleVars, policyVars, bulkVars, launchVars,
                 apiSending, boundVars>>

-----------------------------------------------------------------------------
(* The REST API of the node.                                               *)

\* POST of a plugin: an object outside the goal manager, inactive, is pushed to
\* the ready queue.  Push moves the iterator of the queue along, so a policy
\* that iterates it at that moment skips an entry.
APISchedule(n) ==
  /\ pc # "crashed"
  /\ generation[NoGoal] < MaxGen
  /\ n \in APINames
  /\ generation' = [generation EXCEPT ![NoGoal] = @ + 1]
  /\ readyQueue' = Push(readyQueue, [name |-> n, goal |-> NoGoal,
                                     gen |-> generation[NoGoal] + 1])
  /\ readyIndex' = IF pc = "selecting" THEN readyIndex + 1 ELSE readyIndex
  /\ apiSending' = apiSending + 1
  /\ UNCHANGED <<kubeVars, goals, loaded, runtimeVars, scheduledPlugins,
                 chanVars, pc, ruleVars, policyVars, bulkVars, launchVars,
                 boundVars>>

\* ... and then scheduling is triggered; the HTTP goroutine waits for room.
APITrigger ==
  /\ pc # "crashed"
  /\ apiSending > 0
  /\ apiSending' = apiSending - 1
  /\ SendNeedScheduling
  /\ UNCHANGED <<kubeVars, goalVars, runtimeVars, queueVars, fromCloud, pc,
                 ruleVars, policyVars, bulkVars, launchVars, boundVars>>

\* POST of a goal: into the goal manager only, no rules and no objects.  The
\* map is not locked: a loop of the main goroutine over the goals may visit the
\* new one or pass it by (and when the Go runtime notices it, the process dies:
\* Restart).
APIAddGoal(g) ==
  /\ pc # "crashed"
  /\ g \in APIGoals
  /\ updates < MaxUpdates
  /\ updates' = updates + 1
  /\ goals' = goals \cup {g}
  /\ \/ UNCHANGED <<evalGoals, keep>>
     \/ /\ pc = "rules" /\ g \notin goals
        /\ evalGoals' = evalGoals \cup {g}
        /\ UNCHANGED keep
     \/ /\ pc \in {"bulk", "cleaning"} /\ bulk = {} /\ g \notin goals
        /\ keep' = keep \cup {g}
        /\ UNCHANGED evalGoals
  /\ UNCHANGED <<kubeVars, generation, loaded, runtimeVars, queueVars, chanVars,
                 pc, evalGoal, policyVars, bulk, cleaning, launchVars,
                 apiSending, runs, restarts>>

-----------------------------------------------------------------------------
\* The process dies and is started again.  It forgets everything, deletes the
\* pods of the namespace before its informers start, ignoring errors, and finds
\* the pods left, in any order, and the config map through the first lists of
\* its informers.
Restart ==
  /\ restarts < MaxRestarts
  /\ restarts' = restarts + 1
  /\ \E left \in IF "terminate" \in Faults THEN SUBSET pods ELSE {{}} :
       /\ pods' = left
       /\ \E s \in SetToSeqs(left) :
            podEvents' = [i \in DOMAIN s |-> [type |-> "Added", pod |-> s[i]]]
  /\ kubeEvents' = <<>>
  /\ cmEvents' = configMap
  /\ goals' = {} /\ loaded' = {}
  /\ status' = [r \in Runtime |-> Inactive]
  /\ podUID' = [r \in Runtime |-> 0]
  /\ reported' = {}
  /\ readyQueue' = <<>> /\ readyIndex' = 0 /\ scheduledPlugins' = <<>>
  /\ needScheduling' = 0 /\ fromCloud' = <<>>
  /\ pc' = "select"
  /\ evalGoals' = {} /\ evalGoal' = NoGoal
  /\ gpuTaken' = FALSE /\ toRun' = <<>>
  /\ bulk' = {} /\ keep' = {} /\ cleaning' = NotCleaning
  /\ creating' = [r \in Runtime |-> 0]
  /\ aborting' = [r \in Runtime |-> 0]
  /\ apiSending' = 0
  /\ UNCHANGED <<uids, configMap, generation, runs, updates>>

Cluster ==
  /\ \E p \in pods : PodProgress(p) \/ PodDeletedByOthers(p) \/ PodWarning(p)
  /\ UNCHANGED <<goalVars, runtimeVars, queueVars, chanVars, pc, ruleVars,
                 policyVars, bulkVars, launchVars, apiSending, boundVars>>

HandlePodEvent ==
  \/ IgnorePodEvent
  \/ \E r \in loaded : PodAdded(r) \/ PodModified(r) \/ PodDeleted(r)

HandleGoals ==
  \/ \E g \in Goal : BulkGoal(g)
  \/ BulkRemove
  \/ \E n \in Name : CleanPlugin(n)
  \/ CleanDone

EvaluateRules ==
  \/ \E r \in Runtime : QueuePlugin(r)
  \/ RulesEvaluated
  \/ IdleTick

Schedule ==
  \/ StartScheduling
  \/ SelectNext
  \/ SelectDone
  \/ LaunchNext
  \/ LaunchDone

Launch == \E r \in Runtime : CreatePod(r) \/ AbortPod(r)

API ==
  \/ \E n \in APINames : APISchedule(n)
  \/ APITrigger
  \/ \E g \in APIGoals : APIAddGoal(g)

Next ==
  \/ \E G \in GoalLists : CloudSendsGoals(G)
  \/ ReceiveFromCloud
  \/ ReceiveConfigMap
  \/ HandleGoals
  \/ EvaluateRules
  \/ TriggerScheduling
  \/ Schedule
  \/ Launch
  \/ HandlePodEvent
  \/ ReceiveKubeEvent
  \/ API
  \/ Restart
  \/ Cluster

Spec == Init /\ [][Next]_vars

\* Fairness.  Go's select picks at random among its ready cases, so a case that
\* is ready again and again is taken; a handler that has begun goes on; launch
\* and HTTP goroutines run; the cluster makes progress with a pod it accepted.
Fairness ==
  /\ SF_vars(ReceiveFromCloud) /\ SF_vars(ReceiveConfigMap)
  /\ SF_vars(StartScheduling) /\ SF_vars(HandlePodEvent)
  /\ SF_vars(ReceiveKubeEvent)
  /\ WF_vars(HandleGoals)
  /\ WF_vars(RulesEvaluated) /\ WF_vars(TriggerScheduling)
  /\ WF_vars(SelectNext) /\ WF_vars(SelectDone)
  /\ WF_vars(LaunchNext) /\ WF_vars(LaunchDone)
  /\ WF_vars(Launch) /\ WF_vars(APITrigger)
  /\ WF_vars(\E p \in pods : PodProgress(p) /\
               UNCHANGED <<goalVars, runtimeVars, queueVars, chanVars, pc,
                           ruleVars, policyVars, bulkVars, launchVars,
                           apiSending, boundVars>>)

FairSpec == Spec /\ Fairness
=============================================================================
