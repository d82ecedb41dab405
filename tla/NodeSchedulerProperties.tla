---------------------- MODULE NodeSchedulerProperties ----------------------
(***************************************************************************)
(* What is checked and proved of NodeScheduler.                            *)
(***************************************************************************)
EXTENDS NodeScheduler

InReady(r)     == r \in ToSet(readyQueue)
InScheduled(r) == r \in ToSet(scheduledPlugins)

\* The hypotheses of most properties.  No two jobs of the node, and no job and
\* the REST API, use the same plugin name: the queues look entries up by name
\* only (queue.go, Pop).
UniqueNames ==
  /\ \A g, h \in Goal : JobOf[g] # JobOf[h] => PluginsOf[g] \cap PluginsOf[h] = {}
  /\ \A g \in Goal : PluginsOf[g] \cap APINames = {}

\* Goals come from the cloud only.  cleanUpGoal leaves the rules of a goal and
\* its unscheduled plugins behind, a queued one in the state Queued.  That is
\* harmless when the goal comes back through registerGoal, which replaces them.
\* A POST of the goal brings them back as they are, even beside another goal of
\* the same job, which has plugins of the same names.
NoPostedGoals == APIGoals = {}

-----------------------------------------------------------------------------
(* Invariants                                                              *)

\* A runtime object is at most once in the ready queue and the scheduled
\* plugins together, however rules, updates of the goals, late pod events and
\* restarts interleave: a plugin never runs twice for one trigger
\* (nodescheduler.go, the tick and LaunchNext's Pop and Push).
NoDuplicates ==
  /\ IsInjective(readyQueue)
  /\ IsInjective(scheduledPlugins)
  /\ ToSet(readyQueue) \cap ToSet(scheduledPlugins) = {}

\* The queues and the state machines agree: what is in a queue is loaded, its
\* goal is known, and its state is Queued in the ready queue and any state but
\* Inactive among the scheduled plugins.  Otherwise the tick would queue it a
\* second time, or nobody would manage its pod.
QueuesMatchStatus ==
  \A r \in Runtime : r.goal # NoGoal =>
    /\ InReady(r) => r \in loaded /\ r.goal \in goals /\ status[r] = Queued
    /\ InScheduled(r) => r \in loaded /\ r.goal \in goals /\ status[r] # Inactive

\* The node serves one goal of each job at most, although a list replaces a goal
\* in several steps (handleBulkGoals), with launches and pod events in between.
OneGoalPerJob == \A g, h \in goals : JobOf[g] = JobOf[h] => g = h

\* The queue discipline as an inductive invariant.  Beside the properties above:
\* one object is loaded for each plugin of a goal, and none for the REST API; a
\* submitted plugin has the number of its request; the rule evaluation is at
\* goals that the node serves; clean-up is at such a goal, will replace it by one
\* of the same job, and the plugins of it that are still queued are left to do.
QueueInvariant ==
  /\ NoDuplicates
  /\ QueuesMatchStatus
  /\ OneGoalPerJob
  /\ \A r \in loaded : r.goal \in Goal
  /\ \A r, s \in loaded : r.name = s.name /\ r.goal = s.goal => r = s
  /\ \A r \in Runtime : (InReady(r) \/ InScheduled(r)) /\ r.goal = NoGoal
                          => r.gen <= generation[NoGoal]
  /\ pc = "rules" => evalGoals \subseteq goals /\ evalGoal \in goals
  /\ pc = "cleaning" =>
       /\ cleaning.goal \in goals
       /\ cleaning.next # NoGoal => JobOf[cleaning.next] = JobOf[cleaning.goal]
       /\ \A r \in Runtime : (InReady(r) \/ InScheduled(r)) /\ r.goal = cleaning.goal
                               => r.name \in cleaning.names

\* No plugin of a goal the node serves is lost: one that is not inactive is in
\* a queue.  A rule never triggers a plugin that is not inactive, so a plugin
\* outside the queues would never run again (line 169 of nodescheduler.go).
\* The plugins of the goal that is being cleaned up are excepted.
ActivePluginHeld ==
  \A r \in loaded :
    (r.goal \in goals /\ r.goal # cleaning.goal /\ status[r] # Inactive)
      => InReady(r) \/ InScheduled(r)

\* ... as an inductive invariant: only loaded objects were ever active, loaded
\* objects come from a registration, so that a new one is inactive; and cleaning
\* names a goal only while it is cleaned up.
ActiveInvariant ==
  /\ ActivePluginHeld
  /\ \A r \in loaded : r.gen <= generation[r.goal]
  /\ \A r \in Runtime : r.gen > generation[r.goal] => status[r] = Inactive
  /\ pc # "cleaning" => cleaning = NotCleaning

\* At most one scheduled plugin holds the GPU (policy/gpuaware.go).
GPUExclusive ==
  Policy = "gpuaware" =>
    \A i, j \in DOMAIN scheduledPlugins :
      RequiresGPU(scheduledPlugins[i]) /\ RequiresGPU(scheduledPlugins[j])
        => i = j

\* The GPU as an inductive invariant.  What the policy has selected is launched
\* before anything else happens in the main goroutine, so the one GPU plugin may
\* be scheduled or selected but not both; while the policy iterates, gpuTaken
\* knows of it; and what is selected belongs to a goal the node still serves,
\* so that Pop, which looks for its name, finds a plugin that needs the GPU if
\* and only if it does.
UsesGPU(q) == \E i \in DOMAIN q : RequiresGPU(q[i])
OneUsesGPU(q) == \A i, j \in DOMAIN q : RequiresGPU(q[i]) /\ RequiresGPU(q[j]) => i = j

GPUInvariant ==
  /\ pc \notin {"selecting", "launching", "crashed"} => toRun = <<>>
  /\ \A i \in DOMAIN toRun : toRun[i].goal \in goals \cup {NoGoal}
  /\ Policy = "gpuaware" =>
       /\ OneUsesGPU(scheduledPlugins)
       /\ OneUsesGPU(toRun)
       /\ ~ (UsesGPU(scheduledPlugins) /\ UsesGPU(toRun))
       /\ pc = "selecting" /\ (UsesGPU(scheduledPlugins) \/ UsesGPU(toRun)) => gpuTaken

\* The order of launches as an inductive invariant.  Until the last selected
\* plugin is launched, the selected ones are entries of the ready queue, in its
\* order, and the entries before them that were passed over need the GPU, which
\* is held by a scheduled plugin or by a selected one further ahead; the
\* round-robin policy has taken its choice out of the queue.
HeldAhead(k) ==
  \/ UsesGPU(scheduledPlugins)
  \/ \E i \in DOMAIN toRun, l \in 1..(k - 1) :
       toRun[i] = readyQueue[l] /\ RequiresGPU(toRun[i])

OrderInvariant ==
  /\ pc = "selecting" => Policy # "roundrobin"
  /\ Policy # "roundrobin" /\ pc \in {"selecting", "launching"} =>
       /\ \A i \in DOMAIN toRun : \E k \in DOMAIN readyQueue :
            readyQueue[k] = toRun[i] /\ (pc = "selecting" => k <= readyIndex)
       /\ \A i, j \in DOMAIN toRun, k, l \in DOMAIN readyQueue :
            i < j /\ toRun[i] = readyQueue[k] /\ toRun[j] = readyQueue[l] => k < l
       /\ \A k \in DOMAIN readyQueue : (pc = "selecting" => k <= readyIndex) =>
            \/ \E i \in DOMAIN toRun : toRun[i] = readyQueue[k]
            \/ Policy = "gpuaware" /\ RequiresGPU(readyQueue[k]) /\ HeldAhead(k)
  /\ Policy # "roundrobin" /\ pc = "selecting" /\ gpuTaken =>
       Policy = "gpuaware" /\ (UsesGPU(scheduledPlugins) \/ UsesGPU(toRun))
  /\ Policy = "roundrobin" /\ pc = "launching" =>
       \A i \in DOMAIN toRun : ~ HasName(readyQueue, toRun[i].name)

\* What a policy selects is still queued when it is launched, although the policy
\* only lists it and the launch looks its name up later, after other launches:
\* Pop finds an entry, and no goroutine dereferences nil (nodescheduler.go:260).
\* The round-robin policy, which pops its choice itself, ends the process there.
SelectedIsFound == Policy # "roundrobin" => pc # "crashed"

\* ... as an inductive invariant: each selected plugin has an entry of its name in
\* the ready queue for itself, among those already visited, although requests of
\* the REST API push to that queue meanwhile, plugins of several jobs have the
\* same name, and a launch may take the entry another plugin was selected by.
SelectionInvariant ==
  /\ SelectedIsFound
  /\ pc \notin {"selecting", "launching", "crashed"} => toRun = <<>>
  /\ Policy # "roundrobin" /\ pc \in {"selecting", "launching"} =>
       \E at \in [DOMAIN toRun -> DOMAIN readyQueue] :
         /\ IsInjective(at)
         /\ \A i \in DOMAIN toRun :
              /\ readyQueue[at[i]].name = toRun[i].name
              /\ pc = "selecting" => at[i] <= readyIndex

\* At most one pod of the cluster uses the GPU, whatever the delay between the
\* policy's decision, the creation of the pod and the end of the old one.
AtMostOneGPUPod ==
  \A p, q \in {p \in pods : /\ p.view \notin {"succeeded", "failed"}
                            /\ <<p.name, p.goal>> \in GPUPlugins} : p = q

\* Every pod is managed: while it exists its plugin is among the scheduled
\* ones, so that the handlers do not ignore its events and it will be deleted.
\* It holds while the goals stay the same: a goal removed between the start of
\* a launch goroutine and its create call leaves a pod nobody manages.
IsScheduled(n, g) ==
  \E i \in DOMAIN scheduledPlugins :
    scheduledPlugins[i].name = n /\ scheduledPlugins[i].goal = g

PodsAreManaged == \A p \in pods : IsScheduled(p.name, p.goal)

\* The further hypotheses of the properties of pods.  The cloud sends one list
\* of goals, again and again; and a restarted process finds no pod, because it
\* has deleted them all.
FixedGoals  == \A G, H \in GoalLists : G = H
NoLeftovers == MaxRestarts = 0 \/ "terminate" \notin Faults

\* Pods as an inductive invariant.  The goals of the list are there or still to
\* come, and none is ever cleaned up.  For each plugin of a goal there is one
\* thing at most: a launch goroutine, a pod, or an unhandled event that its pod
\* is gone; and while there is, the plugin is scheduled.  The REST API's plugins
\* are scheduled once they were launched, for good.
Deletions(events, n, g) ==
  {i \in DOMAIN events : /\ events[i].type = "Deleted"
                         /\ events[i].pod.name = n /\ events[i].pod.goal = g}

HasPod(n, g) == \E p \in pods : p.name = n /\ p.goal = g

GoalsInvariant ==
  /\ pc # "cleaning"
  /\ ToSet(fromCloud) \cup ToSet(configMap) \cup ToSet(cmEvents) \subseteq GoalLists
  /\ goals \cup bulk \subseteq UNION GoalLists
  /\ pc = "bulk" => keep \in GoalLists
  /\ \A r \in loaded : r.goal \in goals

PodsInvariant ==
  /\ GoalsInvariant
  /\ PodsAreManaged
  /\ \A p, q \in pods : PodName(p) = PodName(q) => p = q
  /\ \A n \in Name, g \in Goal :
       /\ \A i, j \in Deletions(podEvents, n, g) : i = j
       /\ Deletions(podEvents, n, g) # {} => IsScheduled(n, g) /\ ~ HasPod(n, g)
  /\ \A r \in Runtime : creating[r] > 0 \/ aborting[r] > 0 =>
       /\ InScheduled(r)
       /\ r.goal # NoGoal =>
            /\ creating[r] + aborting[r] = 1
            /\ ~ HasPod(r.name, r.goal) /\ Deletions(podEvents, r.name, r.goal) = {}

\* UIDs and reports as inductive invariants.  A UID stands for one plugin and
\* goal, in pods, events, and the runtime objects that remember it.  When a pod
\* of a goal is gone the outcome of its plugin's run has been published.
Known == pods \cup {e.pod : e \in ToSet(podEvents)}

UIDInvariant ==
  /\ \A p \in Known : p.uid \in 1..uids
  /\ \A p, q \in Known : p.uid = q.uid => p.name = q.name /\ p.goal = q.goal
  /\ \A e \in ToSet(kubeEvents) :
       /\ e.uid \in 1..uids
       /\ \A p \in Known : p.uid = e.uid => PodName(p) = e.podName
       /\ \A r \in Runtime : podUID[r] = e.uid => e.podName = <<r.name, JobID(r.goal)>>
  /\ \A r \in Runtime :
       /\ podUID[r] <= uids
       /\ \A p \in Known : p.uid = podUID[r] => p.name = r.name /\ p.goal = r.goal

ReportInvariant ==
  /\ PodsInvariant
  /\ UIDInvariant
  /\ \A r \in loaded : Deletions(podEvents, r.name, r.goal) # {} => r \in reported

-----------------------------------------------------------------------------
(* Action properties                                                       *)

\* A plugin that becomes inactive has a published outcome of the run that ends
\* then, completed or failed: its user learns how the run went.
OutcomeReported ==
  [][\A r \in loaded \cap loaded' :
       status[r] # Inactive /\ status'[r] = Inactive => r \in reported']_vars

\* The scheduler implements the abstract PluginScheduling: it starts plugins
\* oldest first, but for those that wait for the GPU.
Scheduling ==
  INSTANCE PluginScheduling WITH
    Plugin  <- Runtime,
    GPU     <- {r \in Runtime : Policy = "gpuaware" /\ RequiresGPU(r)},
    waiting <- readyQueue,
    active  <- ToSet(scheduledPlugins)

LifecycleImplemented == Scheduling!Spec

-----------------------------------------------------------------------------
(* Liveness, under Fairness                                                *)

\* A triggered plugin finishes and can be triggered again: neither the GPU nor
\* its place among the scheduled plugins is held for ever.
RunFinishes ==
  \A r \in Runtime : (status[r] = Queued) ~> (status[r] = Inactive)

\* A plugin submitted through the REST API is launched, also when its push
\* made a running policy skip an entry of the queue.
APIPluginLaunched ==
  \A r \in Runtime : r.goal = NoGoal => (InReady(r) ~> InScheduled(r))

\* A queued plugin is dequeued, or its goal goes away.
QueuedIsDequeued ==
  \A r \in Runtime :
    (status[r] = Queued) ~> (status[r] # Queued \/ r.goal \notin goals)
=============================================================================
