# Verification of the edge scheduler

TLA+ modules, TLC configurations and TLAPS proofs about `edge-scheduler`: the
program that runs plugins (containers that analyse sensor data) on edge nodes
according to science goals, and the cloud service that sends the goals.

## Inventory

### The parts and how they interact

```
 users --REST--> cloud scheduler --goal stream (SSE)--> node scheduler --API calls--> Kubernetes
                      ^                                   |     ^                        |
                      +-------- messages (RabbitMQ) ------+     +------ informers -------+
```

| Part (source) | State | Operations | Modelled in |
|---|---|---|---|
| Plugin state machine (`datatype/plugin.go`) | state of each runtime object | seven events with their source states | `PluginRuntime` |
| Plugin queue (`datatype/queue.go`) | entries, a shared iterator | Push, Pop (by name), PopFirst, IsExist, ResetIter, More, Next | `PluginQueue`, `NodeScheduler` |
| Node scheduler (`nodescheduler/nodescheduler.go`) | ready queue, scheduled plugins, four channels, local state of the main goroutine and of a launch goroutine per pod | the select of `Run`: goals from the cloud, the rule tick, scheduling, pod / Event / config-map events | `NodeScheduler` |
| Node goal manager (`nodegoalmanager.go`) | ScienceGoals, LoadedPlugins | AddGoal, DropGoal, AddPluginRuntime, DropPluginRuntime, look-ups | `NodeScheduler` |
| Policies (`nodescheduler/policy`) | none | SelectBestPlugins: default, gpuaware, roundrobin | `NodeScheduler`, `PluginScheduling` |
| Node REST API (`nodescheduler/api_server.go`) | none | POST of a plugin, POST of goals | `NodeScheduler` |
| Resource manager and the cluster (`resourcemanager.go`) | pods, config map, three informers | CreatePod, TerminatePod, CreateConfigMap, CleanUp | `Kubernetes` |
| Node knowledge base (`knowledgebase.go`) | rules of each goal | AddRulesFromScienceGoal, DropRules, EvaluateGoal | `NodeScheduler` (a free choice) |
| Cloud scheduler (`cloudscheduler/cloudscheduler.go`, `cloudgoalmanager.go`) | job database, map of served goals, a channel to the main goroutine | create, edit, submit, dry run, suspend, remove, overwrite a job; node events; restart | `CloudScheduler`, `GoalAssignment` |
| Goal stream (`cloudscheduler/api_server.go`, `interfacing/http.go`) | one channel of capacity one per node, the lists on the connection, the reader's loop | subscribe, list, flush, push, deliver, break, reconnect | `GoalStream`, `CloudScheduler` |
| Job validator (`cloudscheduler/validator.go`, `cloudscheduler.go`, `datatype/manifest.go`) | manifests, whitelist and its file | validate a job, change and reload the whitelist, reload the manifests | `JobValidation` |
| Pod templates (`nodescheduler/resourcemanager.go`) | none | template, pod, job, deployment, daemon set of a plugin | `PodTemplate` |
| pluginctl (`pluginctl/pluginctl.go`, `cmd/pluginctl/cmd`) | the goroutines of an invocation | run, profile run, deploy, rm | `PluginCtl` |
| Authentication (`cloudscheduler/authenticate.go`) | a user's table of permissions | ask it | `JobValidation` (the table only) |
| Message publication (`interfacing/rmq.go`) | bounded channel of messages, a connection and a channel to RabbitMQ | hand over, publish, connect; receive | `MessagePublication`; `CloudScheduler` (receiving) |
| Rule checker, other command line tools, metrics | - | - | not modelled |

### What makes it hard

- **Names instead of identities.** Queues look entries up by plugin name, pod
  events are matched by name, goal and job, deletions are by pod name. A pod of
  an earlier run, or of an earlier version of the goal, meets the next one.
- **Interleaving.** The handlers of the main goroutine loop while launch
  goroutines create pods, HTTP goroutines push to the ready queue and write the
  goal map without a lock, and the cluster goes on.
- **Order.** Pods, failure Events and the config map are separate watches.
  Status updates are coalesced, late or repeated.
- **Partial failure.** Creations, deletions and config-map writes fail; most
  errors are logged and ignored.
- **Crash.** The node scheduler keeps nothing. It deletes the pods it finds and
  rebuilds its goals from the config map. The cloud scheduler rebuilds the goals
  it serves from a job database that a request changes in several transactions.
- **Read, then write.** A request to the cloud reads a job, validates it, drops its
  goal, writes the job back and serves the new goal in separate critical
  sections; the main goroutine handles its event later still.
- **Lossy hand-over.** A push to a node is lost when its channel is full. The
  stream then has to be current for another reason. Messages to RabbitMQ are lost at
  a full channel, at an error, and with a connection; those that arrive must still be
  in order.
- **Liveness.** Scheduling runs only when a message asks for it, and a GPU is
  freed only by a pod's Deleted event.

What correctness means for each part: a plugin is in at most one place at a
time and its state says which; the GPU has one holder, in the queue and in the
cluster; no plugin of a served goal is lost; every finished run is reported; a
triggered plugin finishes; the order of starts is that of the triggers. The cloud
serves only current goals, can always be started, keeps jobs their owners', and
each node ends with the goals that are served to it. A job is accepted exactly
when it is valid. pluginctl leaves no pod behind and deletes nobody else's.
Messages are received in order and once, and none is lost unreported. The
`hazards` of `PROJECT.json` list each of these at its line.

## Modules

- **`PluginRuntime`** The state machine: `Src`, `Accepts`, `After`. An event
  refused by looplab/fsm leaves the state alone; the handlers rely on that.
- **`PluginQueue`** The queue as operators on sequences. `Popped` and `AfterPop`
  are the two results of `Pop`, which compares names only.
- **`Kubernetes`** The cluster as the scheduler meets it: the set of pods, API
  calls that succeed or fail, and three FIFOs for the three informers. A pod is
  its name, its goal label, its UID and its `View`, what a watcher can tell of
  it. `Faults` chooses what may go wrong; its kinds are described in the module.
- **`NodeScheduler`** The scheduler. `pc` is the position of the main goroutine,
  `"select"` when it waits. A loop of a handler takes one step per iteration,
  because the other goroutines run between the iterations:

  | `pc` | code | actions |
  |---|---|---|
  | `select` | `select` of `Run` | `ReceiveFromCloud`, `ReceiveConfigMap`, `QueuePlugin`, `IdleTick`, `StartScheduling`, `HandlePodEvent`, `ReceiveKubeEvent` |
  | `rules` | the tick's loop over goals and rules | `QueuePlugin`, `RulesEvaluated` |
  | `sending` | send to `chanNeedScheduling`, lines 233 and 576 | `TriggerScheduling` |
  | `selecting` | the policy's iteration | `SelectNext`, `SelectDone` |
  | `launching` | the loop over `pluginsToRun` | `LaunchNext`, `LaunchDone` |
  | `bulk`, `cleaning` | `handleBulkGoals`, `cleanUpGoal` | `BulkGoal`, `BulkRemove`, `CleanPlugin`, `CleanDone` |

  Beside it run the launch goroutines (`CreatePod`, `AbortPod`), the HTTP
  goroutines (`APISchedule`, `APITrigger`, `APIAddGoal`), the cloud
  (`CloudSendsGoals`), the cluster (`Cluster`) and `Restart`. A runtime object
  is identified by its plugin, its goal and which registration of the goal made
  it (`gen`), since registering a goal again makes new objects for the same
  index.
- **`PluginScheduling`** The abstract specification: a line of waiting plugins
  and a set of active ones. It promises that nobody is overtaken, except a
  plugin that waits for the GPU, by those that do not need it.
- **`NodeSchedulerProperties`** The properties, their hypotheses, and the
  refinement mapping from `NodeScheduler` to `PluginScheduling`.
- **`MCNodeScheduler`** and the `.cfg` files: small instances.
- **`NodeSchedulerProofs`**, **`NodePolicyProofs`**, **`NodePodProofs`**: the lemmas on
  queues, type correctness and the queue discipline; what is selected, the GPU, the
  order of launches and the refinement of `PluginScheduling`; pods, UIDs and
  reports. Each extends the one before.
- **`GoalStream`** How a node learns its goals. `handler` is the HTTP handler in
  the cloud (`subscribed`, `listed`, `streaming`), `pushed` its channel, `wire` what
  is on the connection, `client` the loop of `Subscribe` on the node. A pushed value
  is a pointer that the handler asserts to be a value: each push ends the
  connection, and what keeps a node current is the list that it is sent
  when it comes back.
- **`CloudScheduler`** Extends `GoalStream`. A request of a user is an HTTP goroutine
  that goes through the critical sections of its handler, each an action:

  | `request[r].at` | code | actions |
  |---|---|---|
  | `idle` | the handler up to its first change | `CreateJob`, `SubmitNew`, `SubmitExisting`, `EditJob`, `SuspendJob`, `RemoveJob`, `SetRecord` |
  | `drop` | `RemoveScienceGoal` of the goal the record had | `DropOldGoal` |
  | `store` | `UpdateJob`, the put of the whole record | `StoreJob` |
  | `serve` | `UpdateScienceGoal` | `ServeGoal` |
  | `notify` | `Notify`, which blocks while the channel is full | `Notify` |

  The main goroutine handles events (`HandleRemoved`, `HandleSuspended`,
  `HandleSubmitted`) and pushes to one node after the other (`UpdateNode`). `Restart`
  loads the goals of active jobs. `NodeEvent` is a message of a node, on which
  the main goroutine panics (see below).
- **`GoalAssignment`** The abstract specification of the cloud: a job has one current
  goal, only that goal is ever served, and it is given up before the next one
  takes its place.
- **`JobValidation`** `ValidateJobAndCreateScienceGoal`, one step for each node and
  each plugin on it, beside HTTP goroutines of administrators, which nothing keeps
  apart: they change the whitelist, which each writes to its file line by line through a
  descriptor of its own, or reload the whitelist or the manifests, which empties and
  fills the maps that are being read and written. `Entered` and `RemovePluginWhitelist`
  say what a goroutine that ranges over the map may see of a change. `Restart` reads the
  file again, at any point. `alone` is a history: whether the last request for the
  whitelist began while no other was under way. `JobValidationProperties` has the reference: `Valid`, a definition of valid
  jobs that knows no order of checks.
- **`PodTemplate`** The template of a plugin and the objects around it, as
  functions of a specification.
- **`PluginCtl`** Extends `PodTemplate`. Invocations of pluginctl on one node, with
  plugins of one name: the arguments, the API calls of a deployment (get, update,
  delete, create), the status loop, the watch goroutine, whose watch the API server may
  close (`WatchCloses`), the log reader, signals and the deferred termination. `taken` is
  a history: the invocations whose pod another one has deleted.
- **`MessagePublication`** How the node scheduler publishes its events. A sender is a
  goroutine in `SendWaggleMessageOnNodeAsync`: `Call` is the comparison of the length,
  `Send` the send, which waits if others have filled the channel in between. The loop of
  `StartLoop` takes a message out (`Receive`), looks at the connection and perhaps makes one
  (`Connect`), and writes the message (`Publish`); each of them may fail (`Failed`). The
  broker reads (`Arrive`), connections and channels close (`Break`), the process dies
  (`Restart`). `lost` is a history: messages whose loss somebody was told of or that
  were dropped with a connection or the process.
- **`CloudSchedulerProperties`**, **`PluginCtlProperties`**,
  **`MessagePublicationProperties`**, **`MCCloudScheduler`**, **`MCJobValidation`**,
  **`MCPluginCtl`**, **`MCMessagePublication`**: properties, and small instances.
- **`CloudSchedulerProofs`**, **`CloudGoalProofs`**: types, owners and what is
  served; the refinement of `GoalAssignment`, and why streams are current.
- **`JobValidationProofs`**: the whitelist's file, what an accepted job is, and
  that a valid one is accepted.
- **`PluginCtlProofs`**: types, templates, and whose pod is deleted by whom.
- **`MessagePublicationProofs`**: types, order, losses and waiting senders.

### Abstractions

- Which rules are valid at a tick is a free choice, and so is whether the node
  has resources left; a plugin is queued at most `MaxRuns` times in all.
- A science goal is its identifier, its job and the plugins of this node's
  sub-goal. A goal identifier has one content, as in the cloud scheduler, where
  a job that is submitted again gets a new one.
- Publish and set actions of rules touch no state of the scheduler and are
  left out. In `NodeScheduler` an outcome counts as reported when it is handed to the
  publisher; `MessagePublication` says what becomes of it.
- A pod is deleted with grace period zero and is gone when the call returns.
- A failure Event concerns a pod that is starting and is not reported again
  after a restart.
- The goal map is written without a lock (`APIAddGoal`). Its outcomes are that a
  running loop visits the new goal or does not, and that the Go runtime ends the
  process, which is `Restart`.

- A cloud request that fails to authenticate, to validate or to read its job
  changes nothing and is left out of `CloudScheduler`; `JobValidation` is about
  validation. The body of a request to create or edit a job carries no goal, as sent by
  the clients of the repository. A goal is its number, its job and the job's nodes. Each
  node has one stream at a time.
- What fits the scanner of the node's stream is a number of goals,
  `ScannerLimit`, not of bytes. Clean ends of a stream (`eof`), which a proxy may
  cause, and broken connections (`drop`) are the faults of a stream.
- The VSN of a node, a tag, a name and an image are model values with the
  attributes that the validator reads. Lines of the whitelist's file are equally
  long, so that a line written over an old one replaces it exactly. Lines of different
  lengths may leave the rest of an old one, which a restart reads as a pattern that
  nobody listed; the model does not show it. The file fits the buffer of the scanner
  that reads it.
- A message is its sender and its number. What was written to a connection that
  breaks, or to a channel that is closed, and was not read by then is lost; the AMQP
  library and the broker are external. The senders go on after a restart, as the
  goroutines of the next process.
- The pod of pluginctl has a phase and may be in its grace period. Its variables
  are those of the system and of the user, in the order of the container.

### Hypotheses

Each is a named definition or a condition on a constant, and each is there
because the property fails without it, in a way that the code admits.

- `UniqueNames`: jobs of a node, and its REST API, use different plugin names.
  Without it the queue discipline fails (`node_shared_names`).
- `NoPostedGoals`: goals come from the cloud only. `cleanUpGoal` leaves rules
  and unscheduled objects behind. They are harmless when the goal comes back
  through `registerGoal`, which replaces them, and harmful when a POST brings
  them back: `QueuesMatchStatus` and `ActivePluginHeld` then fail. No text says
  what a posted goal should do, so this is a hazard in `PROJECT.json` and not a
  finding. Rules whose `DropRules(goal.Name)` misses them (line 683 of
  `nodescheduler.go`; they are kept by identifier) are reached only through the
  goals the manager knows, so without posted goals they change nothing.
- `Policy # "roundrobin"` (`ActivePluginHeld`, `SelectedIsFound`): that policy pops
  its choice, which its caller pops again; the process ends before the plugin is
  in a queue again.
- `APINames = {}` (`OrderInvariant`, the refinement of `PluginScheduling`): a push
  by an HTTP goroutine moves the iterator of the queue along while the policy
  uses it, and an entry is skipped that then is overtaken. The other theorems
  about the node hold with submitted plugins.
- `FixedGoals` (everything about pods): the cloud sends one list of goals, any number
  of times. A goal removed between the start of a launch goroutine and its
  create call leaves a pod nobody manages (`nodescheduler.go:280`).
- `NoLeftovers` (the same): the node is not restarted, or deletions of pods do not
  fail. `CleanUp` logs a failed deletion and goes on, and the pod that stays is nobody's.
- `"delete"` not in `Faults` (`OutcomeReported`): nobody else deletes pods. A pod
  deleted while its plugin is Scheduled ends its run without a published outcome.

- `Sequential`: `ServedIsCurrent` and the refinement of `GoalAssignment` speak of one
  cloud request at a time, whose event may still be under way when the next
  request comes. Two submissions of one job at the same time may both be served.
  The types, the owners and `SchedulerStarts` need no such hypothesis.
- `InactiveRecords` (`SchedulerStarts`, and what builds on it): administrators who
  overwrite a record write no active state. One who does may make a job without a goal
  active, and the scheduler then panics at its next start.
- `NoRewrites` (`StreamIsCurrent`): users neither edit nor dry-run. Both drop a served
  goal and push nothing (`api_server.go:259`), and leave nodes with a goal too many.
  That no node lacks a goal (`ServedIsSent`) needs no hypothesis.
- `"get"` not in `Faults` (`RunCleansUp`): the error of a failed request for the pod is
  shadowed, the nil watcher makes a goroutine panic, and the deferred deletion of
  the main one does not run (`resourcemanager.go:548`).
- `alone` (`WhitelistIsSaved`): the last request for the whitelist did not overlap with
  one before it. `WritePluginWhitelist` (`validator.go:216`) takes no lock and does not
  truncate; of two requests that overlap each writes its lines from the start of the
  file, in its own order, and a pattern may end on no line. The next request that runs
  by itself repairs the file, and the property says so.
- `taken` (`DeletesOwnPod`): an invocation whose pod another one has deleted may, at its
  deferred termination, delete whatever pod has that name by then (`run.go:82`). Until
  then it deletes its own only, unless it is `rm` or a forced update.
- `watcher = "closed"` with `log = "spinning"` (`WatchedRunEnds`): the loop over the
  events of a watch ends silently when the API server closes it (`run.go:93`,
  `profile.go:109`); if the log reader spins as well, nothing tells the run that its
  plugin is over.

## What the runs check

### The node scheduler

Every `node_` run is an instance of `MCNodeScheduler`: job `j1` with the goal versions
`g1`, `g2` and plugin `a`; job `j2` with the goal `g3` and plugin `b`; `c` is
submitted through the REST API.

| Run | Checks | Bounds and faults |
|---|---|---|
| `node_goals` | `TypeOK`, `NoDuplicates`, `QueuesMatchStatus`, `ActivePluginHeld` | three lists out of {g1}, {g2}, {} in any order, two triggers, one restart; failing creations, deletions and config-map writes, pods deleted by others |
| `node_gpu` | `GPUExclusive`, `OrderInvariant`, `AtMostOneGPUPod`, `PodsAreManaged`, `OutcomeReported`, `LifecycleImplemented` | `gpuaware`, both plugins need the GPU, three triggers; failing creations and deletions, missing running phase, missing container status, failure Events |
| `node_live` | `RunFinishes` | `gpuaware`, two triggers; pods deleted by others, failure Events |
| `node_api` | `SelectedIsFound`, `APIPluginLaunched` | up to three plugins of one name submitted, a posted goal |
| `node_shared_names` | violates `AtMostOneGPUPod` | both jobs use the name `a` |
| `node_gpu_wait` | violates `QueuedIsDequeued` | `gpuaware`; the goal of the GPU holder is removed |

**Why the bounds are enough.** `MaxGen` is at least the number of lists and
restarts, so it never stops a registration. Three lists give every history of
adding, replacing and removing a goal and bringing it back. Two triggers let an
object run, end and run again while events of its first pod are under way;
three put two plugins in line behind a GPU holder. In
`node_api` the ready queue and `pluginsToRun` hold up to three entries, two or three of them of
one name, while HTTP goroutines push more: a launch looks its name up after others have
been served. `MaxBacklog` is 1: a second
list that waits only delays what a later send does. `ChannelCap` is
not reached, so nothing blocks on a full `chanNeedScheduling`; with a smaller
capacity TLC finds the main goroutine blocked in its own send (a hazard in
`PROJECT.json`). Deadlock is checked in these runs; since the tick is always
possible at `select`, a deadlock is exactly a main goroutine that is stuck or
crashed. `node_goals` declares `g1` and `g2` symmetric: they have the same job
and plugins, and the set of lists is closed under their exchange. It checks no
liveness property.

The names that end in `Invariant` are the inductive invariants of the proofs, which
establish them for every instance. Of these the runs list `OrderInvariant` alone, which
says on its own what the policies promise.

**Fairness** (`Fairness` in `NodeScheduler`). Go's `select` picks at random
among its ready cases, so a case ready again and again is taken: strong fairness
for each receive. A handler that began, and a launch or HTTP goroutine,
is run by the Go scheduler: weak fairness. The cluster makes progress with the
pods it accepted: weak fairness of `PodProgress` alone. Nothing is assumed of
faults, of the cloud, of restarts, or of rules becoming valid.

**Where a property needs a restriction.** `PodsAreManaged` and
`OutcomeReported` are checked while the goals stay the same: a goal removed
between the start of a launch goroutine and its create call leaves a pod nobody
manages. `RunFinishes` is checked without the faults `create`,
`terminate`, `skip` and `nostatus`: a plugin whose pod cannot be created stays
scheduled for ever, as the TODO in line 263 admits. These are hazards in
`PROJECT.json`, each at its line.

### The cloud scheduler and the streams

| Run | Checks | Bounds and faults |
|---|---|---|
| `cloud_jobs` | `TypeOK`, `ServedIsCurrent`, `OwnerKept`, `AssignmentImplemented` | two users, one of whom may override, two jobs, three goals, every request of users, one at a time, one restart; no streams |
| `cloud_live` | `StreamIsCurrent`, `NodeCatchesUp`, `JobWithdrawn`, `SubmittedReachesNodes` | one node, one job, three goals; submission, resubmission and removal, one restart, two broken connections |
| `cloud_concurrent` | `SchedulerStarts`, `ServedIsSent` | two HTTP goroutines whose steps interleave, one node, one job, two goals; submission, dry run, edit, suspension, removal and a record written by an administrator, one restart, an event of the node that kills the scheduler, a connection that ends, a list too long for the scanner, a channel for one event |

Three goals let a job be submitted, submitted again and tried, edited or removed
while the events of the first two are in the channel; two jobs make an event of one
meet the goal of the other. `ChannelCap` is at most 2, so that the channel is full
and a request blocks in `Notify`. One restart is enough: it forgets
everything but the database, and what it finds there is a state that other
bounds reach. A liveness instance with two nodes, two goals and the
selections {n1} and {n1, n2} passes as well.

Deadlock is checked in `cloud_jobs` and `cloud_live`. In `cloud_concurrent` an event of a
node ends the process, after which nothing happens once the bounded number of restarts is
used up, hence `CHECK_DEADLOCK FALSE`. `SchedulerStarts` is checked there because the
requests of `cloud_jobs` never overlap: what could leave an active job without a goal is
a record that one request has read and writes back over that of another. That run
declares the two HTTP goroutines symmetric and checks no liveness property.

**Fairness.** Handlers of requests that began, the main goroutine and the
goroutines and loops of a stream are run by the Go scheduler: weak fairness of
each. A full channel queues its senders and each receive lets one of them in:
strong fairness of `Notify`. Nothing is assumed of users, faults, node events and
restarts.

**Restrictions.** `StreamIsCurrent` is checked without edits and dry runs, which drop
a served goal and push nothing (`api_server.go:259`), and in `cloud_live` with one request
at a time; the theorem is about any number. `SubmittedReachesNodes` is
checked with removals and not with suspensions, whose late event drops the goal
of a job that was submitted again (`cloudscheduler.go:344`). The liveness run has no
clean end of a stream, after which the reader spins (`http.go:146`).

### Validation

`job_validation` checks `TypeOK`, `AcceptedIsSound`, `ValidIsAccepted`,
`KnownNamesUnique` and `WhitelistIsSaved` for all jobs of up to two plugins out of four
images (known for one or two architectures, whitelisted, unknown) with good,
equal and too long names, four selections by node, three by tag, three
users' permission tables, and jobs that differ in their rules and notifications.
One image's requests to the code repository may fail. Two administrators make requests
of any kind, or the process dies, twice during a validation; a third time only while
nothing is validated (`ThirdAlone`), which is what the file needs: two requests that
overlap and lose a line, and a third that repairs it. The administrators are symmetric,
and the run checks invariants only. Two nodes suffice: the checks of a
node depend on no other node, except that errors and the goal are collected.

### pluginctl

`plugin_ctl` checks `TypeOK`, `RunCleansUp`, `TemplateSound`, `DeletesOwnPod` and
`WatchedRunEnds` with two invocations of any command and nine deployments: a plain
pod, a forced one, one with every option and with variables of a file that
repeat one of the system's, the other kinds of objects, and four that are refused
by pluginctl or by the cluster. Users interrupt, logs fail to open, deletions
fail and watches close. `RunCleansUp` is checked without failing requests for the pod, after which a nil
watcher makes the process panic. `CHECK_DEADLOCK FALSE`: invocations end.

**Fairness.** The goroutines of an invocation go on (weak fairness of each). Nothing
is assumed of users, of the cluster, or of the plugin, which may run for ever;
`WatchedRunEnds` speaks of behaviours in which pods finish or disappear, and of runs that
watch in time.

### Message publication

`publication` checks `TypeOK`, `ReceivedInOrder`, `NothingVanishes`, `SomeSenderFree`,
`SendReturns` and `CachedIsPublished` with two senders of three messages, a channel for
one, two faults of any kind and one death of the process. Both senders may pass the
comparison at an empty channel, and one then waits; three messages of each meet in any
two stages. Two faults make a connection fail, come back without a channel, and be
used. Senders make `MaxCalls` calls and then stop, hence `CHECK_DEADLOCK FALSE`.

`CachedIsPublished` leaves out the states that the last fault has left with an unusable
channel (`Unusable`): the broker has closed it on a healthy connection, or `Connect` kept
a connection on which it could not open one. `publish` looks at the connection only
(`rmq.go:146`), and every later message fails or ends the process; TLC finds the property
violated without that condition.

**Fairness.** Go queues the senders that wait at a channel and each receive lets one of
them in: strong fairness of each `Send`. The loop is run by the Go scheduler and the
broker reads what is written: weak fairness of each of their steps. Nothing is assumed of
calls, faults and deaths. `CachedIsPublished` speaks of behaviours in which they
come to an end, as the bounds make them.

### Findings

1. `Pop` takes the oldest entry of a name, whatever its job (`queue.go:77`), while
   `nodescheduler.go:276` expects equal names in different jobs. Two GPU plugins
   run at once (`node_shared_names`).
2. Removing the goal of the GPU holder triggers no scheduling: the next GPU
   plugin waits for an unrelated event (`node_gpu_wait`).

What the models also show and no run of its own repeats, against a text of the repository:

- A pod deleted by somebody else while its plugin is Scheduled ends its run without the
  failure that `nodescheduler.go:544` announces: `Failed` is accepted only from
  Initializing and Running (`plugin.go:175`). With the fault `delete`
  TLC finds `OutcomeReported` violated.
- After the broker has closed the AMQP channel of a healthy connection every later
  message fails (`rmq.go:146`), while `rmq.go:181` says that cached messages will be
  pushed: `CachedIsPublished` without `Unusable`.

And against none:

- The round-robin policy pops its choice, which its caller pops again: nil is
  pushed and dereferenced (`policy/roundrobin.go:21`).
- Node scheduler: a POST of a goal brings old rules and objects back; a plugin
  submitted through the API never leaves the scheduled plugins; the main goroutine
  blocks when `chanNeedScheduling` is full.
- Cloud: a dry run drops the goal that is served and stores one that is not,
  which a restart then serves (`cloudscheduler.go:232`); a late suspension drops the goal of
  a job submitted again (`:344`); of two submissions at the same time both goals may
  be served; pushes and node events are sent as pointers and asserted as values
  (`:254`, `:288`), which ends each stream and kills the main goroutine.
- Publication: a connection on which no channel could be opened is kept
  (`rmq.go:86`); the next message is a nil dereference that ends the process, or goes to
  the closed channel of an earlier connection.
- Streams: after a clean end of the response the reader spins (`http.go:146`).
- Validation: while the manifests are reloaded a tag selects too few nodes, in
  silence; a whitelisted plugin's name is not compared with the others'; a job
  without a map of nodes panics when it has tags. Of two overlapping requests for the
  whitelist one may lose its line (without `alone` TLC finds it in eight states); a
  pattern that was removed may stay on a line and come back with a restart or a reload.
- pluginctl: a watch that is opened after the plugin finished, or a log that ends
  without its last bytes, lets `run` hang, and so does a watch that the API server closes when the log reader
  spins; `profile run` waits for the running phase
  only; a nil watcher panics and leaves the pod; a forced update creates its pod
  before the old one is gone; `--env-from` is read twice and up to its first
  blank line; the limit `resource.cpu` of the help is unknown to Kubernetes; without
  `--name` the container has no name and is refused.

## What is proved

TLAPS checks, for all values of the constants that satisfy the named
assumptions (`KubernetesAssumption`, `NodeAssumption`, `StreamAssumption`,
`CloudAssumption`, `ValidationAssumption`, `PluginCtlAssumption`, `NoneAssumption`,
`PublicationAssumption`),
every invariant, action property and refinement that a passing run checks. The
hypotheses are those above. A property that is not inductive is proved from an
invariant that is; the next invariant often uses the one before, as a hypothesis of
its step.

### The node scheduler

- **`TypeCorrect`** (`NodeSchedulerProofs`): `Spec => []TypeOK`. `TypeOK` is inductive, so no
  strengthening is needed; there is one lemma for each action. The parts that
  are not obvious are that `Pop` leaves a sequence of runtime objects and
  returns one, that every step of a handler is taken on an object that exists
  (its registration is counted by `generation`, bounded by `MaxGen`), that
  `chanNeedScheduling` never holds more than its capacity, and that the pods left at a
  restart can be listed, which needs `pods` to be finite. The module begins with what
  `Push` and `Pop` do to a queue of any length (`RemoveAtProperties`,
  `FirstNamedProperties`, `AfterPopProperties`, `PushProperties`).

Under `UniqueNames` and `NoPostedGoals`, for all policies, faults and bounds:

- **`NoDuplicatesHolds`**, **`QueuesMatchStatusHolds`** (`NodeSchedulerProofs`), from
  `QueueInvariant`. It adds one goal of each job (`OneGoalPerJob`), and one
  loaded object for each plugin of a goal, so that the name `Pop` looks for
  determines the entry it takes (`NameDetermines`); submitted
  plugins are numbered, so that a new one is not in the queue yet; the rule
  evaluation visits goals that are served; and a clean-up under way accounts for
  what is still queued of its goal, so that at its end nothing is. Most actions
  are instances of `QueueFrame` (nothing enters or leaves a queue) or
  `QueueShrinks` (entries only leave).
- **`ActiveInvariantHolds`** (`NodeSchedulerProofs`) and from it **`ActivePluginHeldHolds`**, for the
  default and the GPU-aware policy. An object that is not registered yet is inactive, or a
  goal that comes back would begin with an active plugin outside the queues.
- **`GPUExclusiveHolds`** (`NodePolicyProofs`), from `GPUInvariant`: the scheduled
  plugins and `pluginsToRun` together hold one user of the GPU at most, and
  while the policy iterates, `gpuTaken` knows of it. A launch moves the entry of
  a name, so the proof also needs that the name tells whether the GPU is needed
  (`NameGivesGoal`).

Without any hypothesis (`NodePolicyProofs`):

- **`SelectionInvariantHolds`**: the policies only list what they select, and a launch looks
  the name up again, after other launches have taken entries away. The invariant assigns
  to each selected plugin an entry of the ready queue with its name, to different plugins
  different entries. `SelectNext` assigns the entry it visits, which lies behind
  those assigned before (`SelectionNext`). A launch takes the oldest entry of the name,
  which may be assigned to another plugin of that name; that one takes over the entry
  of the launched plugin (`SelectionLaunch`). A push by an HTTP goroutine moves the iterator
  along, so the assigned entries stay behind it (`SelectionPush`). This holds for equal names
  in several jobs and with posted goals, where the queue discipline fails.
- **`SelectedIsFoundHolds`** follows: `Pop` never returns nil to `Run`.

Without submitted plugins (`NodePolicyProofs`):

- **`OrderInvariantHolds`**: the selected plugins are entries of the ready queue, in its
  order, and each entry that was passed over needs the GPU, which is held by a
  scheduled plugin or by a selected one further ahead (`HeldAhead`). The last part
  has to follow the holder through the launches: it is selected, then scheduled.
- **`LifecycleHolds`**: the scheduler implements `PluginScheduling`, for all policies.
  Each concrete action that moves an entry has a lemma:
  `QueuePlugin` is `Enqueue`, a clean-up `Withdraw` or `Release`, `LaunchNext` a `Start`
  (allowed by `OrderInvariant`; the round-robin policy's choice is a `Withdraw`), a
  Deleted event a `Release`, `Restart` a `Reset`; the rest stutters.

While the list of goals stays the same (`NodePodProofs`):

- **`PodsAreManagedHolds`** and **`AtMostOneGPUPodHolds`**, from `PodsInvariant`: for each
  plugin of a goal there is at most one of a launch goroutine, a pod, and an unhandled
  Deleted event, and while there is, the plugin is scheduled. A plugin leaves the scheduled
  ones only when a Deleted event is handled; it was then the only one, so nothing
  of the run is left. The GPU's pods then have the holders of `GPUExclusive`.
- **`UIDInvariantHolds`** (without hypotheses): a UID stands for one plugin and goal, in
  pods, in events, and in the objects that remember it. A failure Event therefore
  never deletes another plugin's pod, although it deletes by name.
- **`OutcomeReportedHolds`**, from `ReportInvariant`: if nobody else deletes pods, the
  outcome is published before the Deleted event can be handled.

### The cloud scheduler

Three inductive invariants, each a strengthening of the one before
(`CloudSchedulerProofs`):

- `RequestInv` is `TypeOK` and, for each request (`Prepared`), that the record it
  holds has the owner that the job has in the database, and a goal for that job
  unless it edits. It gives **`TypeCorrect`** and **`OwnerKeptHolds`** for any number of
  requests at a time: no step changes an owner, so a stale record still has the
  right one.
- `StartInv` adds that the goal of an active job is a goal for that job
  (`ActiveHaveGoals`). A job becomes active only when a request puts a record,
  whose goal `Prepared` knows. It gives **`SchedulerStartsHolds`**, for any number
  of requests, under `InactiveRecords`.
- `ServeInv` adds `ServedIsCurrent` and the hold that a single request has on its job
  (`Exclusive`): until it drops the old goal, that is the job's goal; then no
  goal of the job is served, so that the goal may be replaced; and what it is about to
  serve is the job's goal. It gives **`ServedIsCurrentHolds`** (`Sequential`,
  `InactiveRecords`).

**`AssignmentHolds`** (`CloudGoalProofs`): under the hypotheses of `ServeInv` the
cloud scheduler implements `GoalAssignment`. `Current` and `Served` are the mapping;
`Distinct` and `Fresh` add that no two jobs have one goal, without which putting a
record could revise a job while a goal of that number is served. `StoreJob` and
`SubmitNew` are `Revise`, `ServeGoal` is `Serve`, `DropOldGoal` and the handlers of the main
goroutine are `Withdraw`, a start is `Reload`, everything else stutters.

**`StreamIsCurrentHolds`** (`CloudGoalProofs`), for any number of requests at a time,
whatever records administrators write, under `NoRewrites`. `NumberInvariant`: goals of one number, wherever they are held, are
for the same nodes. `NodesInvariant`: the goals of a job, the old one and the next, are for
the nodes of the job, so whoever drops the old one has those nodes notified. `PushInvariant`: a stream that has been sent other goals than its node
is to serve has a push in its channel, or one is still to come (`Awaited`): from the main
goroutine, from a request that has not notified yet, or from an event in the
channel. The core is `Watchful`: a step that changes what a node is to
serve, or that pushes to others, leaves somebody who is going to push to it. When nothing is under way
nobody is awaited, and an empty channel means that the list is current.

**`ServedIsSentHolds`** (`CloudGoalProofs`), for all requests in any number, without
hypotheses: no open stream lacks a goal that is served. `SentInvariant` follows a goal from
the moment it is served: the request that serves it announces it next, the main
goroutine then pushes to all its nodes (`Moves`), and a push lost at a full
channel leaves there another one, which ends the stream, so that the node is sent a new
list. It speaks only of goals
that are served, so an edit or a dry run, which takes one away without an
announcement, does not disturb it.

### The job validator

For all jobs, permission tables, manifests, patterns and any number of
administrators' requests that interleave with a validation
(`JobValidationProofs`):

- `AdminInv` says how far the requests of the administrators are. While the last one
  runs by itself (`Saved`), there is one at most; while it writes, the
  patterns that are not left are on the lines before the current one
  (`Written`), so a line that replaces one of the old file loses nothing; while it
  reads, memory holds lines of the file only. Requests that overlap may do anything to
  the file; one that begins when they are over starts from the map alone. It gives
  **`WhitelistIsSavedHolds`**, for any number of overlapping administrators and restarts.
- `VerdictInv` adds, as long as a validation has no error (`Sound`), that the nodes
  with a goal, the current node and those that are left are the selected ones
  (`Covered`; all of them unless the manifests were reloaded), that every goal has
  all plugins, which may run (`GoalOK`), and that the plugins of the current node
  are approved up to the next one, in order (`ApprovedOK`). It gives **`TypeCorrect`**
  and **`AcceptedIsSoundHolds`**.
- `Names` adds that the names of known plugins are recorded and differ, up to the
  next plugin. It gives **`KnownNamesUniqueHolds`**.
- `Faultless` is the other direction: until an administrator makes a request
  (`Untouched`), a valid job has no error, and the names seen are those of earlier
  plugins. It gives **`ValidIsAcceptedHolds`**.

### pluginctl

For all deployments, any number of invocations and all faults, unless said
otherwise (`PluginCtlProofs`):

- `DeployInvariant` says what an invocation has parsed at each place, with an inductive
  `TypeOK`. It gives **`PluginCtlTypeOK`** and **`TemplateSoundHolds`**: each variable of
  the system has its own value in the container, each mount has its volume, a
  deployment selects its pods. Whether the cluster admits a template is not part of it.
- `ClientInvariant` adds where an invocation may be while a pod of its own is there
  (`LeftoverInvariant`), and whose pod it is (`OwnerInvariant`): one that has not created has
  none, one that follows has its own, or another has deleted it, and a pod in its grace
  period was deleted by another than its maker. It gives **`RunCleansUpHolds`** when pods can
  be read.
- **`DeletesOwnPodHolds`**, without hypotheses: with `OwnerInvariant`, an invocation that
  terminates what it follows deletes the pod of another only after its own was taken; `rm`
  and a forced update are named in the property, which says nothing of what they
  delete.

### Message publication

For any number of senders, capacity, faults and bounds, without hypotheses
(`MessagePublicationProofs`):

- **`NothingVanishesHolds`**: each step leaves every message in one of the stages, among those
  received, or in `lost` (`AccountedKept`); a new one is refused or waits
  (`AccountedCall`).
- **`SomeSenderFreeHolds`**: the send that fills the channel returns, and a call at a full
  channel is refused, so it makes nobody wait. A capacity of zero would refute it, whence
  the assumption on `ChannelCap`.
- **`PublicationInvariantHolds`**: what is received, on the wire, in the hands of the loop and
  in the channel is in the order of the calls, within each stage and from one to the next;
  a sender that waits has sent all its earlier messages (`Sent`); and what is lost is in no
  stage. Order between stages makes the stages disjoint (`StagesDisjoint`), which is
  why a message given up by one is in no other (`GivenUp`). It gives
  **`ReceivedInOrderHolds`**.

### Only model-checked

Liveness under fairness (`RunFinishes`, `APIPluginLaunched`, `NodeCatchesUp`,
`JobWithdrawn`, `SubmittedReachesNodes`, `WatchedRunEnds`, `SendReturns`,
`CachedIsPublished`), which needs `ENABLED` and is
beyond the prover, and the two runs that show a violation. No
module here has a recursive operator, and no proof needs induction over data.

## Not modelled

- The declaration of exchanges and queues (`rmq.go`) and the Redis client are I/O.
- The rule checker evaluates Python expressions; its answer is a free choice.
- Tokens and the requests to the authentication server are I/O.
- `sesctl` and `runplugin` keep no state: they send one request or make one call.
- `RunAsync`, `LaunchAndWatchPlugin`, `RunPlugin` and the garbage collector of the
  resource manager have no caller; services, secrets and data-config claims
  are made once and never changed.
- Encodings, metrics, logging and the build files.

## Plan

1. *Done.* The node scheduler with its queue, policies and cluster; the cloud
   scheduler with its streams; validation; pluginctl; the abstract
   `PluginScheduling` and `GoalAssignment`.
2. *Done.* The publication of messages, with loss.
3. *Done.* Each safety invariant, action property and refinement that a passing run
   checks is a theorem.
4. Further models: several nodes that acknowledge goals, once the events of nodes reach
   the cloud.
5. Further proofs: the pods of goals that come and go, once the launch goroutine looks
   its goal up again before it creates the pod.
