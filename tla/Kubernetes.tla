----------------------------- MODULE Kubernetes -----------------------------
(***************************************************************************)
(* The cluster as the node scheduler meets it: the API calls of            *)
(* resourcemanager.go (create a pod, delete a pod, write the config map    *)
(* of goals) and the informers that report changes back.  The pod, event   *)
(* and config-map informers are independent watches: each delivers in      *)
(* order, and nothing orders one against the others, hence three FIFOs.    *)
(***************************************************************************)
EXTENDS Integers, Sequences, FiniteSets

CONSTANTS
  Name,        \* names of plugins
  Goal,        \* identifiers of science goals
  NoGoal,      \* the goal of a plugin submitted through the node's REST API
  Job,         \* identifiers of jobs
  NoJob,       \* the job of a plugin submitted through the node's REST API
  JobOf,       \* JobOf[g] is the job the goal g serves
  Faults       \* what may go wrong in the cluster

\* "skip":      the informer or the kubelet never shows the running phase
\* "create":    a pod is not created (template or API error)
\* "terminate": a delete call fails
\* "delete":    somebody else deletes a pod (kubectl delete, eviction)
\* "warning":   a failure Event (FailedMount, ...) is reported for a pod
\* "configmap": the config map of goals cannot be written
\* "nostatus":  a pod in phase Running lists no status for its plugin container
FaultKinds ==
  {"skip", "create", "terminate", "delete", "warning", "configmap", "nostatus"}

ASSUME KubernetesAssumption ==
  /\ NoGoal \notin Goal
  /\ NoJob \notin Job
  /\ JobOf \in [Goal -> Job]
  /\ Faults \subseteq FaultKinds

VARIABLES
  pods,        \* the pods of the namespace
  uids,        \* how many pods were ever created; a pod's UID is its number
  podEvents,   \* pod informer: events not yet handled by the scheduler
  kubeEvents,  \* event informer: failure Events not yet handled
  configMap,   \* <<G>> when the config map holds the goals G, <<>> without one
  cmEvents     \* config-map informer: versions not yet handled

kubeVars == <<pods, uids, podEvents, kubeEvents, configMap, cmEvents>>

JobID(g) == IF g = NoGoal THEN NoJob ELSE JobOf[g]

\* What a watcher can tell of a pod: "created" is the object just stored,
\* "pending" an update in phase Pending, "running" phase Running with the
\* plugin's container running, "exited" phase Running with that container
\* terminated while the controller container still runs.
View == {"created", "pending", "running", "exited", "succeeded", "failed"}

\* The order in which a watcher sees the views of one pod.
Follows ==
  [v \in View |->
     CASE v = "created"   -> {"pending"}
       [] v = "pending"   -> {"running", "failed"}
       [] v = "running"   -> {"exited", "succeeded", "failed"}
       [] v = "exited"    -> {"succeeded", "failed"}
       [] v = "succeeded" -> {}
       [] v = "failed"    -> {}]

\* With "skip" the running view of a short-lived container may be missing.
MayFollow(v) ==
  Follows[v] \cup IF "skip" \in Faults /\ v \in {"created", "pending"}
                  THEN {"succeeded", "failed"} ELSE {}

\* A pod is named after its plugin and job; its labels carry name and goal.
PodName(p) == <<p.name, JobID(p.goal)>>
Pod        == [name : Name, goal : Goal \cup {NoGoal}, uid : Nat, view : View]
PodEvent   == [type : {"Added", "Modified", "Deleted"}, pod : Pod]
KubeEvent  == [uid : Nat, podName : Name \X (Job \cup {NoJob})]

KubeTypeOK ==
  /\ pods \subseteq Pod /\ IsFiniteSet(pods)
  /\ uids \in Nat
  /\ podEvents \in Seq(PodEvent)
  /\ kubeEvents \in Seq(KubeEvent)
  /\ configMap \in {<<>>} \cup {<<G>> : G \in SUBSET Goal}
  /\ cmEvents \in Seq(SUBSET Goal)

KubeInit ==
  /\ pods = {}
  /\ uids = 0
  /\ podEvents = <<>>
  /\ kubeEvents = <<>>
  /\ configMap = <<>>
  /\ cmEvents = <<>>

PodExists(pn) == \E p \in pods : PodName(p) = pn

\* Create call that succeeds: names are unique in the namespace.
PodCreated(n, g) ==
  LET p == [name |-> n, goal |-> g, uid |-> uids + 1, view |-> "created"]
  IN  /\ ~ PodExists(PodName(p))
      /\ pods' = pods \cup {p}
      /\ uids' = uids + 1
      /\ podEvents' = Append(podEvents, [type |-> "Added", pod |-> p])

\* Delete call with grace period zero: the object is gone when it returns.
\* The call fails when there is no such pod; the callers ignore the error.
\* pending are the pod events the caller leaves unhandled.
TerminatePod(pn, pending) ==
  \/ \E p \in pods :
       /\ PodName(p) = pn
       /\ pods' = pods \ {p}
       /\ podEvents' = Append(pending, [type |-> "Deleted", pod |-> p])
  \/ /\ ~ PodExists(pn) \/ "terminate" \in Faults
     /\ pods' = pods
     /\ podEvents' = pending

\* The config map is created or overwritten; writing the same content again
\* is no change of the object, and no informer reports it.
ConfigMapWritten(G) ==
  /\ configMap' = <<G>>
  /\ cmEvents' = IF configMap = <<G>> THEN cmEvents ELSE Append(cmEvents, G)

-----------------------------------------------------------------------------
\* The steps the cluster takes on its own.

PodProgress(p) ==
  /\ p \in pods
  /\ \E v \in MayFollow(p.view) :
       LET q == [p EXCEPT !.view = v]
       IN  /\ pods' = (pods \ {p}) \cup {q}
           /\ podEvents' = Append(podEvents, [type |-> "Modified", pod |-> q])
  /\ UNCHANGED <<uids, kubeEvents, configMap, cmEvents>>

PodDeletedByOthers(p) ==
  /\ "delete" \in Faults
  /\ p \in pods
  /\ pods' = pods \ {p}
  /\ podEvents' = Append(podEvents, [type |-> "Deleted", pod |-> p])
  /\ UNCHANGED <<uids, kubeEvents, configMap, cmEvents>>

\* A failure Event is about a pod that is still starting.
PodWarning(p) ==
  /\ "warning" \in Faults
  /\ p \in pods
  /\ p.view \in {"created", "pending"}
  /\ \A i \in DOMAIN kubeEvents : kubeEvents[i].uid # p.uid
  /\ kubeEvents' = Append(kubeEvents, [uid |-> p.uid, podName |-> PodName(p)])
  /\ UNCHANGED <<pods, uids, podEvents, configMap, cmEvents>>
=============================================================================
