------------------------ MODULE PluginCtlProperties ------------------------
(***************************************************************************)
(* What is checked and proved of PluginCtl.                                *)
(***************************************************************************)
EXTENDS PluginCtl

\* Whether the pod that c made is there.
OwnPod(c) == object["pod"] # None /\ object["pod"].uid = c

\* An invocation of run or profile that is over leaves no pod of its own behind,
\* whichever goroutine ended it and in whatever order, and whatever others do to
\* pods of that name; only a run that says that the plugin failed and "remains in
\* the system" leaves it, failed (run.go:72).  The exceptions are a process killed
\* before it handles signals and a deletion that fails.  It speaks of instances
\* without the fault "get", after which a panic leaves the pod.
RunCleansUp ==
  \A c \in Clients :
    /\ command[c] \in {"run", "profile"}
    /\ at[c] \in {"ended", "failed", "left", "crashed"}
    /\ OwnPod(c)
    => at[c] = "left" /\ object["pod"].phase = "Failed"

\* What an invocation is about to send to the cluster sets the variables of the
\* system whatever the user sets (resourcemanager.go:582), mounts volumes that
\* the pod has, and a deployment selects its own pods.
TemplateSound ==
  \A c \in Clients : dep[c] # None =>
    LET o    == ObjectOf(dep[c])
        pods == o.template
    IN /\ \A k \in SystemEnv :
            [name |-> k, from |-> "system"] \in Effective(pods.containers[1].env)
       /\ \A i \in DOMAIN pods.containers :
            \A m \in pods.containers[i].mounts : m[1] \in pods.volumes
       /\ o.selects \subseteq {pods.labels}

\* Every deletion is by the plugins' name.  An invocation deletes the pod of another
\* only if it is asked to (rm, a forced update) or after its own pod has been deleted
\* by another, when the deferred termination meets whatever has that name now
\* (run.go:82): not after a creation that failed, not with an old pod still there,
\* not twice.
DeletesOwnPod ==
  [][ \A c, d \in Clients :
        /\ OwnPod(d) /\ ~ OwnPod(d)'
        /\ at[c] # at'[c]
        => c = d \/ command[c] = "rm" \/ at[c] = "delete" \/ c \in taken ]_vars

-----------------------------------------------------------------------------
(* The invariants the proofs use                                           *)

\* run and profile, which follow the pod they made.
Followers == {"run", "profile"}

\* An invocation sends to the cluster only what it could make an object of, and
\* run and profile a pod, which they never force; only a forced update deletes
\* before it creates, and only run and profile poll and follow (pluginctl.go:155,
\* run.go:43, resourcemanager.go, UpdatePod and its siblings).
Orderly(c) ==
  /\ at[c] = "start" => dep[c] = None
  /\ at[c] \in {"get", "update", "delete", "create"} => dep[c] # None /\ command[c] # "rm"
  /\ at[c] \in {"start", "get", "update", "delete", "create"} => errorCount[c] = 0
  /\ dep[c] # None =>
       /\ ObjectOf(dep[c]) # NoTemplate /\ dep[c].type \in Type
       /\ command[c] \in Followers => dep[c].type = "pod" /\ ~ dep[c].force
  /\ at[c] = "delete" => dep[c].force
  /\ at[c] \in {"poll", "follow", "wait", "terminate"} => command[c] \in Followers
  /\ at[c] = "poll" => errorCount[c] <= MaxErrorCount

DeployInvariant == \A c \in Clients : Orderly(c)

\* Where run and profile are until the pod they made is to be deleted.
Following == {"poll", "follow", "wait", "terminate"}

\* Where run and profile may be while the pod they made is there.
MayOwn(c) ==
  \/ at[c] \in Following \cup {"undeleted", "killed"}
  \/ at[c] = "left" /\ object["pod"].phase = "Failed"

LeftoverInvariant ==
  \A c \in Clients : command[c] \in Followers /\ OwnPod(c) => MayOwn(c)

\* Where an invocation is before it makes an object.
Preparing == {"start", "get", "update", "delete", "create"}

\* One that polls, follows or terminates has its pod, or another has deleted it; of
\* a pod that is being deleted another is the cause.
OwnerInvariant ==
  /\ \A c \in Clients : at[c] \in Preparing => ~ OwnPod(c)
  /\ \A c \in Clients : at[c] \in Following => OwnPod(c) \/ c \in taken
  /\ object["pod"] # None /\ object["pod"].deleting => object["pod"].uid \in taken

\* What the proofs carry along together: an invocation and the pod of the
\* plugins' name agree on who made it and who is to remove it.
ClientInvariant == DeployInvariant /\ LeftoverInvariant /\ OwnerInvariant

-----------------------------------------------------------------------------
(* Liveness                                                                *)

\* Whether the pod of the plugins' name has not finished.
Alive == object["pod"] # None /\ object["pod"].phase \notin Final

\* A run that watches its plugin before the plugin finishes ends when it does,
\* also when the log reader spins on the end of the log and whoever removes or
\* replaces the pod; it hangs only if the watch is closed by the API server and
\* the reader spins, for then nothing tells it (run.go:93, pluginctl.go:391).
\* (One that starts to watch later may hang as well.)
WatchedRunEnds ==
  []<>(~ Alive) =>
    \A c \in Clients :
      (at[c] = "wait" /\ watcher[c] = "open" /\ Alive)
        ~> (at[c] \in Ends \/ (watcher[c] = "closed" /\ log[c] = "spinning"))
=============================================================================
