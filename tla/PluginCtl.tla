----------------------------- MODULE PluginCtl -----------------------------
(***************************************************************************)
(* Invocations of pluginctl (run, profile run, deploy, rm) on one node,    *)
(* whose plugins have one name: each is a process of its own, and they     *)
(* meet in the cluster.  Deploying is a sequence of API calls              *)
(* (resourcemanager.go, UpdatePod and its siblings); run and profile then  *)
(* poll the pod, follow it with a watch, a log reader and the user's       *)
(* signals, each a goroutine, and terminate the pod by its name            *)
(* (cmd/pluginctl/cmd/run.go, profile.go).                                 *)
(***************************************************************************)
EXTENDS PodTemplate

CONSTANTS
  Clients,        \* invocations of pluginctl; also the UIDs of what they make
  Commands,       \* what they may be asked to do
  Deployments,    \* their flags and arguments
  None,           \* no object, no deployment
  Secrets,        \* secrets of the cluster
  MaxErrorCount,  \* failed polls that are tolerated
  Faults          \* what else may happen

\* "interrupt": the user presses Ctrl+C
\* "get":       a request for the pod or object fails
\* "terminate": the deletion at the end of a run fails
\* "log":       the container's log cannot be opened yet
\* "watch":     the API server ends a watch, or the connection breaks
FaultKinds == {"interrupt", "get", "terminate", "log", "watch"}
Type       == {"pod", "job", "deployment", "daemonset"}

\* What the flags and arguments say.
Field ==
  {"name", "tag", "node", "entrypoint", "options", "selector", "resource", "env",
   "envFromFile", "selectorParses", "type", "force", "dryRun"}

ASSUME PluginCtlAssumption ==
  /\ Commands \subseteq {"run", "profile", "deploy", "rm"}
  /\ \A d \in Deployments : DOMAIN d = Field /\ d.type \in Type \cup {"unknown"}
  /\ MaxErrorCount \in Nat
  /\ Faults \subseteq FaultKinds

VARIABLES
  command,    \* [Clients -> what the invocation does]
  at,         \* [Clients -> where its main goroutine is]
  dep,        \* [Clients -> its deployment, once its arguments are accepted]
  errorCount, \* [Clients -> polls that failed]
  watcher,    \* [Clients -> where its watch goroutine is]
  watched,    \* [Clients -> watch events it has not handled]
  signal,     \* [Clients -> whether the channel c holds a value]
  log,        \* [Clients -> where its log reader is]
  object,     \* [Type -> the object of that type with the plugins' name]
  taken       \* who had its pod deleted by another invocation; a history variable

vars == <<command, at, dep, errorCount, watcher, watched, signal, log, object, taken>>

Phase == {"Pending", "Running", "Succeeded", "Failed"}
Final == {"Succeeded", "Failed"}

\* "failed": Deploy returned an error; "left": an error after that, returned
\* before the deferred termination was set up; "undeleted": the termination
\* failed, which is ignored; "crashed": a panic; "killed": by a signal that is
\* not handled yet.
Ends == {"ended", "failed", "left", "undeleted", "crashed", "killed"}
At   == {"start", "get", "update", "delete", "create", "poll", "follow", "wait",
         "terminate"} \cup Ends

Object == [uid : Clients, phase : Phase, deleting : BOOLEAN]

\* run and profile always make a pod, without a controller, and never force.
AsRun(d) ==
  [d EXCEPT !.type = "pod", !.force = FALSE, !.dryRun = FALSE,
            !.options = @ \ {"controller"}]

TypeOK ==
  /\ command \in [Clients -> Commands]
  /\ at \in [Clients -> At]
  /\ dep \in [Clients -> Deployments \cup {AsRun(d) : d \in Deployments} \cup {None}]
  /\ errorCount \in [Clients -> 0..MaxErrorCount + 1]
  /\ watcher \in [Clients -> {"none", "starting", "open", "closed"}]
  /\ watched \in [Clients -> Seq({"final", "deleted"})]
  /\ signal \in [Clients -> BOOLEAN]
  /\ log \in [Clients -> {"none", "reading", "spinning", "done"}]
  /\ object \in [Type -> Object \cup {None}]
  /\ taken \subseteq Clients

\* None stands for no object and no deployment.
ASSUME NoneAssumption == None \notin Deployments \cup {AsRun(d) : d \in Deployments} \cup Object

Init ==
  /\ command \in [Clients -> Commands]
  /\ at = [c \in Clients |-> "start"]
  /\ dep = [c \in Clients |-> None]
  /\ errorCount = [c \in Clients |-> 0]
  /\ watcher = [c \in Clients |-> "none"]
  /\ watched = [c \in Clients |-> <<>>]
  /\ signal = [c \in Clients |-> FALSE]
  /\ log = [c \in Clients |-> "none"]
  /\ object = [k \in Type |-> None]
  /\ taken = {}

-----------------------------------------------------------------------------
(* Arguments                                                               *)

\* parseEnv stops at the first blank line without an error; of two lines with
\* one name the later counts.
EnvOf(lines) ==
  LET blanks == {i \in DOMAIN lines : lines[i] = <<>>}
      read   == IF blanks = {} THEN DOMAIN lines
                ELSE {i \in DOMAIN lines : \A b \in blanks : i < b}
      last(k) == CHOOSE i \in read : /\ lines[i][1] = k
                                     /\ \A j \in read : lines[j][1] = k => j <= i
  IN IF \E i \in read : Len(lines[i]) # 2 THEN NoTemplate
     ELSE [k \in {lines[i][1] : i \in read} |-> lines[last(k)][2]]

\* Deploy reads the file of variables twice.
EnvLines(d) == d.env \o d.envFromFile \o d.envFromFile

\* What Deploy makes of the arguments, and NoTemplate when it returns an error.
ObjectOf(d) ==
  LET env == EnvOf(EnvLines(d))
  IN IF ~ d.selectorParses \/ env = NoTemplate \/ d.type = "unknown" THEN NoTemplate
     ELSE ObjectFor([name |-> d.name, tag |-> d.tag, node |-> d.node,
                     entrypoint |-> d.entrypoint, options |-> d.options,
                     selector |-> d.selector, resource |-> d.resource, env |-> env],
                    d.type, Secrets)

Flags(c, d) == IF command[c] \in {"run", "profile"} THEN AsRun(d) ELSE d

-----------------------------------------------------------------------------
(* The cluster                                                             *)

Watching == {c \in Clients : watcher[c] = "open"}
Tell(e)  == [c \in Clients |-> IF c \in Watching THEN Append(watched[c], e) ELSE watched[c]]

\* The object of type k goes away.
Gone(k) ==
  /\ object' = [object EXCEPT ![k] = None]
  /\ watched' = IF k = "pod" THEN Tell("deleted") ELSE watched

\* The invocation c deletes the pod, whoever made it.
Taken(c) == IF object["pod"] = None THEN taken ELSE taken \cup ({object["pod"].uid} \ {c})

\* The kubelet reports a phase of the pod, perhaps after missing one.
PodProgress(phase) ==
  /\ object["pod"] # None
  /\ object["pod"].phase \in {"Pending", "Running"}
  /\ \/ phase = "Running" /\ object["pod"].phase = "Pending" /\ ~ object["pod"].deleting
     \/ phase \in Final
  /\ object' = [object EXCEPT !["pod"].phase = phase]
  /\ watched' = IF phase \in Final THEN Tell("final") ELSE watched
  /\ UNCHANGED <<command, at, dep, errorCount, watcher, signal, log, taken>>

\* The grace period of a deleted pod is over.
PodReaped ==
  /\ object["pod"] # None /\ object["pod"].deleting
  /\ Gone("pod")
  /\ UNCHANGED <<command, at, dep, errorCount, watcher, signal, log, taken>>

-----------------------------------------------------------------------------
(* Deploy                                                                  *)

followVars == <<errorCount, watcher, signal, log>>
Go(c, where) == at' = [at EXCEPT ![c] = where]

\* The invocation returns, and its goroutines end with it.
Exit(c, how) ==
  /\ Go(c, how)
  /\ watcher' = [watcher EXCEPT ![c] = "none"]
  /\ watched' = [watched EXCEPT ![c] = <<>>]
  /\ signal' = [signal EXCEPT ![c] = FALSE]
  /\ log' = [log EXCEPT ![c] = "none"]

\* What follows a Deploy that returns without an error.
Deployed(c) == Go(c, IF command[c] = "deploy" THEN "ended" ELSE "poll")

\* Mutant: the termination is deferred before the error of Deploy is looked at.
Refused_Terminates(c) == Go(c, IF command[c] = "deploy" THEN "failed" ELSE "terminate")

\* And of a Deploy that returns one.
Refused(c) == Go(c, "failed")

\* Arguments are parsed and the template is made; a dry run prints it.
Begin(c) ==
  /\ at[c] = "start" /\ command[c] # "rm"
  /\ \E d \in Deployments :
       LET f == Flags(c, d)
       IN IF ObjectOf(f) = NoTemplate THEN Refused(c) /\ UNCHANGED dep
          ELSE IF f.dryRun THEN Go(c, "ended") /\ UNCHANGED dep
          ELSE Go(c, "get") /\ dep' = [dep EXCEPT ![c] = f]
  /\ UNCHANGED <<command, followVars, watched, object, taken>>

\* Get: an error, also a transient one, is taken for an absent object.
GetExisting(c) ==
  /\ at[c] = "get"
  /\ \/ /\ object[dep[c].type] # None
        /\ Go(c, "update")
     \/ /\ object[dep[c].type] = None \/ "get" \in Faults
        /\ Go(c, "create")
  /\ UNCHANGED <<command, dep, followVars, watched, object, taken>>

\* Update.  Kubernetes never accepts that of a pod, whose specification is fixed;
\* the others it accepts unless a fixed part of them differs.
Update(c) ==
  /\ at[c] = "update"
  /\ \/ /\ dep[c].type # "pod" /\ object[dep[c].type] # None /\ Admitted(ObjectOf(dep[c]))
        /\ Deployed(c)
     \/ IF dep[c].force THEN Go(c, "delete") ELSE Refused(c)
  /\ UNCHANGED <<command, dep, followVars, watched, object, taken>>

\* Delete, with the default grace period, which a pod that runs or starts is
\* given; other pods and objects go at once.
Delete(c) ==
  /\ at[c] = "delete"
  /\ LET k == dep[c].type
     IN IF object[k] = None THEN Refused(c) /\ UNCHANGED <<watched, object, taken>>
        ELSE /\ Go(c, "create")
             /\ taken' = IF k = "pod" THEN Taken(c) ELSE taken
             /\ \/ /\ k = "pod" /\ object[k].phase \notin Final
                   /\ object' = [object EXCEPT ![k].deleting = TRUE]
                   /\ UNCHANGED watched
                \/ /\ k = "pod" => object[k].phase # "Running"
                   /\ Gone(k)
  /\ UNCHANGED <<command, dep, followVars>>

\* Create, half a second after a deletion, which may be too early.
Create(c) ==
  /\ at[c] = "create"
  /\ LET k == dep[c].type
     IN IF object[k] = None /\ Admitted(ObjectOf(dep[c]))
        THEN /\ object' = [object EXCEPT ![k] = [uid |-> c, phase |-> "Pending", deleting |-> FALSE]]
             /\ Deployed(c)
        ELSE Refused(c) /\ UNCHANGED object
  /\ UNCHANGED <<command, dep, followVars, watched, taken>>

-----------------------------------------------------------------------------
(* run and profile                                                         *)

\* What GetPluginStatus may answer.
Status(answer) ==
  \/ object["pod"] # None /\ answer = object["pod"].phase
  \/ (object["pod"] = None \/ "get" \in Faults) /\ answer = "error"

\* An error of the status loop: profile has its deferred termination already.
GiveUp(c) ==
  IF command[c] = "profile" THEN Go(c, "terminate") /\ UNCHANGED <<watcher, watched, signal, log>>
  ELSE Exit(c, "left")

\* The pod runs, or for run also succeeded: the watch goroutine is started.
StartFollowing(c) ==
  /\ Go(c, "follow")
  /\ watcher' = [watcher EXCEPT ![c] = "starting"]
  /\ UNCHANGED <<watched, signal, log>>

\* The phases after which the loop ends with a plugin to follow; profile waits
\* for the running phase only.
Follows(c) == IF command[c] = "run" THEN {"Running", "Succeeded"} ELSE {"Running"}

\* The phases after which the loop ends with an error.
GivesUp(c) == IF command[c] = "run" THEN {"Failed"} ELSE {}

\* Mutant: one error more.
Tolerated_OffByOne(c) == errorCount[c] <= MaxErrorCount

Tolerated(c) == errorCount[c] < MaxErrorCount

\* One turn of the status loop.
Poll(c) ==
  /\ at[c] = "poll"
  /\ \E answer \in Phase \cup {"error"} :
       /\ Status(answer)
       /\ IF answer = "error"
          THEN /\ errorCount' = [errorCount EXCEPT ![c] = @ + 1]
               /\ IF Tolerated(c) THEN UNCHANGED <<at, watcher, watched, signal, log>>
                  ELSE GiveUp(c)
          ELSE /\ UNCHANGED errorCount
               /\ \/ answer \in Follows(c) /\ StartFollowing(c)
                  \/ answer \in GivesUp(c) /\ GiveUp(c)
                  \/ answer \notin Follows(c) \cup GivesUp(c)
                     /\ UNCHANGED <<at, watcher, watched, signal, log>>
  /\ UNCHANGED <<command, dep, object, taken>>

\* Mutant: an error of PrintLog returns before the termination is deferred.
OpenLog_NotDeferred(c) ==
  /\ at[c] = "follow"
  /\ \/ /\ object["pod"] # None
        /\ Go(c, "wait")
        /\ log' = [log EXCEPT ![c] = "reading"]
        /\ UNCHANGED <<watcher, watched, signal>>
     \/ /\ object["pod"] = None \/ "log" \in Faults
        /\ Exit(c, "ended")
  /\ UNCHANGED <<command, dep, errorCount, object, taken>>

\* PrintLog opens the log of the plugin's container.
OpenLog(c) ==
  /\ at[c] = "follow"
  /\ \/ /\ object["pod"] # None
        /\ Go(c, "wait")
        /\ log' = [log EXCEPT ![c] = "reading"]
     \/ /\ object["pod"] = None \/ "log" \in Faults
        /\ Go(c, "terminate")
        /\ UNCHANGED log
  /\ UNCHANGED <<command, dep, errorCount, watcher, watched, signal, object, taken>>

\* The watch goroutine gets the pod, then watches what changes from then on.
\* Without the pod WatchPod returns a nil watcher and a nil error, whose use is a
\* panic that ends the process without its deferred calls (resourcemanager.go:548
\* shadows the error; run.go:90 would go on with it as well).
OpenWatch(c) ==
  /\ watcher[c] = "starting"
  /\ \/ /\ object["pod"] # None
        /\ watcher' = [watcher EXCEPT ![c] = "open"]
        /\ UNCHANGED <<at, watched, signal, log>>
     \/ /\ object["pod"] = None \/ "get" \in Faults
        /\ Exit(c, "crashed")
  /\ UNCHANGED <<command, dep, errorCount, object, taken>>

\* Mutant: the deletion of the pod is not an end.
Outcomes_NotDeleted == {"final"}

Outcomes == {"final", "deleted"}

\* The channel c holds one value; the watch goroutine blocks when it is full,
\* and nobody waits for it.
HandleWatched(c) ==
  /\ watcher[c] \in {"open", "closed"} /\ watched[c] # <<>> /\ ~ signal[c]
  /\ watched' = [watched EXCEPT ![c] = Tail(@)]
  /\ signal' = [signal EXCEPT ![c] = Head(watched[c]) \in Outcomes]
  /\ UNCHANGED <<command, at, dep, errorCount, watcher, log, object, taken>>

\* The watch is over: the goroutine takes what was sent before, if it arrived, and
\* ends without a word (for event := range chanEvent).
WatchCloses(c) ==
  /\ "watch" \in Faults /\ watcher[c] = "open"
  /\ watcher' = [watcher EXCEPT ![c] = "closed"]
  /\ \E rest \in {watched[c], <<>>} : watched' = [watched EXCEPT ![c] = rest]
  /\ UNCHANGED <<command, at, dep, errorCount, signal, log, object, taken>>

\* The log ends: the last bytes come with the end of the file, or the reader gets
\* no bytes and reads again for ever.
LogEnds(c) ==
  /\ log[c] = "reading"
  /\ IF object["pod"] = None THEN TRUE ELSE object["pod"].phase \in Final
  /\ \E how \in {"done", "spinning"} : log' = [log EXCEPT ![c] = how]
  /\ UNCHANGED <<command, at, dep, errorCount, watcher, watched, signal, object, taken>>

Finish(c) ==
  /\ at[c] = "wait"
  /\ signal[c] \/ log[c] = "done"
  /\ Go(c, "terminate")
  /\ UNCHANGED <<command, dep, errorCount, watcher, watched, signal, log, object, taken>>

\* TerminatePlugin deletes the pod of that name, without a grace period; to find
\* none is no failure that changes anything.
DeletePod(c) ==
  /\ watcher' = [watcher EXCEPT ![c] = "none"]
  /\ signal' = [signal EXCEPT ![c] = FALSE]
  /\ log' = [log EXCEPT ![c] = "none"]
  /\ \/ /\ Go(c, "ended")
        /\ object' = [object EXCEPT !["pod"] = None]
        /\ taken' = Taken(c)
        /\ watched' = [(IF object["pod"] = None THEN watched ELSE Tell("deleted"))
                          EXCEPT ![c] = <<>>]
     \/ /\ "terminate" \in Faults
        /\ Go(c, "undeleted")
        /\ watched' = [watched EXCEPT ![c] = <<>>]
        /\ UNCHANGED <<object, taken>>
  /\ UNCHANGED <<command, dep, errorCount>>

\* It is deferred by run and profile, which ignore its error, and all that rm does.
Terminate(c) == at[c] = "terminate" /\ DeletePod(c)
Remove(c)    == at[c] = "start" /\ command[c] = "rm" /\ DeletePod(c)

\* Ctrl+C kills the process until signal.Notify is called, then fills c.
Interrupt(c) ==
  /\ "interrupt" \in Faults
  /\ \/ /\ at[c] \in {"get", "update", "delete", "create", "poll"}
        /\ Exit(c, "killed")
     \/ /\ at[c] \in {"follow", "wait"} /\ ~ signal[c]
        /\ signal' = [signal EXCEPT ![c] = TRUE]
        /\ UNCHANGED <<at, watcher, watched, log>>
  /\ UNCHANGED <<command, dep, errorCount, object, taken>>

-----------------------------------------------------------------------------
Deploy(c) == Begin(c) \/ GetExisting(c) \/ Update(c) \/ Delete(c) \/ Create(c)

Follow(c) ==
  \/ Poll(c) \/ OpenLog(c) \/ Finish(c) \/ Terminate(c)
  \/ OpenWatch(c) \/ HandleWatched(c) \/ WatchCloses(c) \/ LogEnds(c)

Cluster == PodReaped \/ \E phase \in Phase : PodProgress(phase)

Next ==
  \/ \E c \in Clients : Deploy(c) \/ Remove(c) \/ Follow(c) \/ Interrupt(c)
  \/ Cluster

\* The goroutines of run and profile go on.  Nothing is assumed of users, of the
\* cluster, or of plugins, which may run for ever.
Fairness ==
  \A c \in Clients :
    /\ WF_vars(Poll(c) \/ OpenLog(c) \/ Finish(c) \/ Terminate(c))
    /\ WF_vars(OpenWatch(c)) /\ WF_vars(HandleWatched(c)) /\ WF_vars(LogEnds(c))

Spec     == Init /\ [][Next]_vars
FairSpec == Spec /\ Fairness
=============================================================================
