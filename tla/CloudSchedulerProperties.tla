---------------------- MODULE CloudSchedulerProperties ----------------------
(***************************************************************************)
(* What is checked and proved of CloudScheduler.                           *)
(***************************************************************************)
EXTENDS CloudScheduler

\* The hypothesis of the properties about single jobs: requests are handled one
\* after the other.  The events they send are still handled asynchronously.
Sequential == \E r \in Request : Request = {r}

\* The hypothesis of SchedulerStarts: the states that administrators write into
\* records are not those of jobs to be served.
InactiveRecords == RecordStates \cap Active = {}

-----------------------------------------------------------------------------
(* Invariants                                                              *)

\* Every goal that is served is the current goal of its job: nothing that a
\* resubmission, an edit or a dry run replaced is still given to nodes, at no
\* point between the steps of a request, of the main goroutine and of a restart
\* (api_server.go, handlerSubmitJobs, handlerEditJob; cloudscheduler.go:225).
ServedIsCurrent ==
  \A g \in scienceGoals : g.job \in DOMAIN jobs /\ jobs[g.job].goal = g

\* The process can always start: no interleaving of the steps of requests, each of
\* which writes back a record it has read before others wrote it, leaves an active
\* job without a goal in the database, which would be a nil dereference each
\* time the goals are loaded (cloudgoalmanager.go:336).
SchedulerStarts ==
  /\ main.at # "crashed"
  /\ \A i \in DOMAIN jobs : jobs[i].state \in Active => jobs[i].goal # NoGoal

\* The list last written to n's connection.
LastList(n) == IF wire[n] # <<>> THEN wire[n][Len(wire[n])] ELSE nodeGoals[n]

\* Nothing is under way in the cloud: no request, event or push.
Settled ==
  /\ main = Selecting
  /\ chanFromGoalManager = <<>>
  /\ \A r \in Request : request[r] = Idle

\* When nothing is under way, a stream that is open and has nothing to push has
\* been sent exactly the goals its node is to serve: no push was lost for good,
\* whatever a full channel, a handler that was just listing goals, a crash of
\* the scheduler or requests at the same time have done (api_server.go:82-85,
\* 613-650).  It speaks of instances in which users neither edit nor dry-run.
StreamIsCurrent ==
  Settled => \A n \in Nodes :
    handler[n] = "streaming" /\ ~ pushed[n] => LastList(n) = GoalsFor(n)

\* ... and in all instances it has been sent every goal its node is to serve: an
\* edit or a dry run, which takes a goal out of the map without an event, leaves
\* nodes with a goal too many, but keeps none from being sent (api_server.go:259;
\* the push that follows the submission meets handlers at any point).
ServedIsSent ==
  Settled => \A n \in Nodes :
    handler[n] = "streaming" /\ ~ pushed[n] => GoalsFor(n) \subseteq LastList(n)

-----------------------------------------------------------------------------
(* The invariants the proof of StreamIsCurrent uses                        *)

\* Its hypothesis: users neither edit nor dry-run.
NoRewrites == "edit" \notin Ops /\ "dryrun" \notin Ops

\* The goals that a request at q holds, and all that the process and the database
\* hold.
HeldBy(q) ==
  CASE q.at = "drop"  -> {q.old, q.rec.goal}
    [] q.at = "store" -> {q.rec.goal}
    [] q.at = "serve" -> {q.goal}
    [] OTHER          -> {}

HeldGoals ==
  scienceGoals \cup {jobs[i].goal : i \in DOMAIN jobs}
    \cup UNION {HeldBy(request[r]) : r \in Request}

\* Goals of one number are for the same nodes, wherever they are held, and the next
\* number is unused.
NumberInvariant ==
  /\ \A g \in HeldGoals : g.id <= goalCount
  /\ \A g, h \in HeldGoals : g.id = h.id => g.nodes = h.nodes

\* Without edits the goals of a job, the one it had and the next, are for the nodes
\* of the job.
ForNodes(goal, S) == goal = NoGoal \/ goal.nodes = S

KeepsNodes(q) ==
  /\ q.at \in {"drop", "store"} => q.op = "submit" /\ ForNodes(q.rec.goal, q.rec.nodes)
  /\ q.at = "drop" => ForNodes(q.old, q.rec.nodes)

NodesInvariant ==
  /\ \A i \in DOMAIN jobs : ForNodes(jobs[i].goal, jobs[i].nodes)
  /\ \A r \in Request : KeepsNodes(request[r])

\* The nodes that a request at q is going to have notified.
Notifies(q) ==
  CASE q.at = "store" -> q.rec.nodes
    [] q.at = "serve" -> q.goal.nodes
    [] OTHER          -> {}

\* Whether it is still to be announced that goal g is served.
Announces(q, g) == q.at = "notify" /\ q.event = [type |-> "submitted", id |-> g.id]

Announced(g) ==
  \/ \E i \in DOMAIN chanFromGoalManager :
       chanFromGoalManager[i] = [type |-> "submitted", id |-> g.id]
  \/ \E r \in Request : Announces(request[r], g)

\* A goal that is served and was not sent on an open stream of one of its nodes has
\* a push in that stream's channel, is about to be pushed, or is still to be
\* announced to the main goroutine: ServedIsSent as an inductive invariant.
SentInvariant ==
  \A g \in scienceGoals : \A n \in g.nodes :
    handler[n] \in {"listed", "streaming"} /\ ~ pushed[n]
    => g \in LastList(n) \/ n \in main.nodes \/ Announced(g)

\* Whether a push to n is still to come.
Awaited(n) ==
  \/ n \in main.nodes
  \/ \E r \in Request : n \in Notifies(request[r])
  \/ \E g \in scienceGoals : n \in g.nodes /\ Announced(g)

\* A stream that has been sent other goals than its node is to serve has a push in
\* its channel, or one is still to come.
PushInvariant ==
  \A n \in Nodes :
    handler[n] \in {"listed", "streaming"} /\ ~ pushed[n]
    => LastList(n) = GoalsFor(n) \/ Awaited(n)

\* What the proof carries along: nothing changes the map of goals without somebody
\* who is going to push, to the same nodes.
StreamInvariant == NumberInvariant /\ NodesInvariant /\ PushInvariant

-----------------------------------------------------------------------------
(* Action properties                                                       *)

\* A job stays its owner's, whoever edits or submits it with an override
\* (api_server.go:243), and is never deleted.
OwnerKept ==
  [][ /\ Len(jobs') >= Len(jobs)
      /\ \A i \in DOMAIN jobs : jobs'[i].user = jobs[i].user ]_vars

-----------------------------------------------------------------------------
(* Liveness                                                                *)

\* The state of job j, also before it exists, and whether node n serves it.
StateOf(j)       == IF j \in DOMAIN jobs THEN jobs[j].state ELSE "none"
NodeServes(n, j) == \E g \in nodeGoals[n] : g.job = j

\* Once users leave the jobs alone, every node ends with exactly the goals that
\* the cloud serves to it, although a push into a full channel is lost, pushes
\* meet handlers at any point, connections break and the cloud is restarted
\* (Push, handlerGoalStreamForNode, Subscribe).
NodeCatchesUp == \A n \in Nodes : <>[](nodeGoals[n] = GoalsFor(n))

\* The nodes that served a job drop it after it is suspended or removed, unless
\* it is submitted again (SuspendJob, RemoveJob, Run, and the stream).
JobWithdrawn ==
  \A j \in JobID :
    StateOf(j) \in {"Suspended", "Removed"}
      ~> (StateOf(j) \notin {"Suspended", "Removed"} \/ \A n \in Nodes : ~ NodeServes(n, j))

\* A submitted job reaches all its nodes, unless its record changes again.
SubmittedReachesNodes ==
  \A j \in JobID, k \in GoalID :
    LET submitted == StateOf(j) = "Submitted" /\ jobs[j].goal.id = k
    IN submitted ~> (submitted => \A n \in jobs[j].nodes : jobs[j].goal \in nodeGoals[n])

-----------------------------------------------------------------------------
(* Refinement                                                              *)

Assignment == INSTANCE GoalAssignment WITH
  Jobs    <- JobID,
  Goals   <- GoalID,
  None    <- NoID,
  current <- [j \in JobID |-> IF j \in DOMAIN jobs THEN jobs[j].goal.id ELSE NoID],
  served  <- {g.id : g \in scienceGoals}

\* A job has one current goal at a time and only that one is ever served; it is
\* given up before the next one takes its place (GoalAssignment).
AssignmentImplemented == Assignment!Spec
=============================================================================
