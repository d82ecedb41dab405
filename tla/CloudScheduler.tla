--------------------------- MODULE CloudScheduler ---------------------------
(***************************************************************************)
(* The cloud scheduler: a database of jobs that survives restarts, a map   *)
(* of the science goals it serves, HTTP goroutines that handle requests of *)
(* users (api_server.go), the main goroutine that handles what they notify *)
(* (cloudscheduler.go, Run), and the streams to the nodes (GoalStream).    *)
(* A request that fails to authenticate, to validate or to read its job    *)
(* changes nothing and is left out; JobValidation is about validation.     *)
(***************************************************************************)
EXTENDS GoalStream

CONSTANTS
  Users,        \* users
  SuperUsers,   \* those who may override others
  NodeSets,     \* node selections that users write into jobs
  Request,      \* HTTP goroutines that may handle requests at the same time
  Ops,          \* requests that users make
  RecordStates, \* states that administrators write into records
  RabbitMQ,     \* whether node events are received
  ChannelCap,   \* capacity of chanFromGoalManager (maxChannelBuffer)
  MaxJobs,      \* bound: jobs ever created
  MaxGoals,     \* bound: goals ever made, one per successful validation
  MaxRestarts   \* bound: restarts

OpKinds == {"create", "edit", "submit", "dryrun", "submitnew", "suspend",
            "remove", "force"}

\* "Completed" is declared in job.go and never set.
JobState == {"Created", "Drafted", "Submitted", "Running", "Suspended", "Removed"}
Active   == {"Submitted", "Running"}

ASSUME CloudAssumption ==
  /\ SuperUsers \subseteq Users
  /\ \A S \in NodeSets : S \subseteq Nodes /\ S # {}
  /\ Ops \subseteq OpKinds
  /\ RecordStates \subseteq JobState
  /\ RabbitMQ \in BOOLEAN
  /\ ChannelCap \in Nat \ {0}
  /\ MaxJobs \in Nat /\ MaxGoals \in Nat /\ MaxRestarts \in Nat

VARIABLES
  jobs,          \* the database: sequence of records, the position is the ID
  goalCount,     \* goals made so far; a goal's number is its (unique) ID
  scienceGoals,  \* the goal manager's map of goals
  chanFromGoalManager,  \* events for the main goroutine
  request,       \* [Request -> where the HTTP goroutine is]
  main,          \* where the main goroutine is
  restarts       \* how often the process was restarted

cloudVars ==
  <<jobs, goalCount, scienceGoals, chanFromGoalManager, request, main, restarts>>
vars == <<cloudVars, streamVars>>

NoID   == 0                   \* the empty job or goal ID
JobID  == 1..MaxJobs
GoalID == 1..MaxGoals
NoGoal == [id |-> NoID, job |-> NoID, nodes |-> {}]
Goal   == [id : GoalID, job : JobID \cup {NoID}, nodes : SUBSET Nodes]
Job    == [state : JobState, user : Users, nodes : SUBSET Nodes,
           goal : Goal \cup {NoGoal}]

Event == [type : {"submitted", "removed"}, id : GoalID \cup {NoID}]
           \cup [type : {"suspended"}, id : JobID]

Idle == [at |-> "idle"]

\* What an HTTP goroutine holds: the record it read and is changing, and the
\* goal that record had.
RequestState ==
  {Idle}
    \cup [at : {"drop"}, op : {"submit", "dryrun", "edit"}, job : JobID,
          rec : Job, old : Goal \cup {NoGoal}]
    \cup [at : {"store"}, op : {"submit", "dryrun", "edit"}, job : JobID, rec : Job]
    \cup [at : {"serve"}, goal : Goal \cup {NoGoal}]
    \cup [at : {"notify"}, event : Event]

\* "select" waits for an event, "update" pushes to the nodes one by one.
MainState ==
  [at : {"select", "crashed"}, nodes : {{}}] \cup [at : {"update"}, nodes : SUBSET Nodes]

Selecting == [at |-> "select", nodes |-> {}]

TypeOK ==
  /\ jobs \in Seq(Job) /\ Len(jobs) <= MaxJobs
  /\ goalCount \in 0..MaxGoals
  /\ scienceGoals \subseteq Goal
  /\ chanFromGoalManager \in Seq(Event) /\ Len(chanFromGoalManager) <= ChannelCap
  /\ request \in [Request -> RequestState]
  /\ main \in MainState
  /\ restarts \in 0..MaxRestarts
  /\ handler \in [Nodes -> HandlerState]
  /\ pushed \in [Nodes -> BOOLEAN]
  /\ client \in [Nodes -> ClientState]
  /\ wire \in [Nodes -> Seq(SUBSET Goal)]
  /\ nodeGoals \in [Nodes -> SUBSET Goal]
  /\ streamFaults \in 0..MaxStreamFaults

Init ==
  /\ jobs = <<>>
  /\ goalCount = 0
  /\ scienceGoals = {}
  /\ chanFromGoalManager = <<>>
  /\ request = [r \in Request |-> Idle]
  /\ main = Selecting
  /\ restarts = 0
  /\ StreamInit

-----------------------------------------------------------------------------
(* The goal manager: jobs                                                  *)

Added(rec)    == Append(jobs, rec)
GetJob(j)     == jobs[j]
Put(j, rec)   == [jobs EXCEPT ![j] = rec]
InState(j, s) == Put(j, [GetJob(j) EXCEPT !.state = s])

\* The goals that a process finds in the database when it starts.
Loaded == {jobs[i].goal : i \in {k \in DOMAIN jobs : jobs[k].state \in Active}}

(* and goals                                                               *)

WithID(id)     == {g \in scienceGoals : g.id = id}
GoalsFor(n)    == {g \in scienceGoals : n \in g.nodes}
Without(id)    == scienceGoals \ WithID(id)

\* Whether u may change a job of `owner', possibly with override=true.
MayChange(u, owner) == u = owner \/ u \in SuperUsers

\* A goal made by the next successful validation.
NewGoal(j, nodes) == [id |-> goalCount + 1, job |-> j, nodes |-> nodes]

\* Mutant: an edited job keeps its state.
Stored_EditKeepsState(w) ==
  [w.rec EXCEPT !.state = IF w.op = "submit" THEN "Submitted" ELSE @]

\* The record that a writing request puts into the database.
Stored(w) ==
  [w.rec EXCEPT !.state = CASE w.op = "submit" -> "Submitted"
                            [] w.op = "edit"   -> "Drafted"
                            [] w.op = "dryrun" -> @]

-----------------------------------------------------------------------------
(* Requests                                                                *)

\* handlerCreateJob, AddJob.
CreateJob(u, S) ==
  /\ "create" \in Ops /\ Len(jobs) < MaxJobs
  /\ jobs' = Added([state |-> "Created", user |-> u, nodes |-> S, goal |-> NoGoal])
  /\ UNCHANGED <<goalCount, scienceGoals, chanFromGoalManager, request, main, restarts, streamVars>>

\* handlerSubmitJobs, POST: the new job is valid and is added.  Its goal was
\* made before the job had an ID, and is given the ID only afterwards.
SubmitNew(r, u, S) ==
  /\ "submitnew" \in Ops /\ Len(jobs) < MaxJobs /\ goalCount < MaxGoals
  /\ request[r] = Idle
  /\ LET rec == [state |-> "Created", user |-> u, nodes |-> S, goal |-> NewGoal(NoID, S)]
         id  == Len(jobs) + 1
     IN /\ jobs' = Added(rec)
        /\ request' = [request EXCEPT ![r] =
             [at |-> "store", op |-> "submit", job |-> id, rec |-> [rec EXCEPT !.goal.job = id]]]
  /\ goalCount' = goalCount + 1
  /\ UNCHANGED <<scienceGoals, chanFromGoalManager, main, restarts, streamVars>>

\* handlerSubmitJobs, GET, with or without dryrun: the job is read (twice; only
\* the owner is taken from the first record, and it never changes), and valid.
SubmitExisting(r, u, j, op) ==
  /\ op \in Ops /\ goalCount < MaxGoals
  /\ request[r] = Idle
  /\ MayChange(u, GetJob(j).user)
  /\ request' = [request EXCEPT ![r] =
       [at |-> "drop", op |-> op, job |-> j, old |-> GetJob(j).goal,
        rec |-> [GetJob(j) EXCEPT !.goal = NewGoal(j, GetJob(j).nodes)]]]
  /\ goalCount' = goalCount + 1
  /\ UNCHANGED <<jobs, scienceGoals, chanFromGoalManager, main, restarts, streamVars>>

\* Mutant: overriding an edit makes the editor the owner.
EditJob_TakesOver(r, u, j, S) ==
  /\ "edit" \in Ops
  /\ request[r] = Idle
  /\ MayChange(u, GetJob(j).user)
  /\ request' = [request EXCEPT ![r] =
       [at |-> "drop", op |-> "edit", job |-> j, old |-> GetJob(j).goal,
        rec |-> [GetJob(j) EXCEPT !.user = u, !.nodes = S, !.goal = NoGoal]]]
  /\ UNCHANGED <<jobs, goalCount, scienceGoals, chanFromGoalManager, main, restarts, streamVars>>

\* handlerEditJob: the body replaces the job, the owner stays.
EditJob(r, u, j, S) ==
  /\ "edit" \in Ops
  /\ request[r] = Idle
  /\ MayChange(u, GetJob(j).user)
  /\ request' = [request EXCEPT ![r] =
       [at |-> "drop", op |-> "edit", job |-> j, old |-> GetJob(j).goal,
        rec |-> [GetJob(j) EXCEPT !.nodes = S, !.goal = NoGoal]]]
  /\ UNCHANGED <<jobs, goalCount, scienceGoals, chanFromGoalManager, main, restarts, streamVars>>

\* Mutant: the goal that the job had is not dropped.
DropOldGoal_Kept(r) ==
  /\ request[r].at = "drop"
  /\ LET w == request[r]
     IN request' = [request EXCEPT ![r] =
          [at |-> "store", op |-> w.op, job |-> w.job, rec |-> w.rec]]
  /\ UNCHANGED <<jobs, goalCount, scienceGoals, chanFromGoalManager, main, restarts, streamVars>>

\* The goal that the record had is taken out of the map, if it is there.
DropOldGoal(r) ==
  /\ request[r].at = "drop"
  /\ LET w == request[r]
     IN /\ scienceGoals' = Without(w.old.id)
        /\ request' = [request EXCEPT ![r] =
             [at |-> "store", op |-> w.op, job |-> w.job, rec |-> w.rec]]
  /\ UNCHANGED <<jobs, goalCount, chanFromGoalManager, main, restarts, streamVars>>

\* UpdateJob, or SetRecord's put: the record replaces whatever is there now.
StoreJob(r) ==
  /\ request[r].at = "store"
  /\ LET w == request[r]
     IN /\ jobs' = Put(w.job, Stored(w))
        /\ request' = [request EXCEPT ![r] =
             IF w.op = "submit" THEN [at |-> "serve", goal |-> w.rec.goal] ELSE Idle]
  /\ UNCHANGED <<goalCount, scienceGoals, chanFromGoalManager, main, restarts, streamVars>>

\* UpdateScienceGoal of a submitted job.
ServeGoal(r) ==
  /\ request[r].at = "serve"
  /\ LET g == request[r].goal
     IN /\ scienceGoals' = Without(g.id) \cup {g}
        /\ request' = [request EXCEPT ![r] =
             [at |-> "notify", event |-> [type |-> "submitted", id |-> g.id]]]
  /\ UNCHANGED <<jobs, goalCount, chanFromGoalManager, main, restarts, streamVars>>

\* Mutant: a full channel does not block.
Notify_NeverBlocks(r) ==
  /\ request[r].at = "notify"
  /\ chanFromGoalManager' = Append(chanFromGoalManager, request[r].event)
  /\ request' = [request EXCEPT ![r] = Idle]
  /\ UNCHANGED <<jobs, goalCount, scienceGoals, main, restarts, streamVars>>

\* Notifier.Notify: blocks while the channel is full.
Notify(r) ==
  /\ request[r].at = "notify"
  /\ Len(chanFromGoalManager) < ChannelCap
  /\ chanFromGoalManager' = Append(chanFromGoalManager, request[r].event)
  /\ request' = [request EXCEPT ![r] = Idle]
  /\ UNCHANGED <<jobs, goalCount, scienceGoals, main, restarts, streamVars>>

\* handlerJobRemove with suspend=true, SuspendJob: one transaction, whatever
\* the state of the job.
SuspendJob(r, u, j) ==
  /\ "suspend" \in Ops
  /\ request[r] = Idle
  /\ MayChange(u, GetJob(j).user)
  /\ jobs' = InState(j, "Suspended")
  /\ request' = [request EXCEPT ![r] =
       [at |-> "notify", event |-> [type |-> "suspended", id |-> j]]]
  /\ UNCHANGED <<goalCount, scienceGoals, chanFromGoalManager, main, restarts, streamVars>>

\* handlerJobRemove, RemoveJob: a running job is removed by force only.
RemoveJob(r, u, j, op) ==
  /\ op \in Ops
  /\ request[r] = Idle
  /\ MayChange(u, GetJob(j).user)
  /\ GetJob(j).state = "Running" => op = "force"
  /\ jobs' = InState(j, "Removed")
  /\ request' = [request EXCEPT ![r] =
       [at |-> "notify", event |-> [type |-> "removed", id |-> GetJob(j).goal.id]]]
  /\ UNCHANGED <<goalCount, scienceGoals, chanFromGoalManager, main, restarts, streamVars>>

\* handleDataJobs, POST, SetRecord: an administrator overwrites a record; here
\* its state.  Nothing else is told.
SetRecord(j, s) ==
  /\ s \in RecordStates /\ main.at # "crashed"
  /\ jobs[j].state # s
  /\ jobs' = InState(j, s)
  /\ UNCHANGED <<goalCount, scienceGoals, chanFromGoalManager, request, main, restarts, streamVars>>

-----------------------------------------------------------------------------
(* The main goroutine                                                      *)

\* It has received e, which leads to an update of the nodes of the goals G.
Announce(G) ==
  /\ chanFromGoalManager' = Tail(chanFromGoalManager)
  /\ main' = IF G = {} THEN Selecting
             ELSE [at |-> "update", nodes |-> UNION {g.nodes : g \in G}]

Receives(type) ==
  /\ main.at = "select"
  /\ chanFromGoalManager # <<>>
  /\ Head(chanFromGoalManager).type = type

\* Mutant: the goal of a removed job is announced and kept.
HandleRemoved_Kept ==
  /\ Receives("removed")
  /\ Announce(WithID(Head(chanFromGoalManager).id))
  /\ UNCHANGED <<jobs, goalCount, scienceGoals, request, restarts, streamVars>>

\* EventJobStatusRemoved carries the goal the job had when it was removed.
HandleRemoved ==
  /\ Receives("removed")
  /\ LET id == Head(chanFromGoalManager).id
     IN Announce(WithID(id)) /\ scienceGoals' = Without(id)
  /\ UNCHANGED <<jobs, goalCount, request, restarts, streamVars>>

\* EventJobStatusSuspended carries the job, whose goal is looked up only now.
HandleSuspended ==
  /\ Receives("suspended")
  /\ LET id == GetJob(Head(chanFromGoalManager).id).goal.id
     IN Announce(WithID(id)) /\ scienceGoals' = Without(id)
  /\ UNCHANGED <<jobs, goalCount, request, restarts, streamVars>>

\* EventGoalStatusSubmitted.
HandleSubmitted ==
  /\ Receives("submitted")
  /\ Announce(WithID(Head(chanFromGoalManager).id))
  /\ UNCHANGED <<jobs, goalCount, scienceGoals, request, restarts, streamVars>>

\* updateNodes, one iteration: Push does not block.
UpdateNode(n) ==
  /\ main.at = "update" /\ n \in main.nodes
  /\ main' = IF main.nodes = {n} THEN Selecting ELSE [main EXCEPT !.nodes = @ \ {n}]
  /\ pushed' = PushTo(n)
  /\ UNCHANGED <<jobs, goalCount, scienceGoals, chanFromGoalManager, request, restarts>>
  /\ UNCHANGED <<handler, wire, client, nodeGoals, streamFaults>>

\* The process starts: the goals of active jobs are loaded from the database.
\* A job without a goal would be a nil dereference in UpdateScienceGoal.
StartUp ==
  /\ IF NoGoal \in Loaded
     THEN main' = [at |-> "crashed", nodes |-> {}] /\ scienceGoals' = {}
     ELSE main' = Selecting /\ scienceGoals' = Loaded
  /\ chanFromGoalManager' = <<>>
  /\ request' = [r \in Request |-> Idle]
  /\ restarts' = restarts + 1
  /\ StreamReset
  /\ UNCHANGED <<jobs, goalCount>>

Restart ==
  /\ restarts < MaxRestarts
  /\ StartUp

\* A node reports a goal.  rmq.go:236 sends a pointer to the event, which the
\* assertion in cloudscheduler.go:288 turns into a panic of the main goroutine:
\* the process dies, and is started again.
NodeEvent(n) ==
  /\ RabbitMQ
  /\ restarts < MaxRestarts
  /\ main.at = "select"
  /\ nodeGoals[n] # {}
  /\ StartUp

-----------------------------------------------------------------------------
\* HTTP goroutines that have begun, by themselves.
RequestStep(r) == DropOldGoal(r) \/ StoreJob(r) \/ ServeGoal(r) \/ Notify(r)

UserRequest ==
  /\ main.at # "crashed"
  /\ \E u \in Users :
       \/ \E S \in NodeSets : CreateJob(u, S) \/ \E r \in Request : SubmitNew(r, u, S)
       \/ \E r \in Request, j \in DOMAIN jobs :
            \/ \E op \in {"submit", "dryrun"} : SubmitExisting(r, u, j, op)
            \/ \E S \in NodeSets : EditJob(r, u, j, S)
            \/ SuspendJob(r, u, j)
            \/ \E op \in {"remove", "force"} : RemoveJob(r, u, j, op)

MainStep ==
  \/ HandleRemoved \/ HandleSuspended \/ HandleSubmitted
  \/ \E n \in Nodes : UpdateNode(n)

Stream(n) ==
  \/ main.at # "crashed" /\ Connect(n) /\ UNCHANGED cloudVars
  \/ StreamStep(n) /\ UNCHANGED cloudVars
  \/ ListGoals(n, GoalsFor(n)) /\ UNCHANGED cloudVars

Next ==
  \/ UserRequest
  \/ \E r \in Request : RequestStep(r)
  \/ MainStep
  \/ \E n \in Nodes : Stream(n)
  \/ \E n \in Nodes : LoseConnection(n) /\ UNCHANGED cloudVars
  \/ \E n \in Nodes : NodeEvent(n)
  \/ \E j \in DOMAIN jobs, s \in JobState : SetRecord(j, s)
  \/ Restart

\* Handlers that began go on, main receives what is sent to it, and handlers
\* and subscriptions of streams run: the Go scheduler starves nobody, and a full
\* channel queues its senders, whence the strong fairness.  Nothing is assumed
\* of users, faults, node events and restarts.
Fairness ==
  /\ WF_vars(MainStep)
  /\ \A r \in Request : WF_vars(RequestStep(r)) /\ SF_vars(Notify(r))
  /\ \A n \in Nodes : WF_vars(Stream(n))

Spec     == Init /\ [][Next]_vars
FairSpec == Spec /\ Fairness
=============================================================================
