-------------------------- MODULE CloudGoalProofs --------------------------
(***************************************************************************)
(* What the cloud scheduler promises about the goals of its jobs, for all  *)
(* nodes, users and bounds: it implements GoalAssignment when requests are *)
(* handled one after the other, and the streams to the nodes are current   *)
(* when nothing is under way, with any number of requests at a time.       *)
(***************************************************************************)
EXTENDS CloudSchedulerProofs

-----------------------------------------------------------------------------
(* The refinement of GoalAssignment: its variables and the invariant       *)

\* The two variables of GoalAssignment, as Assignment maps them.
Current == [j \in JobID |-> IF j \in DOMAIN jobs THEN jobs[j].goal.id ELSE NoID]
Served  == {g.id : g \in scienceGoals}

\* No two jobs have the same goal.
Distinct ==
  /\ \A i \in JobID : Current[i] <= goalCount
  /\ \A i, k \in JobID : Current[i] = Current[k] /\ Current[i] # NoID => i = k

\* The goal that a request is about to give to its job is no other job's.
Fresh(r) ==
  LET q == request[r]
  IN q.at \in {"drop", "store"} =>
       /\ q.rec.goal.id <= goalCount
       /\ \A i \in JobID : i # q.job /\ Current[i] = q.rec.goal.id => Current[i] = NoID

AssignInv == ServeInv /\ Distinct /\ \A r \in Request : Fresh(r)

-----------------------------------------------------------------------------
(* The mapping                                                             *)

\* The types of what the mapping gives.
LEMMA MappedFacts ==
  ASSUME RequestInv
  PROVE  /\ Current \in [JobID -> GoalID \cup {NoID}]
         /\ \A j \in DOMAIN jobs : j \in JobID /\ Current[j] = jobs[j].goal.id
         /\ Served \subseteq GoalID
<1>1. \A j \in DOMAIN jobs : j \in JobID /\ jobs[j] \in Job
  BY JobFacts DEF RequestInv, TypeOK
<1>2. \A j \in DOMAIN jobs : jobs[j].goal \in Goal \cup {NoGoal}
  BY <1>1 DEF Job
<1>3. \A j \in DOMAIN jobs : jobs[j].goal.id \in GoalID \cup {NoID}
  BY <1>2 DEF Goal, NoGoal
<1>4. Served \subseteq GoalID
  BY DEF Served, RequestInv, TypeOK, Goal
<1> QED  BY <1>1, <1>3, <1>4 DEF Current

\* Jobs that are new or keep their goals leave the mapping as it is.
LEMMA CurrentKept ==
  ASSUME GoalsKept, \A j \in DOMAIN jobs' \ DOMAIN jobs : jobs'[j].goal.id = NoID
  PROVE  Current' = Current
BY DEF Current, GoalsKept

\* One job gets a goal.
LEMMA CurrentSet ==
  ASSUME NEW j \in JobID, NEW id, DOMAIN jobs' = DOMAIN jobs \cup {j},
         jobs'[j].goal.id = id,
         \A i \in DOMAIN jobs \ {j} : jobs'[i].goal.id = jobs[i].goal.id
  PROVE  Current' = [Current EXCEPT ![j] = id]
BY DEF Current

\* The steps of GoalAssignment, with the mapping.
LEMMA RevisesOnly ==
  ASSUME NEW j \in JobID, NEW id \in GoalID \cup {NoID}, Current[j] \notin Served,
         Current' = [Current EXCEPT ![j] = id], Served' = Served
  PROVE  Assignment!Next
<1>1. Assignment!Revise(j, id)
  BY DEF Assignment!Revise, Current, Served
<1> QED  BY <1>1 DEF Assignment!Next

LEMMA ServesOnly ==
  ASSUME NEW j \in JobID, Current[j] # NoID,
         Served' = Served \cup {Current[j]}, Current' = Current
  PROVE  Assignment!Next
<1>1. Assignment!Serve(j)
  BY DEF Assignment!Serve, Current, Served
<1> QED  BY <1>1 DEF Assignment!Next

LEMMA WithdrawsOnly ==
  ASSUME NEW id \in GoalID, Served' = Served \ {id}, Current' = Current
  PROVE  Assignment!Next
<1>1. Assignment!Withdraw(id)
  BY DEF Assignment!Withdraw, Current, Served
<1> QED  BY <1>1 DEF Assignment!Next

LEMMA ReloadsOnly ==
  ASSUME Served' \subseteq {Current[j] : j \in JobID} \ {NoID}, Current' = Current
  PROVE  Assignment!Next
<1>1. Assignment!Reload
  BY DEF Assignment!Reload, Assignment!CurrentGoals, Current, Served
<1> QED  BY <1>1 DEF Assignment!Next

LEMMA Stutters ==
  ASSUME Current' = Current, Served' = Served
  PROVE  UNCHANGED Assignment!assignmentVars
BY DEF Assignment!assignmentVars, Current, Served

\* A step, or none, of GoalAssignment.
AssignStep == [Assignment!Next]_(Assignment!assignmentVars)

\* A goal is taken out of the map of goals, if it is there.
LEMMA DropsGoal ==
  ASSUME RequestInv, NEW id \in GoalID \cup {NoID}, scienceGoals' = Without(id),
         Current' = Current
  PROVE  AssignStep
<1>1. Served' = Served \ {id}
  BY DEF Served, Without, WithID
<1>2. CASE id \in GoalID
  BY <1>1, <1>2, WithdrawsOnly DEF AssignStep
<1>3. CASE id \notin GoalID
  <2>1. Served' = Served
    BY <1>1, <1>3, MappedFacts
  <2> QED  BY <2>1, Stutters DEF AssignStep
<1> QED  BY <1>2, <1>3

\* Steps that change neither jobs' goals nor requests keep the invariant.
LEMMA AssignElsewhere ==
  ASSUME AssignInv, ServeInv', Current' = Current, goalCount' = goalCount,
         request' = request
  PROVE  AssignInv'
<1>1. Distinct'
  BY DEF AssignInv, Distinct
<1>2. \A r \in Request : Fresh(r)'
  BY DEF AssignInv, Fresh
<1> QED  BY <1>1, <1>2 DEF AssignInv

\* Steps of the only request keep it when they keep its parts.
LEMMA AssignMoved ==
  ASSUME Sequential, NEW r \in Request, ServeInv', Distinct', Fresh(r)'
  PROVE  AssignInv'
BY DEF Sequential, AssignInv

\* A request with nothing left to store.
LEMMA FreshDone ==
  ASSUME NEW r, request'[r].at \notin {"drop", "store"}
  PROVE  Fresh(r)'
BY DEF Fresh

\* A validation makes a goal that no job has.
LEMMA MadeFacts ==
  ASSUME AssignInv, goalCount' = goalCount + 1
  PROVE  /\ \A i \in JobID : Current[i] <= goalCount' /\ Current[i] # goalCount'
         /\ goalCount \in Nat /\ \A i \in JobID : Current[i] \in Nat
<1>1. goalCount \in Nat
  BY CloudAssumption DEF AssignInv, ServeInv, StartInv, RequestInv, TypeOK
<1>2. \A i \in JobID : Current[i] \in Nat /\ Current[i] <= goalCount
  <2>1. Current \in [JobID -> GoalID \cup {NoID}]
    BY MappedFacts DEF AssignInv, ServeInv, StartInv
  <2> QED  BY <2>1, CloudAssumption DEF GoalID, NoID, AssignInv, Distinct
<1> QED  BY <1>1, <1>2

\* handlerCreateJob.
LEMMA AssignCreateJob ==
  ASSUME AssignInv, ServeInv', NEW u \in Users, NEW S \in NodeSets, CreateJob(u, S)
  PROVE  AssignInv' /\ AssignStep
<1> DEFINE rec == [state |-> "Created", user |-> u, nodes |-> S, goal |-> NoGoal]
<1>1. rec \in Job /\ rec.goal.id = NoID
  BY CloudAssumption DEF Job, JobState, NoGoal
<1>2. /\ jobs' = Added(rec) /\ request' = request
      /\ scienceGoals' = scienceGoals /\ goalCount' = goalCount
  BY DEF CreateJob
<1> HIDE DEF rec
<1>3. jobs \in Seq(Job) /\ Len(jobs) \in Nat /\ RequestInv
  BY LenProperties DEF AssignInv, ServeInv, StartInv, RequestInv, TypeOK
<1>4. /\ DOMAIN jobs = 1..Len(jobs) /\ DOMAIN jobs' = 1..(Len(jobs) + 1)
      /\ jobs'[Len(jobs) + 1] = rec
  BY <1>1, <1>2, <1>3, AddedFacts
<1>5. GoalsKept
  BY <1>1, <1>2, <1>3, GoalsAdded
<1>6. Current' = Current
  <2>1. \A j \in DOMAIN jobs' \ DOMAIN jobs : j = Len(jobs) + 1
    BY <1>3, <1>4
  <2> QED  BY <1>1, <1>4, <1>5, <2>1, CurrentKept
<1>7. Served' = Served
  BY <1>2 DEF Served
<1> QED  BY <1>2, <1>6, <1>7, AssignElsewhere, Stutters DEF AssignStep

\* handlerSubmitJobs with a new job revises the goal of the job.
LEMMA AssignSubmitNew ==
  ASSUME Sequential, AssignInv, ServeInv', NEW r \in Request, NEW u \in Users,
         NEW S \in NodeSets, SubmitNew(r, u, S)
  PROVE  AssignInv' /\ AssignStep
<1> DEFINE id  == Len(jobs) + 1
           g   == NewGoal(NoID, S)
           rec == [state |-> "Created", user |-> u, nodes |-> S, goal |-> g]
           own == [rec EXCEPT !.goal.job = id]
           q   == [at |-> "store", op |-> "submit", job |-> id, rec |-> own]
<1>1. /\ jobs \in Seq(Job) /\ Len(jobs) \in Nat /\ Len(jobs) < MaxJobs /\ RequestInv
      /\ goalCount \in 0..MaxGoals /\ goalCount < MaxGoals /\ S \in SUBSET Nodes
  BY LenProperties, CloudAssumption
  DEF SubmitNew, AssignInv, ServeInv, StartInv, RequestInv, TypeOK
<1>2. id \in JobID
  BY <1>1, CloudAssumption DEF JobID
<1>3. g \in Goal /\ g.id = goalCount + 1
  BY <1>1, NewGoalFacts
<1>4. /\ jobs' = Added(rec) /\ request' = [request EXCEPT ![r] = q]
      /\ goalCount' = goalCount + 1 /\ scienceGoals' = scienceGoals
  BY DEF SubmitNew
<1> HIDE DEF g
<1>5. rec \in Job /\ rec.goal.id = goalCount'
  BY <1>1, <1>3, <1>4 DEF Job, JobState
<1>6. own.goal.id = goalCount'
  BY <1>3, <1>4 DEF Goal
<1> HIDE DEF rec, own
<1>7. request'[r] = q
  BY <1>1, <1>4 DEF RequestInv, TypeOK
<1>8. request'[r].job = id /\ request'[r].rec.goal.id = goalCount'
  BY <1>6, <1>7
<1>9. /\ DOMAIN jobs = 1..Len(jobs) /\ DOMAIN jobs' = 1..id
      /\ \A i \in DOMAIN jobs : jobs'[i] = jobs[i]
      /\ jobs'[id] = rec
  BY <1>1, <1>4, <1>5, AddedFacts
<1>10. Current' = [Current EXCEPT ![id] = goalCount'] /\ Current[id] = NoID
  <2>1. DOMAIN jobs' = DOMAIN jobs \cup {id} /\ id \notin DOMAIN jobs
    BY <1>1, <1>9
  <2>2. Current' = [Current EXCEPT ![id] = goalCount']
    BY <1>2, <1>5, <1>9, <2>1, CurrentSet
  <2> QED  BY <1>2, <2>1, <2>2 DEF Current
<1> HIDE DEF id, q
<1>11. \A i \in JobID : Current'[i] = IF i = id THEN goalCount' ELSE Current[i]
  BY <1>1, <1>2, <1>10, MappedFacts
<1>12. Distinct'
  BY <1>4, <1>11, MadeFacts, <1>1 DEF Distinct, AssignInv
<1>13. Fresh(r)'
  BY <1>4, <1>8, <1>11, MadeFacts, <1>1 DEF Fresh
<1>14. AssignStep
  <2>1. goalCount' \in GoalID
    BY <1>1, <1>4, CloudAssumption DEF GoalID
  <2>2. Current[id] \notin Served
    BY <1>1, <1>10, MappedFacts DEF GoalID, NoID
  <2>3. Served' = Served
    BY <1>4 DEF Served
  <2> QED  BY <1>2, <1>10, <2>1, <2>2, <2>3, RevisesOnly DEF AssignStep
<1> QED  BY <1>12, <1>13, <1>14, AssignMoved

\* A job is read and validated, for submission or a dry run.
LEMMA AssignSubmitExisting ==
  ASSUME Sequential, AssignInv, ServeInv', NEW r \in Request, NEW u \in Users,
         NEW j \in DOMAIN jobs, NEW op \in {"submit", "dryrun"}, SubmitExisting(r, u, j, op)
  PROVE  AssignInv' /\ AssignStep
<1> DEFINE g   == NewGoal(j, jobs[j].nodes)
           rec == [jobs[j] EXCEPT !.goal = g]
           q   == [at |-> "drop", op |-> op, job |-> j, old |-> jobs[j].goal, rec |-> rec]
<1>1. jobs[j] \in Job /\ RequestInv
  BY JobFacts DEF AssignInv, ServeInv, StartInv, RequestInv, TypeOK
<1>2. g.id = goalCount + 1
  BY DEF NewGoal
<1>3. /\ request' = [request EXCEPT ![r] = q] /\ jobs' = jobs
      /\ goalCount' = goalCount + 1 /\ scienceGoals' = scienceGoals
  BY DEF SubmitExisting, GetJob
<1> HIDE DEF g
<1>4. rec.goal.id = goalCount'
  BY <1>1, <1>2, <1>3 DEF Job
<1> HIDE DEF rec
<1>5. request'[r] = q
  BY <1>1, <1>3 DEF RequestInv, TypeOK
<1>6. request'[r].rec.goal.id = goalCount'
  BY <1>4, <1>5
<1> HIDE DEF q
<1>7. Current' = Current /\ Served' = Served
  BY <1>3 DEF Current, Served
<1>8. goalCount' \in Nat
  BY <1>3, MadeFacts
<1>9. Distinct'
  BY <1>3, <1>7, MadeFacts DEF Distinct, AssignInv
<1>10. Fresh(r)'
  BY <1>3, <1>6, <1>7, <1>8, MadeFacts DEF Fresh
<1> QED  BY <1>7, <1>9, <1>10, AssignMoved, Stutters DEF AssignStep

\* A job is read for an edit: it will have no goal.
LEMMA AssignEditJob ==
  ASSUME Sequential, AssignInv, ServeInv', NEW r \in Request, NEW u \in Users,
         NEW j \in DOMAIN jobs, NEW S \in NodeSets, EditJob(r, u, j, S)
  PROVE  AssignInv' /\ AssignStep
<1> DEFINE rec == [jobs[j] EXCEPT !.nodes = S, !.goal = NoGoal]
           q   == [at |-> "drop", op |-> "edit", job |-> j, old |-> jobs[j].goal, rec |-> rec]
<1>1. jobs[j] \in Job /\ RequestInv /\ goalCount \in Nat
  BY JobFacts, CloudAssumption DEF AssignInv, ServeInv, StartInv, RequestInv, TypeOK
<1>2. /\ request' = [request EXCEPT ![r] = q] /\ jobs' = jobs
      /\ goalCount' = goalCount /\ scienceGoals' = scienceGoals
  BY DEF EditJob, GetJob
<1>3. rec.goal.id = NoID
  BY <1>1 DEF Job, NoGoal
<1> HIDE DEF rec
<1>4. request'[r] = q
  BY <1>1, <1>2 DEF RequestInv, TypeOK
<1>5. request'[r].rec.goal.id = NoID
  BY <1>3, <1>4
<1> HIDE DEF q
<1>6. Current' = Current /\ Served' = Served
  BY <1>2 DEF Current, Served
<1>7. Distinct'
  BY <1>2, <1>6 DEF Distinct, AssignInv
<1>8. Fresh(r)'
  BY <1>1, <1>2, <1>5, <1>6 DEF Fresh, NoID
<1> QED  BY <1>6, <1>7, <1>8, AssignMoved, Stutters DEF AssignStep

\* A job is suspended or removed: its goal stays in the database.
LEMMA AssignWithdraw ==
  ASSUME Sequential, AssignInv, ServeInv', NEW r \in Request, NEW u \in Users,
         NEW j \in DOMAIN jobs,
         SuspendJob(r, u, j) \/ \E op \in {"remove", "force"} : RemoveJob(r, u, j, op)
  PROVE  AssignInv' /\ AssignStep
<1>1. /\ jobs' = InState(j, "Suspended") \/ jobs' = InState(j, "Removed")
      /\ scienceGoals' = scienceGoals /\ goalCount' = goalCount
  BY DEF SuspendJob, RemoveJob
<1>2. RequestInv
  BY DEF AssignInv, ServeInv, StartInv
<1>3. GoalsKept /\ DOMAIN jobs' = DOMAIN jobs
  <2>1. GoalsKept
    BY <1>1, <1>2, GoalsInState DEF JobState
  <2> QED  BY <1>1, <2>1 DEF InState, Put
<1>4. Current' = Current /\ Served' = Served
  BY <1>1, <1>3, CurrentKept DEF Served
<1>5. request'[r].at = "notify"
  BY <1>2 DEF SuspendJob, RemoveJob, RequestInv, TypeOK
<1>6. Distinct'
  BY <1>1, <1>4 DEF Distinct, AssignInv
<1> QED  BY <1>4, <1>5, <1>6, FreshDone, AssignMoved, Stutters DEF AssignStep

\* The goal that the record had is withdrawn.
LEMMA AssignDropOldGoal ==
  ASSUME Sequential, AssignInv, ServeInv', NEW r \in Request, DropOldGoal(r)
  PROVE  AssignInv' /\ AssignStep
<1> DEFINE w == request[r]
<1>1. RequestInv /\ w \in RequestState /\ w.at = "drop"
  BY DEF DropOldGoal, AssignInv, ServeInv, StartInv, RequestInv, TypeOK
<1>2. w.old \in Goal \cup {NoGoal}
  BY <1>1, RequestFacts
<1>3. w.old.id \in GoalID \cup {NoID}
  BY <1>2 DEF Goal, NoGoal
<1>4. /\ jobs' = jobs /\ goalCount' = goalCount /\ scienceGoals' = Without(w.old.id)
      /\ request'[r].job = w.job /\ request'[r].rec = w.rec
  BY <1>1 DEF DropOldGoal, RequestInv, TypeOK
<1>5. Current' = Current
  BY <1>4 DEF Current
<1>6. AssignStep
  BY <1>1, <1>3, <1>4, <1>5, DropsGoal
<1>7. Distinct' /\ Fresh(r)'
  BY <1>1, <1>4, <1>5 DEF Distinct, Fresh, AssignInv
<1> QED  BY <1>6, <1>7, AssignMoved

\* The goal of a job is revised when none of its goals is served.
LEMMA AssignStoreJob ==
  ASSUME Sequential, AssignInv, ServeInv', NEW r \in Request, StoreJob(r)
  PROVE  AssignInv' /\ AssignStep
<1> DEFINE w  == request[r]
           j  == w.job
           id == w.rec.goal.id
<1>1. /\ RequestInv /\ w \in RequestState /\ w.at = "store" /\ Prepared(r)
      /\ Fresh(r) /\ Exclusive(r)
  BY DEF StoreJob, AssignInv, ServeInv, StartInv, RequestInv, TypeOK
<1>2. /\ w.op \in {"submit", "dryrun", "edit"} /\ w.rec \in Job /\ j \in DOMAIN jobs
      /\ id <= goalCount
      /\ \A i \in JobID : i # j /\ Current[i] = id => Current[i] = NoID
      /\ \A g \in scienceGoals : g.job # j
  BY <1>1, RequestFacts DEF Prepared, Fresh, Exclusive
<1>3. id \in GoalID \cup {NoID}
  <2>1. w.rec.goal \in Goal \cup {NoGoal}
    BY <1>2 DEF Job
  <2> QED  BY <2>1 DEF Goal, NoGoal
<1>4. /\ jobs' = Put(j, Stored(w)) /\ scienceGoals' = scienceGoals
      /\ goalCount' = goalCount
      /\ request'[r].at \notin {"drop", "store"}
  BY <1>1 DEF StoreJob, RequestInv, TypeOK, Idle
<1> DEFINE rec == Stored(w)
<1>5. rec \in Job /\ rec.goal.id = id
  BY <1>2, StoredFacts
<1>6. jobs \in Seq(Job) /\ j \in JobID
  BY <1>1, <1>2, MappedFacts DEF RequestInv, TypeOK
<1>7. jobs' = Put(j, rec)
  BY <1>4
<1> HIDE DEF rec, j, id, w
<1>8. /\ DOMAIN jobs' = DOMAIN jobs
      /\ \A i \in DOMAIN jobs : jobs'[i] = IF i = j THEN rec ELSE jobs[i]
  BY <1>2, <1>5, <1>6, <1>7, PutFacts
<1>9. Current' = [Current EXCEPT ![j] = id]
  BY <1>2, <1>5, <1>6, <1>8, CurrentSet
<1>10. \A i \in JobID : Current'[i] = IF i = j THEN id ELSE Current[i]
  BY <1>1, <1>6, <1>9, MappedFacts
<1>11. Distinct'
  BY <1>2, <1>4, <1>10 DEF Distinct, AssignInv
<1>12. Current[j] \notin Served
  <2> SUFFICES ASSUME NEW g \in scienceGoals, g.id = Current[j] PROVE FALSE
    BY DEF Served
  <2>1. g.job \in DOMAIN jobs /\ jobs[g.job].goal = g
    BY DEF AssignInv, ServeInv, ServedIsCurrent
  <2>2. g.job \in JobID /\ Current[g.job] = g.id /\ g.id # NoID
    BY <1>1, <2>1, MappedFacts DEF Served, GoalID, NoID
  <2>3. g.job = j
    BY <1>6, <2>2 DEF AssignInv, Distinct
  <2> QED  BY <1>2, <2>3
<1>13. AssignStep
  <2>1. Served' = Served
    BY <1>4 DEF Served
  <2> QED  BY <1>3, <1>6, <1>9, <1>12, <2>1, RevisesOnly DEF AssignStep
<1> QED  BY <1>4, <1>11, <1>13, FreshDone, AssignMoved

\* The current goal of the job is served.
LEMMA AssignServeGoal ==
  ASSUME Sequential, AssignInv, ServeInv', NEW r \in Request, ServeGoal(r)
  PROVE  AssignInv' /\ AssignStep
<1> DEFINE g == request[r].goal
<1>1. /\ RequestInv /\ g \in Goal /\ g.job \in DOMAIN jobs /\ jobs[g.job].goal = g
  BY DEF ServeGoal, AssignInv, ServeInv, StartInv, RequestInv, Prepared, Exclusive
<1>2. /\ jobs' = jobs /\ goalCount' = goalCount /\ scienceGoals' = Without(g.id) \cup {g}
      /\ request'[r].at = "notify"
  BY <1>1 DEF ServeGoal, RequestInv, TypeOK
<1> HIDE DEF g
<1>3. g.job \in JobID /\ Current[g.job] = g.id /\ g.id # NoID
  BY <1>1, MappedFacts DEF Goal, GoalID, NoID
<1>4. Current' = Current
  BY <1>2 DEF Current
<1>5. Served' = Served \cup {Current[g.job]}
  BY <1>2, <1>3 DEF Served, Without, WithID
<1>6. AssignStep
  BY <1>3, <1>4, <1>5, ServesOnly DEF AssignStep
<1>7. Distinct'
  BY <1>2, <1>4 DEF Distinct, AssignInv
<1> QED  BY <1>2, <1>6, <1>7, FreshDone, AssignMoved

\* An event is sent.
LEMMA AssignNotify ==
  ASSUME Sequential, AssignInv, ServeInv', NEW r \in Request, Notify(r)
  PROVE  AssignInv' /\ AssignStep
<1>1. /\ jobs' = jobs /\ goalCount' = goalCount /\ scienceGoals' = scienceGoals
      /\ request'[r].at = "idle"
  BY DEF Notify, Idle, AssignInv, ServeInv, StartInv, RequestInv, TypeOK
<1>2. Current' = Current /\ Served' = Served
  BY <1>1 DEF Current, Served
<1>3. Distinct'
  BY <1>1, <1>2 DEF Distinct, AssignInv
<1> QED  BY <1>1, <1>2, <1>3, FreshDone, AssignMoved, Stutters DEF AssignStep

\* The main goroutine withdraws goals, or leaves them.
LEMMA AssignMainStep ==
  ASSUME AssignInv, ServeInv', MainStep
  PROVE  AssignInv' /\ AssignStep
<1>1. RequestInv
  BY DEF AssignInv, ServeInv, StartInv
<1>2. jobs' = jobs /\ goalCount' = goalCount /\ request' = request
  BY DEF MainStep, HandleRemoved, HandleSuspended, HandleSubmitted, UpdateNode
<1>3. Current' = Current
  BY <1>2 DEF Current
<1>4. AssignStep
  <2>1. CASE HandleRemoved
    <3>1. Head(chanFromGoalManager) \in Event
      BY <1>1, <2>1, ChannelFacts DEF HandleRemoved, Receives, RequestInv, TypeOK
    <3>2. Head(chanFromGoalManager).id \in GoalID \cup {NoID}
      BY <2>1, <3>1 DEF HandleRemoved, Receives, Event
    <3> QED  BY <1>1, <1>3, <2>1, <3>2, DropsGoal DEF HandleRemoved
  <2>2. CASE HandleSuspended
    <3> DEFINE j == Head(chanFromGoalManager).id
               id == jobs[j].goal.id
    <3>1. scienceGoals' = Without(id)
      BY <2>2 DEF HandleSuspended, GetJob
    <3>2. CASE id \in GoalID \cup {NoID}
      <4> HIDE DEF id
      <4> QED  BY <1>1, <1>3, <3>1, <3>2, DropsGoal
    <3>3. CASE id \notin GoalID \cup {NoID}
      <4>1. WithID(id) = {}
        BY <1>1, <3>3 DEF WithID, RequestInv, TypeOK, Goal
      <4>2. Served' = Served
        BY <3>1, <4>1 DEF Served, Without
      <4> QED  BY <1>3, <4>2, Stutters DEF AssignStep
    <3> QED  BY <3>2, <3>3
  <2>3. CASE HandleSubmitted \/ \E n \in Nodes : UpdateNode(n)
    <3>1. Served' = Served
      BY <2>3 DEF HandleSubmitted, UpdateNode, Served
    <3> QED  BY <1>3, <3>1, Stutters DEF AssignStep
  <2> QED  BY <2>1, <2>2, <2>3 DEF MainStep
<1> QED  BY <1>2, <1>3, <1>4, AssignElsewhere

\* The process starts again and serves the goals of active jobs.
LEMMA AssignStartUp ==
  ASSUME AssignInv, ServeInv', StartUp
  PROVE  AssignInv' /\ AssignStep
<1>1. RequestInv /\ StartInv
  BY DEF AssignInv, ServeInv, StartInv
<1>2. /\ jobs' = jobs /\ goalCount' = goalCount /\ scienceGoals' = Loaded
      /\ request' = [r \in Request |-> Idle]
  BY <1>1, LoadedHaveGoals DEF StartUp
<1>3. Current' = Current
  BY <1>2 DEF Current
<1>4. Served' \subseteq {Current[j] : j \in JobID} \ {NoID}
  <2> SUFFICES ASSUME NEW g \in Loaded PROVE g.id \in {Current[j] : j \in JobID} \ {NoID}
    BY <1>2 DEF Served
  <2>1. PICK i \in DOMAIN jobs : g = jobs[i].goal
    BY <1>1, LoadedFacts
  <2>2. i \in JobID /\ Current[i] = g.id
    BY <1>1, <2>1, MappedFacts
  <2>3. g \in Goal
    BY <1>1, LoadedFacts, LoadedHaveGoals
  <2> QED  BY <2>2, <2>3 DEF Goal, GoalID, NoID
<1>5. AssignStep
  BY <1>3, <1>4, ReloadsOnly DEF AssignStep
<1>6. Distinct'
  BY <1>2, <1>3 DEF Distinct, AssignInv
<1>7. \A r \in Request : Fresh(r)'
  BY <1>2, FreshDone DEF Idle
<1> QED  BY <1>5, <1>6, <1>7 DEF AssignInv

\* Every step.
LEMMA AssignNext ==
  ASSUME Sequential, InactiveRecords, AssignInv, [Next]_vars
  PROVE  AssignInv' /\ AssignStep
<1>1. ServeInv'
  BY ServeNext DEF AssignInv
<1>2. CASE UserRequest
  BY <1>1, <1>2, AssignCreateJob, AssignSubmitNew, AssignSubmitExisting, AssignEditJob,
     AssignWithdraw DEF UserRequest
<1>3. CASE \E r \in Request : RequestStep(r)
  BY <1>1, <1>3, AssignDropOldGoal, AssignStoreJob, AssignServeGoal, AssignNotify
  DEF RequestStep
<1>4. CASE MainStep
  BY <1>1, <1>4, AssignMainStep
<1>5. CASE UNCHANGED cloudVars
  <2>1. Current' = Current /\ Served' = Served
    BY <1>5 DEF cloudVars, Current, Served
  <2> QED  BY <1>1, <1>5, <2>1, AssignElsewhere, Stutters DEF cloudVars, AssignStep
<1>6. CASE StartUp
  BY <1>1, <1>6, AssignStartUp
<1>7. ASSUME NEW j \in DOMAIN jobs, NEW st \in JobState, SetRecord(j, st)
      PROVE  AssignInv' /\ AssignStep
  <2>1. /\ jobs' = InState(j, st)
        /\ UNCHANGED <<goalCount, scienceGoals, request>>
    BY <1>7 DEF SetRecord
  <2>2. RequestInv
    BY DEF AssignInv, ServeInv, StartInv
  <2>3. GoalsKept
    BY <2>1, <2>2, GoalsInState
  <2>4. DOMAIN jobs' = DOMAIN jobs
    BY <2>1 DEF InState, Put
  <2>5. Current' = Current /\ Served' = Served
    BY <2>1, <2>3, <2>4, CurrentKept DEF Served
  <2> QED  BY <1>1, <2>1, <2>5, AssignElsewhere, Stutters DEF AssignStep
<1>8. ASSUME \E n \in Nodes : Stream(n) \/ (LoseConnection(n) /\ UNCHANGED cloudVars)
      PROVE  UNCHANGED cloudVars
  BY <1>8 DEF Stream
<1>9. UNCHANGED vars => UNCHANGED cloudVars
  BY DEF vars
<1> QED
  BY <1>2, <1>3, <1>4, <1>5, <1>6, <1>7, <1>8, <1>9 DEF Next, Restart, NodeEvent

\* The cloud scheduler implements GoalAssignment: whatever the order of requests,
\* events, streams and restarts, a job has one current goal, only that goal is
\* ever served, and it is given up before the next one takes its place, as
\* handlerSubmitJobs, handlerEditJob, SuspendJob, RemoveJob and Run intend.
THEOREM AssignmentHolds ==
  ASSUME Sequential, InactiveRecords
  PROVE  Spec => AssignmentImplemented
<1>1. Init => AssignInv
  <2> SUFFICES ASSUME Init PROVE AssignInv
    OBVIOUS
  <2>1. StartInv
    BY InvInit DEF StartInv, ActiveHaveGoals, Init, Selecting
  <2>2. ServedIsCurrent /\ \A r \in Request : Exclusive(r) /\ Fresh(r)
    BY DEF Init, ServedIsCurrent, Exclusive, Fresh, Idle
  <2>3. \A i \in JobID : Current[i] = NoID
    BY DEF Init, Current
  <2>4. Distinct
    BY <2>3 DEF Distinct, Init, NoID
  <2> QED  BY <2>1, <2>2, <2>4 DEF AssignInv, ServeInv
<1>2. AssignInv /\ [Next]_vars => AssignInv' /\ [Assignment!Next]_(Assignment!assignmentVars)
  BY AssignNext DEF AssignStep
<1>3. Init => Assignment!Init
  BY DEF Init, Assignment!Init
<1> QED  BY <1>1, <1>2, <1>3, PTL DEF Spec, AssignmentImplemented, Assignment!Spec

-----------------------------------------------------------------------------
(* The goals that are held                                                 *)

\* They are goals, or the empty one.
LEMMA HeldFacts ==
  ASSUME RequestInv
  PROVE  \A g \in HeldGoals : g \in Goal \cup {NoGoal} /\ g.id \in Nat
<1>1. \A i \in DOMAIN jobs : jobs[i].goal \in Goal \cup {NoGoal}
  <2>1. \A i \in DOMAIN jobs : jobs[i] \in Job
    BY JobFacts DEF RequestInv, TypeOK
  <2> QED  BY <2>1 DEF Job
<1>2. \A r \in Request : HeldBy(request[r]) \subseteq Goal \cup {NoGoal}
  <2> SUFFICES ASSUME NEW r \in Request PROVE HeldBy(request[r]) \subseteq Goal \cup {NoGoal}
    OBVIOUS
  <2>1. request[r] \in RequestState
    BY DEF RequestInv, TypeOK
  <2>2. \A rec \in Job : rec.goal \in Goal \cup {NoGoal}
    BY DEF Job
  <2> QED  BY <2>1, <2>2, RequestFacts DEF HeldBy
<1>3. scienceGoals \subseteq Goal
  BY DEF RequestInv, TypeOK
<1>4. \A g \in Goal \cup {NoGoal} : g.id \in Nat
  <2>1. \A g \in Goal : g.id \in GoalID
    BY DEF Goal
  <2>2. NoGoal.id = 0
    BY DEF NoGoal, NoID
  <2> QED  BY <2>1, <2>2 DEF GoalID
<1>5. HeldGoals \subseteq Goal \cup {NoGoal}
  BY <1>1, <1>2, <1>3 DEF HeldGoals
<1> QED  BY <1>4, <1>5

\* Where the goals are that are held after a step.
LEMMA HeldAfter ==
  ASSUME NEW N,
         scienceGoals' \subseteq HeldGoals \cup N,
         \A i \in DOMAIN jobs' : jobs'[i].goal \in HeldGoals \cup N,
         \A r \in Request : HeldBy(request'[r]) \subseteq HeldGoals \cup N
  PROVE  HeldGoals' \subseteq HeldGoals \cup N
BY DEF HeldGoals

\* What is held.
LEMMA HeldMembers ==
  /\ scienceGoals \subseteq HeldGoals
  /\ \A i \in DOMAIN jobs : jobs[i].goal \in HeldGoals
  /\ \A r \in Request : HeldBy(request[r]) \subseteq HeldGoals
BY DEF HeldGoals

\* No new goal.
LEMMA NumberKept ==
  ASSUME NumberInvariant, HeldGoals' \subseteq HeldGoals, goalCount' = goalCount
  PROVE  NumberInvariant'
BY DEF NumberInvariant

\* New goals, of the next number and for some nodes.
LEMMA NumberNew ==
  ASSUME RequestInv, NumberInvariant, NEW S, NEW N, goalCount' = goalCount + 1,
         HeldGoals' \subseteq HeldGoals \cup N,
         \A g \in N : g.id = goalCount + 1 /\ g.nodes = S
  PROVE  NumberInvariant'
<1>1. goalCount \in Nat
  BY CloudAssumption DEF RequestInv, TypeOK
<1>2. \A g \in HeldGoals : g.id \in Nat /\ g.id <= goalCount
  BY HeldFacts DEF NumberInvariant
<1>3. \A g \in HeldGoals \cup N : g.id <= goalCount + 1
  BY <1>1, <1>2
<1>4. ASSUME NEW g \in HeldGoals \cup N, NEW h \in HeldGoals \cup N, g.id = h.id
      PROVE  g.nodes = h.nodes
  <2>1. CASE g \in N /\ h \in N
    BY <2>1
  <2>2. CASE g \in HeldGoals /\ h \in HeldGoals
    BY <1>4, <2>2 DEF NumberInvariant
  <2>3. CASE (g \in HeldGoals /\ h \in N) \/ (g \in N /\ h \in HeldGoals)
    BY <1>1, <1>2, <1>4, <2>3
  <2> QED  BY <2>1, <2>2, <2>3
<1> QED  BY <1>3, <1>4 DEF NumberInvariant

\* One request moves.
LEMMA RequestMoved ==
  ASSUME RequestInv, NEW r \in Request, NEW q, request' = [request EXCEPT ![r] = q]
  PROVE  request'[r] = q /\ \A s \in Request \ {r} : request'[s] = request[s]
BY DEF RequestInv, TypeOK

\* What a moving request has to do for the goals of all.
LEMMA HeldMoved ==
  ASSUME RequestInv, NEW N, NEW r \in Request, NEW q, request' = [request EXCEPT ![r] = q],
         HeldBy(q) \subseteq HeldGoals \cup N,
         scienceGoals' \subseteq HeldGoals \cup N,
         \A i \in DOMAIN jobs' : jobs'[i].goal \in HeldGoals \cup N
  PROVE  HeldGoals' \subseteq HeldGoals \cup N
<1>1. \A s \in Request : HeldBy(request'[s]) \subseteq HeldGoals \cup N
  BY RequestMoved, HeldMembers
<1> QED  BY <1>1, HeldAfter

\* What a moving request has to do for the nodes.
LEMMA NodesMoved ==
  ASSUME RequestInv, NodesInvariant, NEW r \in Request, NEW q,
         request' = [request EXCEPT ![r] = q], KeepsNodes(q),
         \A i \in DOMAIN jobs' : ForNodes(jobs'[i].goal, jobs'[i].nodes)
  PROVE  NodesInvariant'
<1>1. \A s \in Request : KeepsNodes(request'[s])
  BY RequestMoved DEF NodesInvariant
<1> QED  BY <1>1 DEF NodesInvariant

\* A changed state of a job changes neither its goal nor its nodes.
LEMMA InStateGoals ==
  ASSUME RequestInv, NEW j \in DOMAIN jobs, NEW st \in JobState, jobs' = InState(j, st)
  PROVE  /\ DOMAIN jobs' = DOMAIN jobs
         /\ \A i \in DOMAIN jobs : jobs'[i].goal = jobs[i].goal /\ jobs'[i].nodes = jobs[i].nodes
<1> DEFINE rec == [jobs[j] EXCEPT !.state = st]
<1>1. jobs \in Seq(Job) /\ Len(jobs) <= MaxJobs
  BY DEF RequestInv, TypeOK
<1>2. jobs[j] \in Job
  BY <1>1, JobFacts
<1>3. rec \in Job /\ rec.goal = jobs[j].goal /\ rec.nodes = jobs[j].nodes
  BY <1>2 DEF Job
<1>4. jobs' = Put(j, rec)
  BY DEF InState, GetJob
<1> HIDE DEF rec
<1>5. /\ DOMAIN Put(j, rec) = DOMAIN jobs
      /\ \A i \in DOMAIN jobs : Put(j, rec)[i] = IF i = j THEN rec ELSE jobs[i]
  BY <1>1, <1>3, PutFacts
<1> QED  BY <1>3, <1>4, <1>5

-----------------------------------------------------------------------------
(* Steps of requests                                                       *)

\* The context of the steps, and what each has to do: whoever is to be pushed to
\* still is, and so is every node whose goals change.
MapContext == RequestInv /\ NumberInvariant /\ NodesInvariant /\ NoRewrites

Watchful ==
  \A n \in Nodes : Awaited(n) \/ GoalsFor(n)' # GoalsFor(n) => Awaited(n)'

MapKept == NumberInvariant' /\ NodesInvariant' /\ Watchful

\* A step that neither concerns requests nor goals nor the main goroutine.
LEMMA WatchfulElsewhere ==
  ASSUME UNCHANGED <<scienceGoals, chanFromGoalManager, request, main>> PROVE Watchful
BY DEF Watchful, Awaited, Announced, GoalsFor

\* One request moves, and keeps what it is to do.
LEMMA WatchfulMoved ==
  ASSUME RequestInv, NEW r \in Request, NEW q, request' = [request EXCEPT ![r] = q],
         UNCHANGED <<scienceGoals, chanFromGoalManager, main>>,
         Notifies(request[r]) \subseteq Notifies(q), request[r].at # "notify"
  PROVE  Watchful
<1> SUFFICES ASSUME NEW n \in Nodes, Awaited(n) PROVE Awaited(n)'
  BY DEF Watchful, GoalsFor
<1>1. request'[r] = q /\ \A s \in Request \ {r} : request'[s] = request[s]
  BY RequestMoved
<1>2. ASSUME NEW s \in Request, n \in Notifies(request[s]) PROVE n \in Notifies(request'[s])
  BY <1>1, <1>2
<1>3. ASSUME NEW g \in scienceGoals, Announced(g) PROVE Announced(g)'
  BY <1>1, <1>3 DEF Announced, Announces
<1> QED  BY <1>2, <1>3 DEF Awaited

\* handlerCreateJob.
LEMMA MapCreateJob ==
  ASSUME MapContext, NEW u \in Users, NEW S \in NodeSets, CreateJob(u, S) PROVE MapKept
<1> DEFINE rec == [state |-> "Created", user |-> u, nodes |-> S, goal |-> NoGoal]
<1>1. rec \in Job /\ rec.goal = NoGoal
  BY CloudAssumption DEF Job, JobState
<1>2. jobs' = Added(rec) /\ UNCHANGED <<goalCount, scienceGoals, chanFromGoalManager, request, main>>
  BY DEF CreateJob
<1> HIDE DEF rec
<1>3. /\ DOMAIN jobs' = 1..(Len(jobs) + 1) /\ DOMAIN jobs = 1..Len(jobs)
      /\ \A i \in DOMAIN jobs : jobs'[i] = jobs[i]
      /\ jobs'[Len(jobs) + 1] = rec /\ Len(jobs) \in Nat
  BY <1>1, <1>2, AddedFacts, LenProperties DEF MapContext, RequestInv, TypeOK
<1>4. \A i \in DOMAIN jobs' : i \in DOMAIN jobs \/ jobs'[i] = rec
  BY <1>3
<1>5. NodesInvariant'
  <2>1. \A i \in DOMAIN jobs' : ForNodes(jobs'[i].goal, jobs'[i].nodes)
    BY <1>1, <1>3, <1>4 DEF MapContext, NodesInvariant, ForNodes
  <2> QED  BY <1>2, <2>1 DEF MapContext, NodesInvariant
<1>6. NumberInvariant'
  <2>1. HeldGoals' \subseteq HeldGoals \cup {NoGoal}
    <3>1. \A i \in DOMAIN jobs' : jobs'[i].goal \in HeldGoals \cup {NoGoal}
      BY <1>1, <1>3, <1>4, HeldMembers
    <3> QED  BY <1>2, <3>1, HeldMembers, HeldAfter
  <2>2. \A g \in HeldGoals : g.id = NoGoal.id => g = NoGoal
    <3>1. \A g \in Goal : g.id # 0
      BY DEF Goal, GoalID
    <3> QED  BY <3>1, HeldFacts DEF MapContext, NoGoal, NoID
  <2>3. NoGoal.id <= goalCount
    BY CloudAssumption DEF MapContext, RequestInv, TypeOK, NoGoal, NoID
  <2>4. /\ \A g \in HeldGoals : g.id <= goalCount
        /\ \A g, h \in HeldGoals : g.id = h.id => g.nodes = h.nodes
    BY DEF MapContext, NumberInvariant
  <2> DEFINE N == HeldGoals \cup {NoGoal}
  <2>5. \A g \in N : g.id <= goalCount
    BY <2>3, <2>4
  <2>6. ASSUME NEW g \in N, NEW h \in N, g.id = h.id PROVE g.nodes = h.nodes
    <3>1. CASE g \in HeldGoals /\ h \in HeldGoals
      BY <2>4, <2>6, <3>1
    <3>2. CASE g = NoGoal \/ h = NoGoal
      <4>1. g = NoGoal /\ h = NoGoal
        BY <2>2, <2>6, <3>2
      <4> QED  BY <4>1
    <3> QED  BY <3>1, <3>2
  <2> HIDE DEF N
  <2>7. HeldGoals' \subseteq N
    BY <2>1 DEF N
  <2> QED  BY <1>2, <2>5, <2>6, <2>7 DEF NumberInvariant
<1>7. Watchful
  BY <1>2, WatchfulElsewhere
<1> QED  BY <1>5, <1>6, <1>7 DEF MapKept

\* handlerSubmitJobs with a new job.
LEMMA MapSubmitNew ==
  ASSUME MapContext, NEW r \in Request, NEW u \in Users, NEW S \in NodeSets, SubmitNew(r, u, S)
  PROVE  MapKept
<1> DEFINE id  == Len(jobs) + 1
           g   == NewGoal(NoID, S)
           h   == [g EXCEPT !.job = id]
           rec == [state |-> "Created", user |-> u, nodes |-> S, goal |-> g]
           own == [rec EXCEPT !.goal.job = id]
           q   == [at |-> "store", op |-> "submit", job |-> id, rec |-> own]
<1>1. /\ jobs \in Seq(Job) /\ Len(jobs) \in Nat
      /\ goalCount \in 0..MaxGoals /\ goalCount < MaxGoals /\ S \in SUBSET Nodes
  BY LenProperties, CloudAssumption DEF SubmitNew, MapContext, RequestInv, TypeOK
<1>2. g \in Goal /\ g.id = goalCount + 1 /\ g.nodes = S
  BY <1>1, NewGoalFacts DEF NewGoal
<1>3. h.id = goalCount + 1 /\ h.nodes = S
  BY <1>2 DEF Goal
<1>4. /\ jobs' = Added(rec) /\ request' = [request EXCEPT ![r] = q] /\ request[r] = Idle
      /\ goalCount' = goalCount + 1 /\ UNCHANGED <<scienceGoals, chanFromGoalManager, main>>
  BY DEF SubmitNew
<1> HIDE DEF id, g
<1>5. rec \in Job /\ rec.goal = g /\ rec.nodes = S
  BY <1>1, <1>2 DEF Job, JobState
<1>6. own.goal = h /\ own.nodes = S
  OBVIOUS
<1> HIDE DEF own, rec, h
<1>7. /\ q.at = "store" /\ q.op = "submit" /\ q.rec = own
      /\ HeldBy(q) = {h}
  BY <1>6 DEF HeldBy
<1> HIDE DEF q
<1>8. /\ DOMAIN jobs' = 1..(Len(jobs) + 1) /\ DOMAIN jobs = 1..Len(jobs)
      /\ \A i \in DOMAIN jobs : jobs'[i] = jobs[i]
      /\ jobs'[Len(jobs) + 1] = rec
  BY <1>1, <1>4, <1>5, AddedFacts
<1>9. \A i \in DOMAIN jobs' : i \in DOMAIN jobs \/ jobs'[i] = rec
  BY <1>1, <1>8
<1>10. NodesInvariant'
  <2>1. \A i \in DOMAIN jobs' : ForNodes(jobs'[i].goal, jobs'[i].nodes)
    BY <1>2, <1>5, <1>8, <1>9 DEF MapContext, NodesInvariant, ForNodes
  <2>2. KeepsNodes(q)
    BY <1>3, <1>6, <1>7 DEF KeepsNodes, ForNodes
  <2> QED  BY <1>4, <2>1, <2>2, NodesMoved DEF MapContext
<1>11. NumberInvariant'
  <2> DEFINE N == {g, h}
  <2>1. /\ HeldBy(q) \subseteq HeldGoals \cup N /\ scienceGoals' \subseteq HeldGoals \cup N
        /\ \A i \in DOMAIN jobs' : jobs'[i].goal \in HeldGoals \cup N
    BY <1>4, <1>5, <1>7, <1>8, <1>9, HeldMembers
  <2>2. \A x \in N : x.id = goalCount + 1 /\ x.nodes = S
    BY <1>2, <1>3
  <2> HIDE DEF N
  <2>3. HeldGoals' \subseteq HeldGoals \cup N
    BY <1>4, <2>1, HeldMoved DEF MapContext
  <2> QED  BY <1>4, <2>2, <2>3, NumberNew DEF MapContext
<1>12. Watchful
  <2>1. Notifies(request[r]) = {} /\ request[r].at # "notify"
    BY <1>4 DEF Idle, Notifies
  <2> QED  BY <1>4, <2>1, WatchfulMoved DEF MapContext
<1> QED  BY <1>10, <1>11, <1>12 DEF MapKept

\* handlerSubmitJobs with a job that exists.
LEMMA MapSubmitExisting ==
  ASSUME MapContext, NEW r \in Request, NEW u \in Users, NEW j \in DOMAIN jobs,
         NEW op \in {"submit", "dryrun"}, SubmitExisting(r, u, j, op)
  PROVE  MapKept
<1> DEFINE g   == NewGoal(j, jobs[j].nodes)
           rec == [jobs[j] EXCEPT !.goal = g]
           q   == [at |-> "drop", op |-> op, job |-> j, old |-> jobs[j].goal, rec |-> rec]
<1>1. jobs[j] \in Job /\ j \in JobID
  BY JobFacts DEF MapContext, RequestInv, TypeOK
<1>2. g.id = goalCount + 1 /\ g.nodes = jobs[j].nodes
  BY DEF NewGoal
<1>3. /\ request' = [request EXCEPT ![r] = q] /\ jobs' = jobs /\ request[r] = Idle
      /\ goalCount' = goalCount + 1 /\ UNCHANGED <<scienceGoals, chanFromGoalManager, main>>
  BY DEF SubmitExisting, GetJob
<1>4. op = "submit"
  BY DEF SubmitExisting, MapContext, NoRewrites
<1> HIDE DEF g
<1>5. rec.nodes = jobs[j].nodes /\ rec.goal = g
  BY <1>1 DEF Job
<1> HIDE DEF rec
<1>6. /\ q.at = "drop" /\ q.op = "submit" /\ q.rec = rec /\ q.old = jobs[j].goal
      /\ HeldBy(q) = {jobs[j].goal, g}
  BY <1>4, <1>5 DEF HeldBy
<1> HIDE DEF q
<1>7. NodesInvariant'
  <2>1. ForNodes(jobs[j].goal, jobs[j].nodes)
    BY DEF MapContext, NodesInvariant
  <2>2. KeepsNodes(q)
    BY <1>2, <1>5, <1>6, <2>1 DEF KeepsNodes, ForNodes
  <2>3. \A i \in DOMAIN jobs' : ForNodes(jobs'[i].goal, jobs'[i].nodes)
    BY <1>3 DEF MapContext, NodesInvariant
  <2> QED  BY <1>3, <2>2, <2>3, NodesMoved DEF MapContext
<1>8. NumberInvariant'
  <2> DEFINE N == {g}
  <2>1. /\ HeldBy(q) \subseteq HeldGoals \cup N /\ scienceGoals' \subseteq HeldGoals \cup N
        /\ \A i \in DOMAIN jobs' : jobs'[i].goal \in HeldGoals \cup N
    BY <1>3, <1>6, HeldMembers
  <2>2. \A x \in N : x.id = goalCount + 1 /\ x.nodes = jobs[j].nodes
    BY <1>2
  <2> HIDE DEF N
  <2>3. HeldGoals' \subseteq HeldGoals \cup N
    BY <1>3, <2>1, HeldMoved DEF MapContext
  <2> QED  BY <1>3, <2>2, <2>3, NumberNew DEF MapContext
<1>9. Watchful
  <2>1. Notifies(request[r]) = {} /\ request[r].at # "notify"
    BY <1>3 DEF Idle, Notifies
  <2> QED  BY <1>3, <2>1, WatchfulMoved DEF MapContext
<1> QED  BY <1>7, <1>8, <1>9 DEF MapKept


\* The goal that the record had is dropped, by a request that will announce the
\* next one to the same nodes.
LEMMA MapDropOldGoal ==
  ASSUME MapContext, NEW r \in Request, DropOldGoal(r) PROVE MapKept
<1> DEFINE w == request[r]
           q == [at |-> "store", op |-> w.op, job |-> w.job, rec |-> w.rec]
<1>1. w \in RequestState /\ w.at = "drop" /\ KeepsNodes(w)
  BY DEF DropOldGoal, MapContext, RequestInv, TypeOK, NodesInvariant
<1>2. /\ request' = [request EXCEPT ![r] = q] /\ scienceGoals' = Without(w.old.id)
      /\ UNCHANGED <<jobs, goalCount, chanFromGoalManager, main>>
  BY DEF DropOldGoal
<1>3. w.op = "submit" /\ ForNodes(w.rec.goal, w.rec.nodes) /\ ForNodes(w.old, w.rec.nodes)
  BY <1>1 DEF KeepsNodes
<1>4. HeldBy(w) = {w.old, w.rec.goal}
  BY <1>1 DEF HeldBy
<1>5. q.at = "store" /\ q.op = w.op /\ q.rec = w.rec /\ HeldBy(q) = {w.rec.goal} /\ Notifies(q) = w.rec.nodes
  BY DEF HeldBy, Notifies
<1> HIDE DEF q
<1>6. scienceGoals' \subseteq scienceGoals
  BY <1>2 DEF Without
<1>7. NodesInvariant'
  <2>1. KeepsNodes(q)
    BY <1>3, <1>5 DEF KeepsNodes
  <2>2. \A i \in DOMAIN jobs' : ForNodes(jobs'[i].goal, jobs'[i].nodes)
    BY <1>2 DEF MapContext, NodesInvariant
  <2> QED  BY <1>2, <2>1, <2>2, NodesMoved DEF MapContext
<1>8. NumberInvariant'
  <2>1. HeldBy(w) \subseteq HeldGoals
    BY HeldMembers
  <2> DEFINE N == {}
  <2>2. /\ HeldBy(q) \subseteq HeldGoals \cup N /\ scienceGoals' \subseteq HeldGoals \cup N
        /\ \A i \in DOMAIN jobs' : jobs'[i].goal \in HeldGoals \cup N
    BY <1>2, <1>4, <1>5, <1>6, <2>1, HeldMembers
  <2> HIDE DEF N
  <2>3. HeldGoals' \subseteq HeldGoals \cup N
    BY <1>2, <2>2, HeldMoved DEF MapContext
  <2>4. HeldGoals' \subseteq HeldGoals
    BY <2>3 DEF N
  <2> QED  BY <1>2, <2>4, NumberKept DEF MapContext
\* Whoever served the old goal is going to be notified.
<1>9. ASSUME NEW g \in scienceGoals, g \notin scienceGoals' PROVE g.nodes \subseteq w.rec.nodes
  <2>1. g.id = w.old.id
    BY <1>2, <1>9 DEF Without, WithID
  <2>2. w.old \in HeldGoals /\ g \in HeldGoals
    BY <1>4, HeldMembers
  <2>3. g.nodes = w.old.nodes
    BY <2>1, <2>2 DEF MapContext, NumberInvariant
  <2>4. NoGoal.nodes = {}
    BY DEF NoGoal
  <2> QED  BY <1>3, <2>3, <2>4 DEF ForNodes
<1>10. Watchful
  <2> SUFFICES ASSUME NEW n \in Nodes, Awaited(n) \/ GoalsFor(n)' # GoalsFor(n) PROVE Awaited(n)'
    BY DEF Watchful
  <2>1. request'[r] = q /\ \A s \in Request \ {r} : request'[s] = request[s]
    BY <1>2, RequestMoved DEF MapContext
  <2>2. CASE n \in w.rec.nodes
    BY <1>5, <2>1, <2>2 DEF Awaited
  <2>3. CASE n \notin w.rec.nodes
    <3>1. GoalsFor(n)' = GoalsFor(n)
      BY <1>6, <1>9, <2>3 DEF GoalsFor
    <3>2. CASE n \in main.nodes
      BY <1>2, <3>2 DEF Awaited
    <3>3. ASSUME NEW s \in Request, n \in Notifies(request[s]) PROVE Awaited(n)'
      <4>1. Notifies(w) = {}
        BY <1>1 DEF Notifies
      <4>2. s # r
        BY <3>3, <4>1
      <4> QED  BY <2>1, <3>3, <4>2 DEF Awaited
    <3>4. ASSUME NEW g \in scienceGoals, n \in g.nodes, Announced(g) PROVE Awaited(n)'
      <4>1. g \in scienceGoals'
        BY <1>9, <2>3, <3>4
      <4>2. Announced(g)'
        BY <1>1, <1>2, <2>1, <3>4 DEF Announced, Announces
      <4> QED  BY <3>4, <4>1, <4>2 DEF Awaited
    <3> QED  BY <3>1, <3>2, <3>3, <3>4 DEF Awaited
  <2> QED  BY <2>2, <2>3
<1> QED  BY <1>7, <1>8, <1>10 DEF MapKept

\* The record is put into the database; its goal is to be served next.
LEMMA MapStoreJob ==
  ASSUME MapContext, NEW r \in Request, StoreJob(r) PROVE MapKept
<1> DEFINE w == request[r]
           q == [at |-> "serve", goal |-> w.rec.goal]
<1>1. w \in RequestState /\ w.at = "store" /\ KeepsNodes(w) /\ Prepared(r)
  BY DEF StoreJob, MapContext, RequestInv, TypeOK, NodesInvariant
<1>2. w.op = "submit" /\ ForNodes(w.rec.goal, w.rec.nodes)
  BY <1>1 DEF KeepsNodes
<1>3. w.rec \in Job /\ w.job \in DOMAIN jobs /\ w.rec.goal \in Goal
  BY <1>1, <1>2, RequestFacts DEF Prepared
<1>4. w.rec.goal.nodes = w.rec.nodes
  <2>1. NoGoal \notin Goal
    BY DEF NoGoal, Goal, NoID, GoalID
  <2> QED  BY <1>2, <1>3, <2>1 DEF ForNodes
<1>5. /\ request' = [request EXCEPT ![r] = q] /\ jobs' = Put(w.job, Stored(w))
      /\ UNCHANGED <<goalCount, scienceGoals, chanFromGoalManager, main>>
  BY <1>2 DEF StoreJob
<1>6. q.at = "serve" /\ HeldBy(q) = {w.rec.goal} /\ Notifies(q) = w.rec.goal.nodes
  BY DEF HeldBy, Notifies
<1>7. HeldBy(w) = {w.rec.goal} /\ Notifies(w) = w.rec.nodes
  BY <1>1 DEF HeldBy, Notifies
<1> HIDE DEF q, w
<1>8. Stored(w) \in Job /\ Stored(w).goal = w.rec.goal /\ Stored(w).nodes = w.rec.nodes
  <2>1. Stored(w) \in Job /\ Stored(w).goal = w.rec.goal
    BY <1>2, <1>3, StoredFacts
  <2>2. Stored(w).nodes = w.rec.nodes
    BY <1>3 DEF Stored, Job
  <2> QED  BY <2>1, <2>2
<1>9. /\ DOMAIN jobs' = DOMAIN jobs
      /\ \A i \in DOMAIN jobs : jobs'[i] = IF i = w.job THEN Stored(w) ELSE jobs[i]
  <2>1. jobs \in Seq(Job)
    BY DEF MapContext, RequestInv, TypeOK
  <2>2. \A rec \in Job :
          /\ DOMAIN Put(w.job, rec) = DOMAIN jobs
          /\ \A i \in DOMAIN jobs : Put(w.job, rec)[i] = IF i = w.job THEN rec ELSE jobs[i]
    BY <1>3, <2>1, PutFacts
  <2>3. /\ DOMAIN Put(w.job, Stored(w)) = DOMAIN jobs
        /\ \A i \in DOMAIN jobs :
             Put(w.job, Stored(w))[i] = IF i = w.job THEN Stored(w) ELSE jobs[i]
    BY <1>8, <2>2
  <2> QED  BY <1>5, <2>3
<1>10. HeldBy(w) \subseteq HeldGoals
  BY HeldMembers DEF w
<1>11. NodesInvariant'
  <2>1. KeepsNodes(q)
    BY <1>6 DEF KeepsNodes
  <2>2. ASSUME NEW i \in DOMAIN jobs PROVE ForNodes(jobs'[i].goal, jobs'[i].nodes)
    <3>1. CASE i = w.job
      BY <1>4, <1>8, <1>9, <3>1 DEF ForNodes
    <3>2. CASE i # w.job
      BY <1>9, <3>2 DEF MapContext, NodesInvariant
    <3> QED  BY <3>1, <3>2
  <2> QED  BY <1>5, <1>9, <2>1, <2>2, NodesMoved DEF MapContext
<1>12. NumberInvariant'
  <2> DEFINE N == {}
  <2>1. \A i \in DOMAIN jobs' : jobs'[i].goal \in HeldGoals
    BY <1>7, <1>8, <1>9, <1>10, HeldMembers
  <2>2. /\ HeldBy(q) \subseteq HeldGoals \cup N /\ scienceGoals' \subseteq HeldGoals \cup N
        /\ \A i \in DOMAIN jobs' : jobs'[i].goal \in HeldGoals \cup N
    BY <1>5, <1>6, <1>7, <1>10, <2>1, HeldMembers
  <2> HIDE DEF N
  <2>3. HeldGoals' \subseteq HeldGoals \cup N
    BY <1>5, <2>2, HeldMoved DEF MapContext
  <2>4. HeldGoals' \subseteq HeldGoals
    BY <2>3 DEF N
  <2> QED  BY <1>5, <2>4, NumberKept DEF MapContext
<1>13. Watchful
  <2>1. Notifies(request[r]) \subseteq Notifies(q) /\ request[r].at # "notify"
    BY <1>1, <1>4, <1>6, <1>7 DEF w
  <2> QED  BY <1>5, <2>1, WatchfulMoved DEF MapContext
<1> QED  BY <1>11, <1>12, <1>13 DEF MapKept

\* The goal is served, and is to be announced next.
LEMMA MapServeGoal ==
  ASSUME MapContext, NEW r \in Request, ServeGoal(r) PROVE MapKept
<1>0. PICK g : g = request[r].goal
  OBVIOUS
<1> DEFINE e == [type |-> "submitted", id |-> g.id]
           q == [at |-> "notify", event |-> e]
<1>1. request[r].at = "serve" /\ HeldBy(request[r]) = {g} /\ Notifies(request[r]) = g.nodes
  BY <1>0 DEF ServeGoal, HeldBy, Notifies
<1>2. /\ request' = [request EXCEPT ![r] = q] /\ scienceGoals' = Without(g.id) \cup {g}
      /\ UNCHANGED <<jobs, goalCount, chanFromGoalManager, main>>
  BY <1>0 DEF ServeGoal
<1>3. q.at = "notify" /\ HeldBy(q) = {} /\ Announces(q, g)
  BY DEF HeldBy, Announces
<1> HIDE DEF q, e
<1>4. g \in HeldGoals
  BY <1>1, HeldMembers
<1>5. NodesInvariant'
  <2>1. KeepsNodes(q)
    BY <1>3 DEF KeepsNodes
  <2>2. \A i \in DOMAIN jobs' : ForNodes(jobs'[i].goal, jobs'[i].nodes)
    BY <1>2 DEF MapContext, NodesInvariant
  <2> QED  BY <1>2, <2>1, <2>2, NodesMoved DEF MapContext
<1>6. NumberInvariant'
  <2> DEFINE N == {}
  <2>1. /\ HeldBy(q) \subseteq HeldGoals \cup N /\ scienceGoals' \subseteq HeldGoals \cup N
        /\ \A i \in DOMAIN jobs' : jobs'[i].goal \in HeldGoals \cup N
    BY <1>2, <1>3, <1>4, HeldMembers DEF Without
  <2> HIDE DEF N
  <2>2. HeldGoals' \subseteq HeldGoals \cup N
    BY <1>2, <2>1, HeldMoved DEF MapContext
  <2>3. HeldGoals' \subseteq HeldGoals
    BY <2>2 DEF N
  <2> QED  BY <1>2, <2>3, NumberKept DEF MapContext
<1>7. Watchful
  <2> SUFFICES ASSUME NEW n \in Nodes, Awaited(n) \/ GoalsFor(n)' # GoalsFor(n) PROVE Awaited(n)'
    BY DEF Watchful
  <2>1. request'[r] = q /\ \A s \in Request \ {r} : request'[s] = request[s]
    BY <1>2, RequestMoved DEF MapContext
  <2>2. CASE n \in g.nodes
    <3>1. Announced(g)' /\ g \in scienceGoals'
      BY <1>2, <1>3, <2>1 DEF Announced
    <3> QED  BY <2>2, <3>1 DEF Awaited
  <2>3. CASE n \notin g.nodes
    <3>1. ASSUME NEW h \in scienceGoals, n \in h.nodes PROVE h \in scienceGoals'
      <4>1. h.id # g.id
        BY <1>4, <2>3, <3>1, HeldMembers DEF MapContext, NumberInvariant
      <4> QED  BY <1>2, <4>1 DEF Without, WithID
    <3>2. GoalsFor(n)' = GoalsFor(n)
      BY <1>2, <2>3, <3>1 DEF GoalsFor, Without
    <3>3. CASE n \in main.nodes
      BY <1>2, <3>3 DEF Awaited
    <3>4. ASSUME NEW s \in Request, n \in Notifies(request[s]) PROVE Awaited(n)'
      <4>1. s # r
        BY <1>1, <2>3, <3>4
      <4> QED  BY <2>1, <3>4, <4>1 DEF Awaited
    <3>5. ASSUME NEW h \in scienceGoals, n \in h.nodes, Announced(h) PROVE Awaited(n)'
      <4>1. Announced(h)'
        BY <1>1, <1>2, <2>1, <3>5 DEF Announced, Announces
      <4> QED  BY <3>1, <3>5, <4>1 DEF Awaited
    <3> QED  BY <3>2, <3>3, <3>4, <3>5 DEF Awaited
  <2> QED  BY <2>2, <2>3
<1> QED  BY <1>5, <1>6, <1>7 DEF MapKept


\* Steps that add no goal and change none.
LEMMA HeldUnchanged ==
  ASSUME MapContext, goalCount' = goalCount, scienceGoals' \subseteq scienceGoals,
         DOMAIN jobs' = DOMAIN jobs,
         \A i \in DOMAIN jobs : jobs'[i].goal = jobs[i].goal /\ jobs'[i].nodes = jobs[i].nodes,
         \A s \in Request :
           HeldBy(request'[s]) \subseteq HeldBy(request[s]) /\ KeepsNodes(request'[s])
  PROVE  NumberInvariant' /\ NodesInvariant'
<1>1. NumberInvariant'
  <2> DEFINE N == {}
  <2>1. /\ scienceGoals' \subseteq HeldGoals \cup N
        /\ \A i \in DOMAIN jobs' : jobs'[i].goal \in HeldGoals \cup N
        /\ \A s \in Request : HeldBy(request'[s]) \subseteq HeldGoals \cup N
    BY HeldMembers
  <2> HIDE DEF N
  <2>2. HeldGoals' \subseteq HeldGoals \cup N
    BY <2>1, HeldAfter
  <2>3. HeldGoals' \subseteq HeldGoals
    BY <2>2 DEF N
  <2> QED  BY <2>3, NumberKept DEF MapContext
<1>2. NodesInvariant'
  BY DEF MapContext, NodesInvariant
<1> QED  BY <1>1, <1>2

\* What is to be announced enters the channel.
LEMMA MapNotify ==
  ASSUME MapContext, NEW r \in Request, Notify(r) PROVE MapKept
<1>1. PICK e : e = request[r].event
  OBVIOUS
<1>2. /\ request[r].at = "notify" /\ request' = [request EXCEPT ![r] = Idle]
      /\ chanFromGoalManager' = Append(chanFromGoalManager, e)
      /\ UNCHANGED <<jobs, goalCount, scienceGoals, main>>
  BY <1>1 DEF Notify
<1>3. request'[r] = Idle /\ \A s \in Request \ {r} : request'[s] = request[s]
  BY <1>2, RequestMoved DEF MapContext
<1>4. chanFromGoalManager \in Seq(Event) /\ e \in Event
  BY <1>1, <1>2, RequestFacts DEF MapContext, RequestInv, TypeOK
<1>5. /\ Len(chanFromGoalManager) \in Nat /\ DOMAIN chanFromGoalManager = 1..Len(chanFromGoalManager)
      /\ DOMAIN chanFromGoalManager' = 1..(Len(chanFromGoalManager) + 1)
      /\ \A i \in DOMAIN chanFromGoalManager : chanFromGoalManager'[i] = chanFromGoalManager[i]
      /\ chanFromGoalManager'[Len(chanFromGoalManager) + 1] = e
  BY <1>2, <1>4, AppendProperties, LenProperties
<1>6. HeldBy(Idle) = {} /\ KeepsNodes(Idle) /\ Notifies(request[r]) = {}
  BY <1>2 DEF HeldBy, KeepsNodes, Notifies, Idle
<1>7. NumberInvariant' /\ NodesInvariant'
  <2>1. \A s \in Request :
          HeldBy(request'[s]) \subseteq HeldBy(request[s]) /\ KeepsNodes(request'[s])
    BY <1>3, <1>6 DEF MapContext, NodesInvariant
  <2> QED  BY <1>2, <2>1, HeldUnchanged
<1>8. ASSUME NEW g, Announced(g) PROVE Announced(g)'
  <2>1. ASSUME NEW i \in DOMAIN chanFromGoalManager,
               chanFromGoalManager[i] = [type |-> "submitted", id |-> g.id]
        PROVE  Announced(g)'
    <3>1. i \in DOMAIN chanFromGoalManager'
      BY <1>5
    <3> QED  BY <1>5, <2>1, <3>1 DEF Announced
  <2>2. ASSUME Announces(request[r], g) PROVE Announced(g)'
    <3>1. e = [type |-> "submitted", id |-> g.id]
      BY <1>1, <2>2 DEF Announces
    <3>2. Len(chanFromGoalManager) + 1 \in DOMAIN chanFromGoalManager'
      BY <1>5
    <3> QED  BY <1>5, <3>1, <3>2 DEF Announced
  <2>3. ASSUME NEW s \in Request \ {r}, Announces(request[s], g) PROVE Announced(g)'
    BY <1>3, <2>3 DEF Announced, Announces
  <2> QED  BY <1>8, <2>1, <2>2, <2>3 DEF Announced
<1>9. Watchful
  <2> SUFFICES ASSUME NEW n \in Nodes, Awaited(n) PROVE Awaited(n)'
    BY <1>2 DEF Watchful, GoalsFor
  <2>1. ASSUME NEW s \in Request, n \in Notifies(request[s]) PROVE n \in Notifies(request'[s])
    BY <1>3, <1>6, <2>1
  <2> QED  BY <1>2, <1>8, <2>1 DEF Awaited
<1> QED  BY <1>7, <1>9 DEF MapKept

\* SuspendJob and RemoveJob: the goals stay until the event is handled.
LEMMA MapWithdraw ==
  ASSUME MapContext, NEW r \in Request, NEW j \in DOMAIN jobs, NEW st \in JobState, NEW e,
         request[r] = Idle, jobs' = InState(j, st),
         request' = [request EXCEPT ![r] = [at |-> "notify", event |-> e]],
         UNCHANGED <<goalCount, scienceGoals, chanFromGoalManager, main>>
  PROVE  MapKept
<1> DEFINE q == [at |-> "notify", event |-> e]
<1>1. HeldBy(q) = {} /\ KeepsNodes(q) /\ Notifies(Idle) = {} /\ Idle.at # "notify"
  BY DEF HeldBy, KeepsNodes, Notifies, Idle
<1>2. request' = [request EXCEPT ![r] = q]
  OBVIOUS
<1> HIDE DEF q
<1>3. request'[r] = q /\ \A s \in Request \ {r} : request'[s] = request[s]
  BY <1>2, RequestMoved DEF MapContext
<1>4. NumberInvariant' /\ NodesInvariant'
  <2>1. /\ DOMAIN jobs' = DOMAIN jobs
        /\ \A i \in DOMAIN jobs : jobs'[i].goal = jobs[i].goal /\ jobs'[i].nodes = jobs[i].nodes
    BY InStateGoals DEF MapContext
  <2>2. \A s \in Request :
          HeldBy(request'[s]) \subseteq HeldBy(request[s]) /\ KeepsNodes(request'[s])
    BY <1>1, <1>3 DEF MapContext, NodesInvariant
  <2> QED  BY <2>1, <2>2, HeldUnchanged
<1>5. Watchful
  BY <1>1, <1>2, WatchfulMoved DEF MapContext
<1> QED  BY <1>4, <1>5 DEF MapKept

\* handleDataJobs, POST.
LEMMA MapSetRecord ==
  ASSUME MapContext, NEW j \in DOMAIN jobs, NEW st \in JobState, SetRecord(j, st) PROVE MapKept
<1>1. jobs' = InState(j, st) /\ UNCHANGED <<goalCount, scienceGoals, chanFromGoalManager, request, main>>
  BY DEF SetRecord
<1>2. /\ DOMAIN jobs' = DOMAIN jobs
      /\ \A i \in DOMAIN jobs : jobs'[i].goal = jobs[i].goal /\ jobs'[i].nodes = jobs[i].nodes
  BY <1>1, InStateGoals DEF MapContext
<1>3. \A s \in Request :
        HeldBy(request'[s]) \subseteq HeldBy(request[s]) /\ KeepsNodes(request'[s])
  BY <1>1 DEF MapContext, NodesInvariant
<1> QED  BY <1>1, <1>2, <1>3, HeldUnchanged, WatchfulElsewhere DEF MapKept

-----------------------------------------------------------------------------
(* Steps of the main goroutine                                             *)

\* It waits for nobody while it selects.
LEMMA SelectingNodes ==
  ASSUME TypeOK, main.at = "select" PROVE main.nodes = {}
<1>1. main \in MainState
  BY DEF TypeOK
<1> QED  BY <1>1 DEF MainState

\* An event is received: the nodes of the goals of its number are pushed to, and at
\* most these goals are dropped.
LEMMA MapAnnounce ==
  ASSUME MapContext, main.at = "select", chanFromGoalManager # <<>>, NEW id,
         Announce(WithID(id)), scienceGoals' \in {scienceGoals, Without(id)},
         Head(chanFromGoalManager).type = "submitted" => Head(chanFromGoalManager).id = id,
         UNCHANGED <<jobs, goalCount, request>>
  PROVE  MapKept
<1>1. NumberInvariant' /\ NodesInvariant'
  <2>1. scienceGoals' \subseteq scienceGoals
    BY DEF Without
  <2>2. \A s \in Request :
          HeldBy(request'[s]) \subseteq HeldBy(request[s]) /\ KeepsNodes(request'[s])
    BY DEF MapContext, NodesInvariant
  <2> QED  BY <2>1, <2>2, HeldUnchanged
<1>2. chanFromGoalManager \in Seq(Event) /\ main.nodes = {}
  BY SelectingNodes DEF MapContext, RequestInv, TypeOK
<1>3. ASSUME NEW i \in DOMAIN chanFromGoalManager
      PROVE  \/ chanFromGoalManager[i] = Head(chanFromGoalManager)
             \/ \E k \in DOMAIN chanFromGoalManager' : chanFromGoalManager'[k] = chanFromGoalManager[i]
  <2>1. /\ Len(chanFromGoalManager) \in Nat /\ DOMAIN chanFromGoalManager = 1..Len(chanFromGoalManager)
        /\ chanFromGoalManager' = Tail(chanFromGoalManager)
    BY <1>2, LenProperties DEF Announce
  <2>2. /\ Head(chanFromGoalManager) = chanFromGoalManager[1]
        /\ DOMAIN chanFromGoalManager' = 1..(Len(chanFromGoalManager) - 1)
        /\ \A k \in 1..(Len(chanFromGoalManager) - 1) : chanFromGoalManager'[k] = chanFromGoalManager[k + 1]
    BY <1>2, <2>1, HeadTailProperties, LenProperties
  <2>3. CASE i = 1
    BY <2>2, <2>3
  <2>4. CASE i # 1
    <3>1. i - 1 \in DOMAIN chanFromGoalManager' /\ (i - 1) + 1 = i
      BY <2>1, <2>2, <2>4
    <3>2. chanFromGoalManager'[i - 1] = chanFromGoalManager[i]
      BY <2>2, <3>1
    <3> QED  BY <3>1, <3>2
  <2> QED  BY <2>3, <2>4
<1>4. Watchful
  <2> SUFFICES ASSUME NEW n \in Nodes, Awaited(n) \/ GoalsFor(n)' # GoalsFor(n) PROVE Awaited(n)'
    BY DEF Watchful
  <2>1. CASE \E g \in WithID(id) : n \in g.nodes
    <3>1. main'.nodes = UNION {g.nodes : g \in WithID(id)}
      BY <2>1 DEF Announce
    <3> QED  BY <2>1, <3>1 DEF Awaited
  <2>2. CASE \A g \in WithID(id) : n \notin g.nodes
    <3>1. \A g \in scienceGoals : n \in g.nodes => g \in scienceGoals' /\ g.id # id
      BY <2>2 DEF Without, WithID
    <3>2. GoalsFor(n)' = GoalsFor(n)
      BY <3>1 DEF GoalsFor, Without
    <3>3. ASSUME NEW s \in Request, n \in Notifies(request[s]) PROVE Awaited(n)'
      BY <3>3 DEF Awaited
    <3>4. ASSUME NEW g \in scienceGoals, n \in g.nodes, Announced(g) PROVE Awaited(n)'
      <4>1. ASSUME NEW i \in DOMAIN chanFromGoalManager,
                   chanFromGoalManager[i] = [type |-> "submitted", id |-> g.id]
            PROVE  Announced(g)'
        <5>1. chanFromGoalManager[i] # Head(chanFromGoalManager)
          BY <3>1, <3>4, <4>1
        <5> QED  BY <1>3, <4>1, <5>1 DEF Announced
      <4>2. ASSUME NEW s \in Request, Announces(request[s], g) PROVE Announced(g)'
        BY <4>2 DEF Announced, Announces
      <4>3. Announced(g)'
        BY <3>4, <4>1, <4>2 DEF Announced
      <4> QED  BY <3>1, <3>4, <4>3 DEF Awaited
    <3> QED  BY <1>2, <3>2, <3>3, <3>4 DEF Awaited
  <2> QED  BY <2>1, <2>2
<1> QED  BY <1>1, <1>4 DEF MapKept

\* The three events.
LEMMA MapHandle ==
  ASSUME MapContext, HandleRemoved \/ HandleSuspended \/ HandleSubmitted PROVE MapKept
<1>1. CASE HandleRemoved
  BY <1>1, MapAnnounce DEF HandleRemoved, Receives
<1>2. CASE HandleSuspended
  BY <1>2, MapAnnounce DEF HandleSuspended, Receives
<1>3. CASE HandleSubmitted
  BY <1>3, MapAnnounce DEF HandleSubmitted, Receives
<1> QED  BY <1>1, <1>2, <1>3


-----------------------------------------------------------------------------
(* Steps of streams                                                        *)

\* Steps that leave the streams alone.
LEMMA PushKept ==
  ASSUME PushInvariant, UNCHANGED streamVars, Watchful PROVE PushInvariant'
<1> SUFFICES ASSUME NEW n \in Nodes, handler'[n] \in {"listed", "streaming"}, ~ pushed'[n]
             PROVE  LastList(n)' = GoalsFor(n)' \/ Awaited(n)'
  BY DEF PushInvariant
<1>1. LastList(n)' = LastList(n) /\ handler' = handler /\ pushed' = pushed
  BY DEF LastList, streamVars
<1>2. LastList(n) = GoalsFor(n) \/ Awaited(n)
  BY <1>1 DEF PushInvariant
<1> QED  BY <1>1, <1>2 DEF Watchful

\* updateNodes, one iteration: a stream is pushed to, or is still to list its goals.
LEMMA PushUpdateNode ==
  ASSUME RequestInv, PushInvariant, NEW m \in Nodes, UpdateNode(m) PROVE PushInvariant'
<1> SUFFICES ASSUME NEW n \in Nodes, handler'[n] \in {"listed", "streaming"}, ~ pushed'[n]
             PROVE  LastList(n)' = GoalsFor(n)' \/ Awaited(n)'
  BY DEF PushInvariant
<1>1. /\ UNCHANGED <<scienceGoals, chanFromGoalManager, request, handler, wire, nodeGoals>>
      /\ pushed' = [pushed EXCEPT ![m] = handler[m] # "none"]
      /\ main' = IF main.nodes = {m} THEN Selecting ELSE [main EXCEPT !.nodes = @ \ {m}]
  BY DEF UpdateNode, PushTo
<1>2. n # m /\ pushed'[n] = pushed[n]
  <2>1. pushed \in [Nodes -> BOOLEAN]
    BY DEF RequestInv, TypeOK
  <2> QED  BY <1>1, <2>1
<1>3. LastList(n)' = LastList(n) /\ GoalsFor(n)' = GoalsFor(n)
  BY <1>1 DEF LastList, GoalsFor
<1>4. LastList(n) = GoalsFor(n) \/ Awaited(n)
  BY <1>1, <1>2 DEF PushInvariant
<1>5. n \in main.nodes => n \in main'.nodes
  <2> SUFFICES ASSUME n \in main.nodes PROVE n \in main'.nodes
    OBVIOUS
  <2>1. main' = [main EXCEPT !.nodes = @ \ {m}]
    BY <1>1, <1>2
  <2>2. main \in [at : {"update"}, nodes : SUBSET Nodes]
    BY DEF UpdateNode, RequestInv, TypeOK, MainState
  <2> QED  BY <1>2, <2>1, <2>2
<1>6. Awaited(n) => Awaited(n)'
  BY <1>1, <1>5 DEF Awaited, Announced
<1> QED  BY <1>3, <1>4, <1>6

\* The stream of n moves: it is closed, or has not listed its goals, or has just
\* listed them, or what it has listed stays.
Moves(n) ==
  /\ \A m \in Nodes \ {n} :
       /\ handler'[m] = handler[m] /\ pushed'[m] = pushed[m]
       /\ wire'[m] = wire[m] /\ nodeGoals'[m] = nodeGoals[m]
  /\ \/ handler'[n] \in {"none", "subscribed"}
     \/ LastList(n)' = GoalsFor(n)
     \/ /\ handler[n] \in {"listed", "streaming"} /\ pushed'[n] = pushed[n]
        /\ LastList(n)' = LastList(n)

LEMMA PushMoved ==
  ASSUME PushInvariant, UNCHANGED cloudVars, NEW n \in Nodes, Moves(n)
  PROVE  PushInvariant'
<1> SUFFICES ASSUME NEW m \in Nodes, handler'[m] \in {"listed", "streaming"}, ~ pushed'[m]
             PROVE  LastList(m)' = GoalsFor(m)' \/ Awaited(m)'
  BY DEF PushInvariant
<1>1. GoalsFor(m)' = GoalsFor(m) /\ Awaited(m)' = Awaited(m)
  BY DEF cloudVars, GoalsFor, Awaited, Announced
<1>2. CASE m # n
  <2>1. LastList(m)' = LastList(m)
    BY <1>2 DEF LastList, Moves
  <2> QED  BY <1>1, <1>2, <2>1 DEF PushInvariant, Moves
<1>3. CASE m = n
  BY <1>1, <1>3 DEF PushInvariant, Moves
<1> QED  BY <1>2, <1>3

\* Reading a list does not change which was written last.
LEMMA ReadLastList ==
  ASSUME StreamTypeOK, NEW n \in Nodes, wire[n] # <<>>,
         nodeGoals' = [nodeGoals EXCEPT ![n] = Head(wire[n])],
         wire' = [wire EXCEPT ![n] = Tail(wire[n])]
  PROVE  LastList(n)' = LastList(n)
<1>1. PICK w : w = wire[n]
  OBVIOUS
<1>2. /\ w \in Seq(SUBSET Goal) /\ w # <<>>
      /\ nodeGoals'[n] = Head(w) /\ wire'[n] = Tail(w)
  BY <1>1 DEF StreamTypeOK
<1>3. /\ Len(w) \in Nat /\ Len(w) # 0 /\ Head(w) = w[1]
      /\ Tail(w) \in Seq(SUBSET Goal) /\ Len(Tail(w)) = Len(w) - 1
      /\ \A k \in 1..(Len(w) - 1) : Tail(w)[k] = w[k + 1]
  BY <1>2, HeadTailProperties, LenProperties, EmptySeq
<1>4. Tail(w) = <<>> <=> Len(Tail(w)) = 0
  <2>1. \A q \in Seq(SUBSET Goal) : q = <<>> <=> Len(q) = 0
    BY EmptySeq
  <2> QED  BY <1>3, <2>1
<1>5. CASE Len(w) = 1
  <2>1. Tail(w) = <<>>
    BY <1>3, <1>5, <1>4
  <2> QED  BY <1>1, <1>2, <1>3, <1>5, <2>1 DEF LastList
<1>6. CASE Len(w) # 1
  <2>1. Len(w) - 1 \in 1..(Len(w) - 1) /\ (Len(w) - 1) + 1 = Len(w)
    BY <1>3, <1>6
  <2>2. Tail(w) # <<>>
    BY <1>3, <1>6, <1>4
  <2>3. Tail(w)[Len(Tail(w))] = w[Len(w)]
    BY <1>3, <2>1
  <2> QED  BY <1>1, <1>2, <2>2, <2>3 DEF LastList
<1> QED  BY <1>5, <1>6

\* Every step of a stream is of these kinds.
LEMMA StreamMoves ==
  ASSUME RequestInv, NEW n \in Nodes,
         Stream(n) \/ (LoseConnection(n) /\ UNCHANGED cloudVars)
  PROVE  UNCHANGED cloudVars /\ Moves(n)
<1>1. StreamTypeOK /\ UNCHANGED cloudVars
  BY DEF RequestInv, TypeOK, StreamTypeOK, Stream
<1>2. CASE Connect(n) \/ TakePushed(n) \/ LoseConnection(n)
  <2>1. handler'[n] \in {"none", "subscribed"}
    BY <1>1, <1>2 DEF Connect, TakePushed, LoseConnection, StreamTypeOK
  <2>2. \A m \in Nodes \ {n} :
          /\ handler'[m] = handler[m] /\ pushed'[m] = pushed[m]
          /\ wire'[m] = wire[m] /\ nodeGoals'[m] = nodeGoals[m]
    BY <1>1, <1>2 DEF Connect, TakePushed, LoseConnection, StreamTypeOK
  <2> QED  BY <1>1, <2>1, <2>2 DEF Moves
<1>3. CASE ListGoals(n, GoalsFor(n))
  <2>1. wire[n] \in Seq(SUBSET Goal) /\ GoalsFor(n) \in SUBSET Goal
    BY <1>1 DEF StreamTypeOK, RequestInv, TypeOK, GoalsFor
  <2>2. wire'[n] = Append(wire[n], GoalsFor(n))
    BY <1>1, <1>3 DEF ListGoals, StreamTypeOK
  <2>3. wire'[n] # <<>> /\ wire'[n][Len(wire'[n])] = GoalsFor(n)
    <3>1. PICK w, l : w = wire[n] /\ l = GoalsFor(n)
      OBVIOUS
    <3>2. w \in Seq(SUBSET Goal) /\ l \in SUBSET Goal /\ wire'[n] = Append(w, l)
      BY <2>1, <2>2, <3>1
    <3>3. Append(w, l) # <<>> /\ Append(w, l)[Len(Append(w, l))] = l
      BY <3>2, AppendProperties, LenProperties
    <3> QED  BY <3>1, <3>2, <3>3
  <2>4. LastList(n)' = GoalsFor(n)
    BY <2>3 DEF LastList
  <2>5. \A m \in Nodes \ {n} :
          /\ handler'[m] = handler[m] /\ pushed'[m] = pushed[m]
          /\ wire'[m] = wire[m] /\ nodeGoals'[m] = nodeGoals[m]
    BY <1>1, <1>3 DEF ListGoals, StreamTypeOK
  <2> QED  BY <1>1, <2>4, <2>5 DEF Moves
<1>4. CASE Flush(n)
  <2>1. handler[n] = "listed" /\ UNCHANGED <<pushed, wire, nodeGoals>>
    BY <1>4 DEF Flush
  <2>2. LastList(n)' = LastList(n)
    BY <2>1 DEF LastList
  <2>3. \A m \in Nodes \ {n} : handler'[m] = handler[m]
    BY <1>1, <1>4 DEF Flush, StreamTypeOK
  <2> QED  BY <1>1, <2>1, <2>2, <2>3 DEF Moves
<1>5. CASE StreamBroken(n)
  <2>1. UNCHANGED <<handler, pushed, wire, nodeGoals>> /\ handler'[n] = "none"
    BY <1>5 DEF StreamBroken
  <2> QED  BY <1>1, <2>1 DEF Moves
<1>6. CASE Deliver(n)
  <2>1. \A m \in Nodes \ {n} :
          /\ handler'[m] = handler[m] /\ pushed'[m] = pushed[m]
          /\ wire'[m] = wire[m] /\ nodeGoals'[m] = nodeGoals[m]
    BY <1>1, <1>6 DEF Deliver, StreamTypeOK
  <2>2. CASE handler'[n] = "none"
    BY <1>1, <2>1, <2>2 DEF Moves
  <2>3. CASE handler'[n] # "none"
    <3>1. /\ nodeGoals' = [nodeGoals EXCEPT ![n] = Head(wire[n])]
          /\ wire' = [wire EXCEPT ![n] = Tail(wire[n])]
          /\ UNCHANGED <<handler, pushed>>
      BY <1>1, <1>6, <2>3 DEF Deliver, StreamTypeOK
    <3>2. LastList(n)' = LastList(n)
      BY <1>1, <1>6, <3>1, ReadLastList DEF Deliver
    <3>3. handler[n] \in {"subscribed", "listed", "streaming"}
      BY <1>1, <2>3, <3>1 DEF StreamTypeOK, HandlerState
    <3> QED  BY <1>1, <2>1, <3>1, <3>2, <3>3 DEF Moves
  <2> QED  BY <2>2, <2>3
<1> QED  BY <1>2, <1>3, <1>4, <1>5, <1>6 DEF Stream, StreamStep

\* ... and keeps what is still to be pushed.
LEMMA PushStream ==
  ASSUME RequestInv, PushInvariant, NEW n \in Nodes,
         Stream(n) \/ (LoseConnection(n) /\ UNCHANGED cloudVars)
  PROVE  PushInvariant'
BY StreamMoves, PushMoved

-----------------------------------------------------------------------------
(* Every step                                                              *)

\* The process starts with goals of the database, and no stream is open.
LEMMA StreamStartUp ==
  ASSUME MapContext, StartUp PROVE StreamInvariant'
<1>1. /\ UNCHANGED <<jobs, goalCount>> /\ request' = [r \in Request |-> Idle]
      /\ handler' = [n \in Nodes |-> "none"]
  BY DEF StartUp, StreamReset
<1>2. \A r \in Request : request'[r] = Idle
  BY <1>1
<1>3. HeldBy(Idle) = {} /\ KeepsNodes(Idle)
  BY DEF HeldBy, KeepsNodes, Idle
<1>4. NumberInvariant'
  <2> DEFINE N == {}
  <2>1. scienceGoals' \subseteq HeldGoals
    BY LoadedFacts, HeldMembers DEF StartUp, MapContext
  <2>2. /\ scienceGoals' \subseteq HeldGoals \cup N
        /\ \A i \in DOMAIN jobs' : jobs'[i].goal \in HeldGoals \cup N
        /\ \A r \in Request : HeldBy(request'[r]) \subseteq HeldGoals \cup N
    BY <1>1, <1>2, <1>3, <2>1, HeldMembers
  <2> HIDE DEF N
  <2>3. HeldGoals' \subseteq HeldGoals \cup N
    BY <2>2, HeldAfter
  <2>4. HeldGoals' \subseteq HeldGoals
    BY <2>3 DEF N
  <2> QED  BY <1>1, <2>4, NumberKept DEF MapContext
<1>5. NodesInvariant'
  BY <1>1, <1>2, <1>3 DEF MapContext, NodesInvariant
<1>6. PushInvariant'
  BY <1>1 DEF PushInvariant
<1> QED  BY <1>4, <1>5, <1>6 DEF StreamInvariant

\* Requests of users: none edits or dry-runs.
LEMMA MapUserRequest ==
  ASSUME MapContext, UserRequest PROVE MapKept /\ UNCHANGED streamVars
<1>1. PICK u \in Users :
       \/ \E S \in NodeSets : CreateJob(u, S) \/ \E r \in Request : SubmitNew(r, u, S)
       \/ \E r \in Request, j \in DOMAIN jobs :
            \/ \E op \in {"submit", "dryrun"} : SubmitExisting(r, u, j, op)
            \/ \E S \in NodeSets : EditJob(r, u, j, S)
            \/ SuspendJob(r, u, j)
            \/ \E op \in {"remove", "force"} : RemoveJob(r, u, j, op)
  BY DEF UserRequest
<1>2. ASSUME NEW S \in NodeSets, CreateJob(u, S) PROVE MapKept /\ UNCHANGED streamVars
  BY <1>2, MapCreateJob DEF CreateJob
<1>3. ASSUME NEW S \in NodeSets, NEW r \in Request, SubmitNew(r, u, S)
      PROVE  MapKept /\ UNCHANGED streamVars
  BY <1>3, MapSubmitNew DEF SubmitNew
<1>4. ASSUME NEW r \in Request, NEW j \in DOMAIN jobs, NEW op \in {"submit", "dryrun"},
             SubmitExisting(r, u, j, op)
      PROVE  MapKept /\ UNCHANGED streamVars
  BY <1>4, MapSubmitExisting DEF SubmitExisting
<1>5. ASSUME NEW r \in Request, NEW j \in DOMAIN jobs, NEW S \in NodeSets
      PROVE  ~ EditJob(r, u, j, S)
  BY DEF EditJob, MapContext, NoRewrites
<1>6. ASSUME NEW r \in Request, NEW j \in DOMAIN jobs, SuspendJob(r, u, j)
      PROVE  MapKept /\ UNCHANGED streamVars
  <2> DEFINE e == [type |-> "suspended", id |-> j]
  <2>1. /\ request[r] = Idle /\ jobs' = InState(j, "Suspended") /\ "Suspended" \in JobState
        /\ request' = [request EXCEPT ![r] = [at |-> "notify", event |-> e]]
        /\ UNCHANGED <<goalCount, scienceGoals, chanFromGoalManager, main, streamVars>>
    BY <1>6 DEF SuspendJob, JobState
  <2> HIDE DEF e
  <2> QED  BY <2>1, MapWithdraw
<1>7. ASSUME NEW r \in Request, NEW j \in DOMAIN jobs, NEW op \in {"remove", "force"},
             RemoveJob(r, u, j, op)
      PROVE  MapKept /\ UNCHANGED streamVars
  <2> DEFINE e == [type |-> "removed", id |-> GetJob(j).goal.id]
  <2>1. /\ request[r] = Idle /\ jobs' = InState(j, "Removed") /\ "Removed" \in JobState
        /\ request' = [request EXCEPT ![r] = [at |-> "notify", event |-> e]]
        /\ UNCHANGED <<goalCount, scienceGoals, chanFromGoalManager, main, streamVars>>
    BY <1>7 DEF RemoveJob, JobState
  <2> HIDE DEF e
  <2> QED  BY <2>1, MapWithdraw
<1> QED  BY <1>1, <1>2, <1>3, <1>4, <1>5, <1>6, <1>7

\* The steps of requests that have begun.
LEMMA MapRequestStep ==
  ASSUME MapContext, NEW r \in Request, RequestStep(r) PROVE MapKept /\ UNCHANGED streamVars
<1>1. UNCHANGED streamVars
  BY DEF RequestStep, DropOldGoal, StoreJob, ServeGoal, Notify
<1> QED  BY <1>1, MapDropOldGoal, MapStoreJob, MapServeGoal, MapNotify DEF RequestStep

\* A step leaves what the proof carries along.
LEMMA StreamNext ==
  ASSUME NoRewrites, RequestInv, StreamInvariant, [Next]_vars PROVE StreamInvariant'
<1>1. MapContext /\ PushInvariant
  BY DEF MapContext, StreamInvariant
<1>2. ASSUME MapKept, UNCHANGED streamVars PROVE StreamInvariant'
  BY <1>1, <1>2, PushKept DEF MapKept, StreamInvariant
<1>3. CASE UserRequest
  BY <1>1, <1>2, <1>3, MapUserRequest
<1>4. CASE \E r \in Request : RequestStep(r)
  BY <1>1, <1>2, <1>4, MapRequestStep
<1>5. CASE HandleRemoved \/ HandleSuspended \/ HandleSubmitted
  <2>1. UNCHANGED streamVars
    BY <1>5 DEF HandleRemoved, HandleSuspended, HandleSubmitted
  <2> QED  BY <1>1, <1>2, <1>5, <2>1, MapHandle
<1>6. ASSUME UNCHANGED <<jobs, goalCount, scienceGoals, request>>
      PROVE  NumberInvariant' /\ NodesInvariant'
  <2>1. \A s \in Request :
          HeldBy(request'[s]) \subseteq HeldBy(request[s]) /\ KeepsNodes(request'[s])
    BY <1>1, <1>6 DEF MapContext, NodesInvariant
  <2> QED  BY <1>1, <1>6, <2>1, HeldUnchanged
<1>7. CASE \E n \in Nodes : UpdateNode(n)
  <2>1. UNCHANGED <<jobs, goalCount, scienceGoals, request>>
    BY <1>7 DEF UpdateNode
  <2>2. PushInvariant'
    BY <1>1, <1>7, PushUpdateNode
  <2> QED  BY <1>6, <2>1, <2>2 DEF StreamInvariant
<1>8. CASE \E n \in Nodes : Stream(n) \/ (LoseConnection(n) /\ UNCHANGED cloudVars)
  <2>1. UNCHANGED <<jobs, goalCount, scienceGoals, request>>
    BY <1>8, InvStream DEF cloudVars
  <2>2. PushInvariant'
    BY <1>1, <1>8, PushStream
  <2> QED  BY <1>6, <2>1, <2>2 DEF StreamInvariant
<1>9. CASE Restart \/ \E n \in Nodes : NodeEvent(n)
  BY <1>1, <1>9, StreamStartUp DEF Restart, NodeEvent
<1>10. CASE \E j \in DOMAIN jobs, st \in JobState : SetRecord(j, st)
  <2>1. UNCHANGED streamVars
    BY <1>10 DEF SetRecord
  <2> QED  BY <1>1, <1>2, <1>10, <2>1, MapSetRecord
<1>11. CASE UNCHANGED vars
  <2>1. UNCHANGED streamVars /\ UNCHANGED <<jobs, goalCount, scienceGoals, request, main, chanFromGoalManager>>
    BY <1>11 DEF vars, cloudVars
  <2> QED  BY <1>2, <1>6, <2>1, WatchfulElsewhere DEF MapKept
<1> QED  BY <1>3, <1>4, <1>5, <1>7, <1>8, <1>9, <1>10, <1>11 DEF Next, MainStep

\* The initial states.
LEMMA StreamInitial == ASSUME Init PROVE StreamInvariant
<1>1. HeldBy(Idle) = {} /\ KeepsNodes(Idle)
  BY DEF HeldBy, KeepsNodes, Idle
<1>2. HeldGoals = {}
  BY <1>1 DEF Init, HeldGoals
<1>3. NumberInvariant /\ NodesInvariant
  BY <1>1, <1>2 DEF Init, NumberInvariant, NodesInvariant
<1>4. PushInvariant
  BY DEF Init, StreamInit, PushInvariant
<1> QED  BY <1>3, <1>4 DEF StreamInvariant

\* Nobody is going to push when nothing is under way.
LEMMA SettledPushes ==
  ASSUME StreamInvariant PROVE StreamIsCurrent
<1> SUFFICES ASSUME Settled, NEW n \in Nodes, handler[n] = "streaming", ~ pushed[n]
             PROVE  LastList(n) = GoalsFor(n)
  BY DEF StreamIsCurrent
<1>1. /\ main.nodes = {} /\ chanFromGoalManager = <<>>
      /\ \A r \in Request : request[r] = Idle
  BY DEF Settled, Selecting
<1>2. Notifies(Idle) = {} /\ Idle.at # "notify"
  BY DEF Notifies, Idle
<1>3. \A g : ~ Announced(g)
  BY <1>1, <1>2 DEF Announced, Announces
<1>4. ~ Awaited(n)
  BY <1>1, <1>2, <1>3 DEF Awaited
<1> QED  BY <1>4 DEF StreamInvariant, PushInvariant

\* What the proof carries along is an invariant: goals of one number are for the same
\* nodes wherever they are held, a record and its goal for the same, and a stream
\* whose list is old has a push in its channel or to come (api_server.go:82-85).
THEOREM StreamInvariantHolds == ASSUME NoRewrites PROVE Spec => []StreamInvariant
<1>1. Init => RequestInv /\ StreamInvariant
  BY InvInit, StreamInitial
<1>2. RequestInv /\ StreamInvariant /\ [Next]_vars => RequestInv' /\ StreamInvariant'
  BY InvNext, StreamNext
<1> QED  BY <1>1, <1>2, PTL DEF Spec

\* No push is lost for good: when nothing is under way, an open stream with an empty
\* channel has been sent what its node is to serve, whatever full channels, a handler
\* that was just listing, requests at the same time, lost connections and crashes have
\* done (api_server.go:82-85, 613-650; cloudscheduler.go:243-256).
THEOREM StreamIsCurrentHolds == ASSUME NoRewrites PROVE Spec => []StreamIsCurrent
<1>1. Spec => []StreamInvariant
  BY StreamInvariantHolds
<1>2. StreamInvariant => StreamIsCurrent
  BY SettledPushes
<1> QED  BY <1>1, <1>2, PTL

-----------------------------------------------------------------------------
(* What is served is sent, with edits and dry runs as well                 *)

\* What a step that leaves the streams alone has to do: the goals served after it
\* were served before, and those that were to be pushed or announced still are, or
\* they are announced now.
Informing ==
  \A g \in scienceGoals' : \A n \in g.nodes :
    \/ g \in scienceGoals /\ ~ (n \in main.nodes \/ Announced(g))
    \/ n \in main'.nodes \/ Announced(g)'

LEMMA SentKept ==
  ASSUME SentInvariant, UNCHANGED streamVars, Informing PROVE SentInvariant'
<1> SUFFICES ASSUME NEW g \in scienceGoals', NEW n \in g.nodes,
                    handler'[n] \in {"listed", "streaming"}, ~ pushed'[n]
             PROVE  g \in LastList(n)' \/ n \in main'.nodes \/ Announced(g)'
  BY DEF SentInvariant
<1>1. LastList(n)' = LastList(n) /\ handler' = handler /\ pushed' = pushed
  BY DEF LastList, streamVars
<1> QED  BY <1>1 DEF Informing, SentInvariant

\* No goal more is served, and nobody who announces one goes away.
LEMMA InformingMoved ==
  ASSUME RequestInv, scienceGoals' \subseteq scienceGoals,
         UNCHANGED <<chanFromGoalManager, main>>,
         \A r \in Request : request[r].at = "notify" => request'[r] = request[r]
  PROVE  Informing
<1> SUFFICES ASSUME NEW g \in scienceGoals', Announced(g) PROVE Announced(g)'
  BY DEF Informing
<1>1. ASSUME NEW r \in Request, Announces(request[r], g) PROVE Announces(request'[r], g)
  BY <1>1 DEF Announces
<1> QED  BY <1>1 DEF Announced

\* Requests of users, and the steps that write and drop.
LEMMA InformingUserRequest ==
  ASSUME RequestInv, UserRequest PROVE Informing /\ UNCHANGED streamVars
<1>1. UNCHANGED <<scienceGoals, chanFromGoalManager, main, streamVars>>
  <2> DEFINE Same == UNCHANGED <<scienceGoals, chanFromGoalManager, main, streamVars>>
  <2>1. ASSUME NEW u \in Users, NEW S \in NodeSets, CreateJob(u, S) PROVE Same
    BY <2>1 DEF CreateJob
  <2>2. ASSUME NEW u \in Users, NEW S \in NodeSets, NEW r \in Request, SubmitNew(r, u, S)
        PROVE  Same
    BY <2>2 DEF SubmitNew
  <2>3. ASSUME NEW u \in Users, NEW r \in Request, NEW j \in DOMAIN jobs,
               NEW op \in {"submit", "dryrun"}, SubmitExisting(r, u, j, op)
        PROVE  Same
    BY <2>3 DEF SubmitExisting
  <2>4. ASSUME NEW u \in Users, NEW r \in Request, NEW j \in DOMAIN jobs,
               NEW S \in NodeSets, EditJob(r, u, j, S)
        PROVE  Same
    BY <2>4 DEF EditJob
  <2>5. ASSUME NEW u \in Users, NEW r \in Request, NEW j \in DOMAIN jobs, SuspendJob(r, u, j)
        PROVE  Same
    BY <2>5 DEF SuspendJob
  <2>6. ASSUME NEW u \in Users, NEW r \in Request, NEW j \in DOMAIN jobs,
               NEW op \in {"remove", "force"}, RemoveJob(r, u, j, op)
        PROVE  Same
    BY <2>6 DEF RemoveJob
  <2> HIDE DEF Same
  <2>7. Same
    BY <2>1, <2>2, <2>3, <2>4, <2>5, <2>6 DEF UserRequest
  <2> QED  BY <2>7 DEF Same
<1>2. \/ request' = request
      \/ \E r \in Request : request[r] = Idle /\ \E q : request' = [request EXCEPT ![r] = q]
  <2>1. PICK u \in Users :
       \/ \E S \in NodeSets : CreateJob(u, S) \/ \E r \in Request : SubmitNew(r, u, S)
       \/ \E r \in Request, j \in DOMAIN jobs :
            \/ \E op \in {"submit", "dryrun"} : SubmitExisting(r, u, j, op)
            \/ \E S \in NodeSets : EditJob(r, u, j, S)
            \/ SuspendJob(r, u, j)
            \/ \E op \in {"remove", "force"} : RemoveJob(r, u, j, op)
    BY DEF UserRequest
  <2>2. ASSUME NEW S \in NodeSets, CreateJob(u, S) PROVE request' = request
    BY <2>2 DEF CreateJob
  <2> DEFINE Begins(r) == request[r] = Idle /\ \E q : request' = [request EXCEPT ![r] = q]
  <2>3. ASSUME NEW S \in NodeSets, NEW r \in Request, SubmitNew(r, u, S) PROVE Begins(r)
    BY <2>3 DEF SubmitNew
  <2>4. ASSUME NEW r \in Request, NEW j \in DOMAIN jobs, NEW op \in {"submit", "dryrun"},
               SubmitExisting(r, u, j, op)
        PROVE  Begins(r)
    BY <2>4 DEF SubmitExisting
  <2>5. ASSUME NEW r \in Request, NEW j \in DOMAIN jobs, NEW S \in NodeSets, EditJob(r, u, j, S)
        PROVE  Begins(r)
    BY <2>5 DEF EditJob
  <2>6. ASSUME NEW r \in Request, NEW j \in DOMAIN jobs, SuspendJob(r, u, j) PROVE Begins(r)
    BY <2>6 DEF SuspendJob
  <2>7. ASSUME NEW r \in Request, NEW j \in DOMAIN jobs, NEW op \in {"remove", "force"},
               RemoveJob(r, u, j, op)
        PROVE  Begins(r)
    BY <2>7 DEF RemoveJob
  <2> QED  BY <2>1, <2>2, <2>3, <2>4, <2>5, <2>6, <2>7
<1>3. Idle.at # "notify"
  BY DEF Idle
<1>4. \A r \in Request : request[r].at = "notify" => request'[r] = request[r]
  BY <1>2, <1>3, RequestMoved
<1> QED  BY <1>1, <1>4, InformingMoved

\* A submitted goal is served, and its request is going to announce it.
LEMMA InformingServeGoal ==
  ASSUME RequestInv, NEW r \in Request, ServeGoal(r) PROVE Informing
<1>0. PICK g : g = request[r].goal
  OBVIOUS
<1> DEFINE q == [at |-> "notify", event |-> [type |-> "submitted", id |-> g.id]]
<1>1. /\ request[r].at = "serve" /\ scienceGoals' = Without(g.id) \cup {g}
      /\ request' = [request EXCEPT ![r] = q]
      /\ UNCHANGED <<chanFromGoalManager, main>>
  BY <1>0 DEF ServeGoal
<1>2. request'[r] = q /\ \A s \in Request \ {r} : request'[s] = request[s]
  BY <1>1, RequestMoved
<1>3. Announces(q, g)
  BY DEF Announces
<1>4. Announced(g)'
  BY <1>2, <1>3 DEF Announced
<1>5. ASSUME NEW h \in scienceGoals, Announced(h) PROVE Announced(h)'
  <2>1. ~ Announces(request[r], h)
    BY <1>1 DEF Announces
  <2> QED  BY <1>1, <1>2, <1>5, <2>1 DEF Announced
<1> HIDE DEF q
<1>6. \A h \in scienceGoals' : h = g \/ h \in scienceGoals
  BY <1>1 DEF Without
<1> QED  BY <1>1, <1>4, <1>5, <1>6 DEF Informing

\* An event enters the channel.
LEMMA InformingNotify ==
  ASSUME RequestInv, NEW r \in Request, Notify(r) PROVE Informing
<1>1. /\ request[r].at = "notify" /\ request[r] \in RequestState
      /\ chanFromGoalManager \in Seq(Event)
      /\ chanFromGoalManager' = Append(chanFromGoalManager, request[r].event)
      /\ request' = [request EXCEPT ![r] = Idle]
      /\ UNCHANGED <<scienceGoals, main>>
  BY DEF Notify, RequestInv, TypeOK
<1>2. \A s \in Request \ {r} : request'[s] = request[s]
  BY <1>1, RequestMoved
<1>3. request[r].event \in Event
  BY <1>1 DEF RequestState, Idle
<1> DEFINE c == Append(chanFromGoalManager, request[r].event)
           l == Len(chanFromGoalManager)
<1>4. /\ l \in Nat /\ DOMAIN chanFromGoalManager = 1..l /\ DOMAIN c = 1..(l + 1)
      /\ c[l + 1] = request[r].event
      /\ \A i \in 1..l : c[i] = chanFromGoalManager[i]
  BY <1>1, <1>3, AppendProperties, LenProperties
<1>5. l + 1 \in DOMAIN c /\ \A i \in 1..l : i \in DOMAIN c
  BY <1>4
<1> HIDE DEF c, l
<1>6. ASSUME NEW h \in scienceGoals, Announced(h) PROVE Announced(h)'
  <2>1. CASE Announces(request[r], h)
    BY <1>1, <1>4, <1>5, <2>1 DEF Announced, Announces, c
  <2>2. ASSUME NEW s \in Request, s # r, Announces(request[s], h) PROVE Announced(h)'
    BY <1>2, <2>2 DEF Announced, Announces
  <2>3. ASSUME NEW i \in DOMAIN chanFromGoalManager,
               chanFromGoalManager[i] = [type |-> "submitted", id |-> h.id]
        PROVE  Announced(h)'
    BY <1>1, <1>4, <1>5, <2>3 DEF Announced, c
  <2> QED  BY <1>6, <2>1, <2>2, <2>3 DEF Announced
<1> QED  BY <1>1, <1>6 DEF Informing

\* An event is received.  If it announces a goal, the goal's nodes are pushed to.
LEMMA InformingAnnounce ==
  ASSUME RequestInv, main.at = "select", chanFromGoalManager # <<>>, NEW id,
         Announce(WithID(id)), scienceGoals' \subseteq scienceGoals,
         Head(chanFromGoalManager).type = "submitted" => Head(chanFromGoalManager).id = id,
         UNCHANGED request
  PROVE  Informing
<1>1. chanFromGoalManager \in Seq(Event) /\ main.nodes = {}
  BY SelectingNodes DEF RequestInv, TypeOK
<1>2. ASSUME NEW i \in DOMAIN chanFromGoalManager
      PROVE  \/ chanFromGoalManager[i] = Head(chanFromGoalManager)
             \/ \E k \in DOMAIN chanFromGoalManager' : chanFromGoalManager'[k] = chanFromGoalManager[i]
  <2>1. /\ Len(chanFromGoalManager) \in Nat /\ DOMAIN chanFromGoalManager = 1..Len(chanFromGoalManager)
        /\ chanFromGoalManager' = Tail(chanFromGoalManager)
    BY <1>1, LenProperties DEF Announce
  <2>2. /\ Head(chanFromGoalManager) = chanFromGoalManager[1]
        /\ DOMAIN chanFromGoalManager' = 1..(Len(chanFromGoalManager) - 1)
        /\ \A k \in 1..(Len(chanFromGoalManager) - 1) : chanFromGoalManager'[k] = chanFromGoalManager[k + 1]
    BY <1>1, <2>1, HeadTailProperties, LenProperties
  <2>3. CASE i = 1
    BY <2>2, <2>3
  <2>4. CASE i # 1
    <3>1. i - 1 \in DOMAIN chanFromGoalManager' /\ (i - 1) + 1 = i
      BY <2>1, <2>2, <2>4
    <3>2. chanFromGoalManager'[i - 1] = chanFromGoalManager[i]
      BY <2>2, <3>1
    <3> QED  BY <3>1, <3>2
  <2> QED  BY <2>3, <2>4
<1> SUFFICES ASSUME NEW g \in scienceGoals', NEW n \in g.nodes, Announced(g)
             PROVE  n \in main'.nodes \/ Announced(g)'
  BY <1>1 DEF Informing
<1>3. CASE g.id = id
  <2>1. g \in WithID(id)
    BY <1>3 DEF WithID
  <2>2. main'.nodes = UNION {h.nodes : h \in WithID(id)}
    BY <2>1 DEF Announce
  <2> QED  BY <2>1, <2>2
<1>4. CASE g.id # id
  <2>1. ASSUME NEW i \in DOMAIN chanFromGoalManager,
               chanFromGoalManager[i] = [type |-> "submitted", id |-> g.id]
        PROVE  Announced(g)'
    <3>1. chanFromGoalManager[i] # Head(chanFromGoalManager)
      BY <1>4, <2>1
    <3> QED  BY <1>2, <2>1, <3>1 DEF Announced
  <2>2. ASSUME NEW s \in Request, Announces(request[s], g) PROVE Announced(g)'
    BY <2>2 DEF Announced, Announces
  <2> QED  BY <2>1, <2>2 DEF Announced
<1> QED  BY <1>3, <1>4

\* The three events.
LEMMA InformingHandle ==
  ASSUME RequestInv, HandleRemoved \/ HandleSuspended \/ HandleSubmitted PROVE Informing
<1>1. CASE HandleRemoved
  BY <1>1, InformingAnnounce DEF HandleRemoved, Receives, Without
<1>2. CASE HandleSuspended
  BY <1>2, InformingAnnounce DEF HandleSuspended, Receives, Without
<1>3. CASE HandleSubmitted
  BY <1>3, InformingAnnounce DEF HandleSubmitted, Receives
<1> QED  BY <1>1, <1>2, <1>3

\* updateNodes, one iteration.
LEMMA SentUpdateNode ==
  ASSUME RequestInv, SentInvariant, NEW m \in Nodes, UpdateNode(m) PROVE SentInvariant'
<1> SUFFICES ASSUME NEW g \in scienceGoals', NEW n \in g.nodes,
                    handler'[n] \in {"listed", "streaming"}, ~ pushed'[n]
             PROVE  g \in LastList(n)' \/ n \in main'.nodes \/ Announced(g)'
  BY DEF SentInvariant
<1>1. /\ UNCHANGED <<scienceGoals, chanFromGoalManager, request, handler, wire, nodeGoals>>
      /\ pushed' = [pushed EXCEPT ![m] = handler[m] # "none"]
      /\ main' = IF main.nodes = {m} THEN Selecting ELSE [main EXCEPT !.nodes = @ \ {m}]
  BY DEF UpdateNode, PushTo
<1>2. n # m /\ pushed'[n] = pushed[n]
  <2>1. pushed \in [Nodes -> BOOLEAN] /\ g \in Goal
    BY <1>1 DEF RequestInv, TypeOK
  <2>2. n \in Nodes
    BY <2>1 DEF Goal
  <2> QED  BY <1>1, <2>1, <2>2
<1>3. LastList(n)' = LastList(n) /\ Announced(g)' = Announced(g)
  BY <1>1 DEF LastList, Announced
<1>4. n \in main.nodes => n \in main'.nodes
  <2> SUFFICES ASSUME n \in main.nodes PROVE n \in main'.nodes
    OBVIOUS
  <2>1. main' = [main EXCEPT !.nodes = @ \ {m}]
    BY <1>1, <1>2
  <2>2. main \in [at : {"update"}, nodes : SUBSET Nodes]
    BY DEF UpdateNode, RequestInv, TypeOK, MainState
  <2> QED  BY <1>2, <2>1, <2>2
<1> QED  BY <1>1, <1>2, <1>3, <1>4 DEF SentInvariant

\* One stream moves.
LEMMA SentMoved ==
  ASSUME RequestInv, SentInvariant, UNCHANGED cloudVars, NEW n \in Nodes, Moves(n)
  PROVE  SentInvariant'
<1> SUFFICES ASSUME NEW g \in scienceGoals', NEW m \in g.nodes,
                    handler'[m] \in {"listed", "streaming"}, ~ pushed'[m]
             PROVE  g \in LastList(m)' \/ m \in main'.nodes \/ Announced(g)'
  BY DEF SentInvariant
<1>1. /\ g \in scienceGoals /\ main' = main /\ Announced(g)' = Announced(g)
      /\ g \in GoalsFor(m)
  BY DEF cloudVars, GoalsFor, Announced
<1>2. m \in Nodes
  <2>1. g \in Goal
    BY <1>1 DEF RequestInv, TypeOK
  <2> QED  BY <2>1 DEF Goal
<1>3. CASE m # n
  <2>1. LastList(m)' = LastList(m)
    BY <1>2, <1>3 DEF LastList, Moves
  <2> QED  BY <1>1, <1>2, <1>3, <2>1 DEF SentInvariant, Moves
<1>4. CASE m = n
  BY <1>1, <1>4 DEF SentInvariant, Moves
<1> QED  BY <1>3, <1>4

LEMMA SentNext ==
  ASSUME RequestInv, SentInvariant, [Next]_vars PROVE SentInvariant'
<1>1. ASSUME Informing, UNCHANGED streamVars PROVE SentInvariant'
  BY <1>1, SentKept
<1>2. CASE UserRequest
  BY <1>1, <1>2, InformingUserRequest
<1>3. ASSUME NEW r \in Request, RequestStep(r) PROVE SentInvariant'
  <2>1. UNCHANGED streamVars
    BY <1>3 DEF RequestStep, DropOldGoal, StoreJob, ServeGoal, Notify
  <2>2. CASE DropOldGoal(r) \/ StoreJob(r)
    <3>1. /\ request[r].at \in {"drop", "store"} /\ \E q : request' = [request EXCEPT ![r] = q]
          /\ scienceGoals' \subseteq scienceGoals /\ UNCHANGED <<chanFromGoalManager, main>>
      BY <2>2 DEF DropOldGoal, StoreJob, Without
    <3>2. \A s \in Request : request[s].at = "notify" => request'[s] = request[s]
      BY <3>1, RequestMoved
    <3> QED  BY <1>1, <2>1, <3>1, <3>2, InformingMoved
  <2> QED
    BY <1>1, <1>3, <2>1, <2>2, InformingServeGoal, InformingNotify DEF RequestStep
<1>4. CASE HandleRemoved \/ HandleSuspended \/ HandleSubmitted
  <2>1. UNCHANGED streamVars
    BY <1>4 DEF HandleRemoved, HandleSuspended, HandleSubmitted
  <2> QED  BY <1>1, <1>4, <2>1, InformingHandle
<1>5. CASE \E n \in Nodes : UpdateNode(n)
  BY <1>5, SentUpdateNode
<1>6. CASE \E n \in Nodes : Stream(n) \/ (LoseConnection(n) /\ UNCHANGED cloudVars)
  BY <1>6, StreamMoves, SentMoved
<1>7. CASE Restart \/ \E n \in Nodes : NodeEvent(n)
  <2>1. handler' = [n \in Nodes |-> "none"] /\ scienceGoals' \subseteq Goal
    BY <1>7, InvStartUp DEF Restart, NodeEvent, StartUp, StreamReset, RequestInv, TypeOK
  <2>2. \A g \in scienceGoals' : g.nodes \subseteq Nodes
    BY <2>1 DEF Goal
  <2> QED  BY <2>1, <2>2 DEF SentInvariant
<1>8. CASE \E j \in DOMAIN jobs, st \in JobState : SetRecord(j, st)
  BY <1>1, <1>8, InformingMoved DEF SetRecord
<1>9. CASE UNCHANGED vars
  BY <1>1, <1>9, InformingMoved DEF vars, cloudVars
<1> QED  BY <1>2, <1>3, <1>4, <1>5, <1>6, <1>7, <1>8, <1>9 DEF Next, MainStep

\* A goal that is served has been sent on every open stream of its nodes, or is still
\* to be announced or pushed, whatever users edit, dry-run, submit and remove at the
\* same time (api_server.go:82-85, 259, 613-650; cloudscheduler.go:243-256).
THEOREM SentInvariantHolds == Spec => []SentInvariant
<1>1. Init => RequestInv /\ SentInvariant
  BY InvInit DEF Init, SentInvariant
<1>2. RequestInv /\ SentInvariant /\ [Next]_vars => RequestInv' /\ SentInvariant'
  BY InvNext, SentNext
<1> QED  BY <1>1, <1>2, PTL DEF Spec

\* No goal is kept from a node for good: when nothing is under way, an open stream
\* with an empty channel has been sent every goal its node is to serve.
THEOREM ServedIsSentHolds == Spec => []ServedIsSent
<1>1. SentInvariant => ServedIsSent
  <2> SUFFICES ASSUME SentInvariant, Settled, NEW n \in Nodes, handler[n] = "streaming",
                      ~ pushed[n], NEW g \in GoalsFor(n)
               PROVE  g \in LastList(n)
    BY DEF ServedIsSent
  <2>1. g \in scienceGoals /\ n \in g.nodes
    BY DEF GoalsFor
  <2>2. main.nodes = {} /\ ~ Announced(g)
    BY DEF Settled, Selecting, Announced, Announces, Idle
  <2> QED  BY <2>1, <2>2 DEF SentInvariant
<1> QED  BY <1>1, SentInvariantHolds, PTL
=============================================================================
