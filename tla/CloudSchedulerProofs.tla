------------------------ MODULE CloudSchedulerProofs ------------------------
(***************************************************************************)
(* Proofs about CloudScheduler, for all nodes, users, requests and bounds. *)
(***************************************************************************)
EXTENDS CloudSchedulerProperties, SequenceTheorems, TLAPS

\* A request that is changing a job holds the owner the job has, and a goal for
\* that job when it is to be submitted; what is served is a goal.
Prepared(r) ==
  LET q == request[r]
  IN /\ q.at \in {"drop", "store"} =>
          /\ q.job \in DOMAIN jobs
          /\ q.rec.user = jobs[q.job].user
          /\ q.op # "edit" => q.rec.goal \in Goal /\ q.rec.goal.job = q.job
     /\ q.at = "serve" => q.goal \in Goal

\* The types, strengthened to be inductive.
RequestInv == TypeOK /\ \A r \in Request : Prepared(r)

\* The goal of an active job is a goal for that job.
ActiveHaveGoals ==
  \A i \in DOMAIN jobs : jobs[i].state \in Active => jobs[i].goal.job = i

\* A process can always load the database.
StartInv == RequestInv /\ ActiveHaveGoals /\ main.at # "crashed"

\* What a single request at a time adds: it still holds the goal of its job until
\* it drops it, then no goal of the job is served, and what it is about to serve
\* is the goal of its job.
Exclusive(r) ==
  LET q == request[r]
  IN /\ q.at = "drop" => q.old = jobs[q.job].goal
     /\ q.at = "store" => \A g \in scienceGoals : g.job # q.job
     /\ q.at = "serve" => q.goal.job \in DOMAIN jobs /\ jobs[q.goal.job].goal = q.goal

ServeInv == StartInv /\ ServedIsCurrent /\ \A r \in Request : Exclusive(r)

-----------------------------------------------------------------------------
(* Data                                                                    *)

\* The database with one more record.
LEMMA AddedFacts ==
  ASSUME jobs \in Seq(Job), NEW rec \in Job
  PROVE  /\ Added(rec) \in Seq(Job)
         /\ Len(Added(rec)) = Len(jobs) + 1
         /\ DOMAIN jobs = 1..Len(jobs)
         /\ DOMAIN Added(rec) = 1..(Len(jobs) + 1)
         /\ \A i \in DOMAIN jobs : Added(rec)[i] = jobs[i]
         /\ Added(rec)[Len(jobs) + 1] = rec
<1>1. /\ Added(rec) \in Seq(Job)
      /\ Len(Added(rec)) = Len(jobs) + 1
      /\ \A i \in 1..Len(jobs) : Added(rec)[i] = jobs[i]
      /\ Added(rec)[Len(jobs) + 1] = rec
  BY AppendProperties DEF Added
<1>2. DOMAIN jobs = 1..Len(jobs) /\ DOMAIN Added(rec) = 1..Len(Added(rec))
  BY <1>1, LenProperties
<1> QED  BY <1>1, <1>2

\* The database with one record replaced.
LEMMA PutFacts ==
  ASSUME jobs \in Seq(Job), NEW j \in DOMAIN jobs, NEW rec \in Job
  PROVE  /\ Put(j, rec) \in Seq(Job)
         /\ Len(Put(j, rec)) = Len(jobs)
         /\ DOMAIN Put(j, rec) = DOMAIN jobs
         /\ \A i \in DOMAIN jobs : Put(j, rec)[i] = IF i = j THEN rec ELSE jobs[i]
<1>1. DOMAIN jobs = 1..Len(jobs)
  BY LenProperties
<1>2. /\ Put(j, rec) \in Seq(Job)
      /\ Len(Put(j, rec)) = Len(jobs)
      /\ \A i \in 1..Len(jobs) : Put(j, rec)[i] = IF i = j THEN rec ELSE jobs[i]
  BY <1>1, ExceptSeq DEF Put
<1>3. DOMAIN Put(j, rec) = 1..Len(Put(j, rec))
  BY <1>2, LenProperties
<1> QED  BY <1>1, <1>2, <1>3

\* A record, and its number.
LEMMA JobFacts ==
  ASSUME jobs \in Seq(Job), Len(jobs) <= MaxJobs, NEW j \in DOMAIN jobs
  PROVE  jobs[j] \in Job /\ j \in JobID
<1>1. DOMAIN jobs = 1..Len(jobs) /\ Len(jobs) \in Nat
  BY LenProperties
<1>2. jobs[j] \in Job
  BY <1>1, ElementOfSeq
<1>3. MaxJobs \in Nat
  BY CloudAssumption
<1> QED  BY <1>1, <1>2, <1>3 DEF JobID

\* What the positions of a request hold.
LEMMA RequestFacts ==
  ASSUME NEW q \in RequestState
  PROVE  /\ q.at = "drop" =>
              /\ q.op \in {"submit", "dryrun", "edit"} /\ q.job \in JobID
              /\ q.rec \in Job /\ q.old \in Goal \cup {NoGoal}
         /\ q.at = "store" =>
              q.op \in {"submit", "dryrun", "edit"} /\ q.job \in JobID /\ q.rec \in Job
         /\ q.at = "serve" => q.goal \in Goal \cup {NoGoal}
         /\ q.at = "notify" => q.event \in Event
BY DEF RequestState, Idle

\* The goal made by the next validation.
LEMMA NewGoalFacts ==
  ASSUME goalCount \in 0..MaxGoals, goalCount < MaxGoals,
         NEW j \in JobID \cup {NoID}, NEW S \in SUBSET Nodes
  PROVE  /\ NewGoal(j, S) \in Goal
         /\ NewGoal(j, S).id = goalCount + 1 /\ NewGoal(j, S).job = j
         /\ goalCount + 1 \in 0..MaxGoals
BY CloudAssumption DEF NewGoal, Goal, GoalID

\* The record that a request puts has the owner and the goal that it holds.
LEMMA StoredFacts ==
  ASSUME NEW w, w.op \in {"submit", "dryrun", "edit"}, w.rec \in Job
  PROVE  /\ Stored(w) \in Job
         /\ Stored(w).user = w.rec.user /\ Stored(w).goal = w.rec.goal
         /\ w.op = "edit" => Stored(w).state = "Drafted"
BY DEF Stored, Job, JobState

-----------------------------------------------------------------------------
(* Types, owners and the goals of requests                                 *)

\* No step forgets a job or gives it to somebody else.
OwnersKept ==
  /\ DOMAIN jobs \subseteq DOMAIN jobs'
  /\ \A i \in DOMAIN jobs : jobs'[i].user = jobs[i].user

\* A request that does not move stays prepared while owners stay.
LEMMA PreparedKept ==
  ASSUME NEW r, Prepared(r), OwnersKept, request'[r] = request[r]
  PROVE  Prepared(r)'
BY DEF Prepared, OwnersKept

\* When one request moves to q, for which it is prepared, all are.
LEMMA PreparedMoved ==
  ASSUME RequestInv, OwnersKept, NEW r \in Request, NEW q \in RequestState,
         request' = [request EXCEPT ![r] = q], Prepared(r)'
  PROVE  /\ request' \in [Request -> RequestState]
         /\ request'[r] = q
         /\ \A s \in Request : Prepared(s)'
<1>1. request \in [Request -> RequestState]
  BY DEF RequestInv, TypeOK
<1>2. request' \in [Request -> RequestState] /\ request'[r] = q
  BY <1>1
<1>3. ASSUME NEW s \in Request, s # r PROVE Prepared(s)'
  <2>1. request'[s] = request[s]
    BY <1>1, <1>3
  <2> QED  BY <1>3, <2>1, PreparedKept DEF RequestInv
<1> QED  BY <1>2, <1>3

\* Idle is a position for which every request is prepared.
LEMMA IdlePrepared ==
  ASSUME NEW r, request'[r] = Idle
  PROVE  Prepared(r)' /\ Idle \in RequestState
BY DEF Prepared, Idle, RequestState

\* The same of the position before an event is sent.
LEMMA NotifyPrepared ==
  ASSUME NEW r, NEW e \in Event, request'[r] = [at |-> "notify", event |-> e]
  PROVE  Prepared(r)' /\ [at |-> "notify", event |-> e] \in RequestState
BY DEF Prepared, RequestState

\* Steps that leave the database alone keep all owners.
LEMMA JobsUnchanged == ASSUME jobs' = jobs PROVE OwnersKept
BY DEF OwnersKept

\* A job is appended to the database.
LEMMA OwnersAdded ==
  ASSUME RequestInv, NEW rec \in Job, Len(jobs) < MaxJobs, jobs' = Added(rec)
  PROVE  OwnersKept /\ jobs' \in Seq(Job) /\ Len(jobs') <= MaxJobs
<1>1. jobs \in Seq(Job) /\ Len(jobs) \in Nat
  BY LenProperties DEF RequestInv, TypeOK
<1>2. Len(jobs') = Len(jobs) + 1 /\ jobs' \in Seq(Job)
  BY <1>1, AddedFacts
<1>3. OwnersKept
  <2>1. DOMAIN jobs \subseteq DOMAIN jobs'
    BY <1>1, AddedFacts
  <2>2. \A i \in DOMAIN jobs : jobs'[i] = jobs[i]
    BY <1>1, AddedFacts
  <2> QED  BY <2>1, <2>2 DEF OwnersKept
<1> QED  BY <1>1, <1>2, <1>3, CloudAssumption

\* A record is replaced by one of the same owner.
LEMMA OwnersPut ==
  ASSUME RequestInv, NEW j \in DOMAIN jobs, NEW rec \in Job,
         rec.user = jobs[j].user, jobs' = Put(j, rec)
  PROVE  OwnersKept /\ jobs' \in Seq(Job) /\ Len(jobs') <= MaxJobs
<1>1. jobs \in Seq(Job) /\ Len(jobs) <= MaxJobs
  BY DEF RequestInv, TypeOK
<1>2. /\ jobs' \in Seq(Job) /\ Len(jobs') = Len(jobs) /\ DOMAIN jobs' = DOMAIN jobs
      /\ \A i \in DOMAIN jobs : jobs'[i] = IF i = j THEN rec ELSE jobs[i]
  BY <1>1, PutFacts
<1> QED  BY <1>1, <1>2 DEF OwnersKept

\* A change of a job's state only.
LEMMA OwnersInState ==
  ASSUME RequestInv, NEW j \in DOMAIN jobs, NEW st \in JobState, jobs' = InState(j, st)
  PROVE  OwnersKept /\ jobs' \in Seq(Job) /\ Len(jobs') <= MaxJobs
<1> DEFINE rec == [jobs[j] EXCEPT !.state = st]
<1>1. jobs[j] \in Job
  BY JobFacts DEF RequestInv, TypeOK
<1>2. rec \in Job /\ rec.user = jobs[j].user
  BY <1>1 DEF Job
<1>3. jobs' = Put(j, rec)
  BY DEF InState, GetJob
<1> HIDE DEF rec
<1> QED  BY <1>2, <1>3, OwnersPut

\* handlerCreateJob.
LEMMA InvCreateJob ==
  ASSUME RequestInv, NEW u \in Users, NEW S \in NodeSets, CreateJob(u, S)
  PROVE  RequestInv' /\ OwnersKept
<1> DEFINE rec == [state |-> "Created", user |-> u, nodes |-> S, goal |-> NoGoal]
<1>1. rec \in Job
  BY CloudAssumption DEF Job, JobState
<1>2. jobs' = Added(rec) /\ Len(jobs) < MaxJobs
  BY DEF CreateJob
<1> HIDE DEF rec
<1>3. OwnersKept /\ jobs' \in Seq(Job) /\ Len(jobs') <= MaxJobs
  BY <1>1, <1>2, OwnersAdded
<1>4. \A r \in Request : Prepared(r)'
  BY <1>3, PreparedKept DEF CreateJob, RequestInv
<1>5. TypeOK'
  BY <1>3 DEF CreateJob, RequestInv, TypeOK, streamVars
<1> QED  BY <1>3, <1>4, <1>5 DEF RequestInv

\* handlerSubmitJobs with a new job.
LEMMA InvSubmitNew ==
  ASSUME RequestInv, NEW r \in Request, NEW u \in Users, NEW S \in NodeSets,
         SubmitNew(r, u, S)
  PROVE  RequestInv' /\ OwnersKept
<1> DEFINE id  == Len(jobs) + 1
           g   == NewGoal(NoID, S)
           rec == [state |-> "Created", user |-> u, nodes |-> S, goal |-> g]
           own == [rec EXCEPT !.goal.job = id]
           q   == [at |-> "store", op |-> "submit", job |-> id, rec |-> own]
<1>1. /\ jobs \in Seq(Job) /\ Len(jobs) \in Nat /\ Len(jobs) < MaxJobs
      /\ goalCount \in 0..MaxGoals /\ goalCount < MaxGoals /\ S \in SUBSET Nodes
  BY LenProperties, CloudAssumption DEF SubmitNew, RequestInv, TypeOK
<1>2. id \in JobID
  BY <1>1, CloudAssumption DEF JobID
<1>3. g \in Goal /\ g.job = NoID /\ goalCount + 1 \in 0..MaxGoals
  BY <1>1, NewGoalFacts
<1>4. jobs' = Added(rec) /\ request' = [request EXCEPT ![r] = q]
  BY DEF SubmitNew
<1> HIDE DEF id, g
<1>5. rec \in Job /\ rec.user = u
  BY <1>1, <1>3 DEF Job, JobState
<1>6. own \in Job /\ own.user = u /\ own.goal \in Goal /\ own.goal.job = id
  BY <1>1, <1>2, <1>3 DEF Job, JobState, Goal
<1> HIDE DEF own, rec
<1>7. q \in RequestState
  BY <1>2, <1>6 DEF RequestState
<1>8. OwnersKept /\ jobs' \in Seq(Job) /\ Len(jobs') <= MaxJobs
  BY <1>1, <1>4, <1>5, OwnersAdded
<1>9. id \in DOMAIN jobs' /\ jobs'[id].user = u
  BY <1>1, <1>4, <1>5, AddedFacts DEF id
<1>10. Prepared(r)'
  <2>1. request'[r] = q
    BY <1>4 DEF RequestInv, TypeOK
  <2> QED  BY <1>6, <1>9, <2>1 DEF Prepared
<1> HIDE DEF q
<1>11. request' \in [Request -> RequestState] /\ \A s \in Request : Prepared(s)'
  BY <1>4, <1>7, <1>8, <1>10, PreparedMoved
<1>12. TypeOK'
  BY <1>3, <1>8, <1>11 DEF SubmitNew, RequestInv, TypeOK, streamVars
<1> QED  BY <1>8, <1>11, <1>12 DEF RequestInv

\* handlerSubmitJobs with a job that exists, with or without dryrun.
LEMMA InvSubmitExisting ==
  ASSUME RequestInv, NEW r \in Request, NEW u \in Users, NEW j \in DOMAIN jobs,
         NEW op \in {"submit", "dryrun"}, SubmitExisting(r, u, j, op)
  PROVE  RequestInv' /\ OwnersKept
<1> DEFINE g   == NewGoal(j, jobs[j].nodes)
           rec == [jobs[j] EXCEPT !.goal = g]
           q   == [at |-> "drop", op |-> op, job |-> j, old |-> jobs[j].goal, rec |-> rec]
<1>1. jobs[j] \in Job /\ j \in JobID
  BY JobFacts DEF RequestInv, TypeOK
<1>2. /\ goalCount \in 0..MaxGoals /\ goalCount < MaxGoals
      /\ jobs[j].nodes \in SUBSET Nodes /\ jobs[j].goal \in Goal \cup {NoGoal}
  BY <1>1 DEF SubmitExisting, RequestInv, TypeOK, Job
<1>3. g \in Goal /\ g.job = j /\ goalCount + 1 \in 0..MaxGoals
  BY <1>1, <1>2, NewGoalFacts
<1>4. request' = [request EXCEPT ![r] = q] /\ jobs' = jobs
  BY DEF SubmitExisting, GetJob
<1> HIDE DEF g
<1>5. rec \in Job /\ rec.user = jobs[j].user /\ rec.goal = g
  BY <1>1, <1>3 DEF Job
<1> HIDE DEF rec
<1>6. q \in RequestState
  BY <1>1, <1>2, <1>5 DEF RequestState
<1>7. OwnersKept
  BY <1>4, JobsUnchanged
<1>8. Prepared(r)'
  <2>1. request'[r] = q
    BY <1>4 DEF RequestInv, TypeOK
  <2> QED  BY <1>3, <1>4, <1>5, <2>1 DEF Prepared
<1> HIDE DEF q
<1>9. request' \in [Request -> RequestState] /\ \A s \in Request : Prepared(s)'
  BY <1>4, <1>6, <1>7, <1>8, PreparedMoved
<1>10. TypeOK'
  BY <1>3, <1>4, <1>9 DEF SubmitExisting, RequestInv, TypeOK, streamVars
<1> QED  BY <1>7, <1>9, <1>10 DEF RequestInv

\* handlerEditJob.
LEMMA InvEditJob ==
  ASSUME RequestInv, NEW r \in Request, NEW u \in Users, NEW j \in DOMAIN jobs,
         NEW S \in NodeSets, EditJob(r, u, j, S)
  PROVE  RequestInv' /\ OwnersKept
<1> DEFINE rec == [jobs[j] EXCEPT !.nodes = S, !.goal = NoGoal]
           q   == [at |-> "drop", op |-> "edit", job |-> j, old |-> jobs[j].goal, rec |-> rec]
<1>1. jobs[j] \in Job /\ j \in JobID /\ S \in SUBSET Nodes
  BY JobFacts, CloudAssumption DEF RequestInv, TypeOK
<1>2. request' = [request EXCEPT ![r] = q] /\ jobs' = jobs
  BY DEF EditJob, GetJob
<1>3. rec \in Job /\ rec.user = jobs[j].user /\ jobs[j].goal \in Goal \cup {NoGoal}
  BY <1>1 DEF Job
<1> HIDE DEF rec
<1>4. q \in RequestState
  BY <1>1, <1>3 DEF RequestState
<1>5. OwnersKept
  BY <1>2, JobsUnchanged
<1>6. Prepared(r)'
  <2>1. request'[r] = q
    BY <1>2 DEF RequestInv, TypeOK
  <2> QED  BY <1>2, <1>3, <2>1 DEF Prepared
<1> HIDE DEF q
<1>7. request' \in [Request -> RequestState] /\ \A s \in Request : Prepared(s)'
  BY <1>2, <1>4, <1>5, <1>6, PreparedMoved
<1>8. TypeOK'
  BY <1>7 DEF EditJob, RequestInv, TypeOK, streamVars
<1> QED  BY <1>5, <1>7, <1>8 DEF RequestInv

\* The goal that the record had is dropped.
LEMMA InvDropOldGoal ==
  ASSUME RequestInv, NEW r \in Request, DropOldGoal(r)
  PROVE  RequestInv' /\ OwnersKept
<1> DEFINE w == request[r]
           q == [at |-> "store", op |-> w.op, job |-> w.job, rec |-> w.rec]
<1>1. w \in RequestState /\ w.at = "drop" /\ Prepared(r)
  BY DEF DropOldGoal, RequestInv, TypeOK
<1>2. request' = [request EXCEPT ![r] = q] /\ jobs' = jobs /\ scienceGoals' \subseteq scienceGoals
  BY DEF DropOldGoal, Without
<1>3. q \in RequestState
  BY <1>1, RequestFacts DEF RequestState
<1>4. OwnersKept
  BY <1>2, JobsUnchanged
<1>5. Prepared(r)'
  <2>1. request'[r] = q
    BY <1>2 DEF RequestInv, TypeOK
  <2> QED  BY <1>1, <1>2, <2>1 DEF Prepared
<1> HIDE DEF q
<1>6. request' \in [Request -> RequestState] /\ \A s \in Request : Prepared(s)'
  BY <1>2, <1>3, <1>4, <1>5, PreparedMoved
<1>7. TypeOK'
  BY <1>2, <1>6 DEF DropOldGoal, RequestInv, TypeOK, streamVars
<1> QED  BY <1>4, <1>6, <1>7 DEF RequestInv

\* The record is put into the database.
LEMMA InvStoreJob ==
  ASSUME RequestInv, NEW r \in Request, StoreJob(r)
  PROVE  RequestInv' /\ OwnersKept
<1> DEFINE w == request[r]
           q == IF w.op = "submit" THEN [at |-> "serve", goal |-> w.rec.goal] ELSE Idle
<1>1. w \in RequestState /\ w.at = "store" /\ Prepared(r)
  BY DEF StoreJob, RequestInv, TypeOK
<1>2. /\ w.op \in {"submit", "dryrun", "edit"} /\ w.rec \in Job
      /\ w.job \in DOMAIN jobs /\ w.rec.user = jobs[w.job].user
      /\ w.op = "submit" => w.rec.goal \in Goal
  BY <1>1, RequestFacts DEF Prepared
<1>3. request' = [request EXCEPT ![r] = q] /\ jobs' = Put(w.job, Stored(w))
  BY DEF StoreJob
<1>4. request'[r] = q
  BY <1>3 DEF RequestInv, TypeOK
<1>5. q \in RequestState /\ Prepared(r)'
  BY <1>2, <1>4 DEF RequestState, Prepared, Idle
<1> HIDE DEF q, w
<1>6. Stored(w) \in Job /\ Stored(w).user = jobs[w.job].user
  BY <1>2, StoredFacts
<1>7. OwnersKept /\ jobs' \in Seq(Job) /\ Len(jobs') <= MaxJobs
  BY <1>2, <1>3, <1>6, OwnersPut
<1>8. request' \in [Request -> RequestState] /\ \A s \in Request : Prepared(s)'
  BY <1>3, <1>5, <1>7, PreparedMoved
<1>9. TypeOK'
  BY <1>7, <1>8 DEF StoreJob, RequestInv, TypeOK, streamVars
<1> QED  BY <1>7, <1>8, <1>9 DEF RequestInv

\* The goal of a submitted job is served.
LEMMA InvServeGoal ==
  ASSUME RequestInv, NEW r \in Request, ServeGoal(r)
  PROVE  RequestInv' /\ OwnersKept
<1> DEFINE g == request[r].goal
           e == [type |-> "submitted", id |-> g.id]
<1>1. g \in Goal
  BY DEF ServeGoal, RequestInv, Prepared
<1>2. /\ request' = [request EXCEPT ![r] = [at |-> "notify", event |-> e]] /\ jobs' = jobs
      /\ scienceGoals' = Without(g.id) \cup {g}
  BY DEF ServeGoal
<1>3. e \in Event
  BY <1>1 DEF Event, Goal
<1>4. scienceGoals' \subseteq Goal
  BY <1>1, <1>2 DEF Without, RequestInv, TypeOK
<1> HIDE DEF g, e
<1>5. OwnersKept
  BY <1>2, JobsUnchanged
<1>6. request'[r] = [at |-> "notify", event |-> e]
  BY <1>2 DEF RequestInv, TypeOK
<1>7. Prepared(r)' /\ [at |-> "notify", event |-> e] \in RequestState
  BY <1>3, <1>6, NotifyPrepared
<1>8. request' \in [Request -> RequestState] /\ \A s \in Request : Prepared(s)'
  BY <1>2, <1>5, <1>7, PreparedMoved
<1>9. TypeOK'
  BY <1>4, <1>8 DEF ServeGoal, RequestInv, TypeOK, streamVars
<1> QED  BY <1>5, <1>8, <1>9 DEF RequestInv

\* The channel with one more event, and with one less.
LEMMA ChannelFacts ==
  ASSUME chanFromGoalManager \in Seq(Event), Len(chanFromGoalManager) <= ChannelCap
  PROVE  /\ \A e \in Event : Len(chanFromGoalManager) < ChannelCap =>
              /\ Append(chanFromGoalManager, e) \in Seq(Event)
              /\ Len(Append(chanFromGoalManager, e)) <= ChannelCap
         /\ chanFromGoalManager # <<>> =>
              /\ Head(chanFromGoalManager) \in Event
              /\ Tail(chanFromGoalManager) \in Seq(Event)
              /\ Len(Tail(chanFromGoalManager)) <= ChannelCap
<1>1. Len(chanFromGoalManager) \in Nat /\ ChannelCap \in Nat
  BY LenProperties, CloudAssumption
<1>2. ASSUME NEW e \in Event, Len(chanFromGoalManager) < ChannelCap
      PROVE  /\ Append(chanFromGoalManager, e) \in Seq(Event)
             /\ Len(Append(chanFromGoalManager, e)) <= ChannelCap
  BY <1>1, <1>2, AppendProperties
<1>3. ASSUME chanFromGoalManager # <<>>
      PROVE  /\ Head(chanFromGoalManager) \in Event
             /\ Tail(chanFromGoalManager) \in Seq(Event)
             /\ Len(Tail(chanFromGoalManager)) <= ChannelCap
  BY <1>1, <1>3, HeadTailProperties
<1> QED  BY <1>2, <1>3

\* The event of a request enters the channel.
LEMMA InvNotify ==
  ASSUME RequestInv, NEW r \in Request, Notify(r)
  PROVE  RequestInv' /\ OwnersKept
<1>1. request[r] \in RequestState /\ request[r].at = "notify"
  BY DEF Notify, RequestInv, TypeOK
<1>2. request[r].event \in Event
  BY <1>1, RequestFacts
<1>3. chanFromGoalManager' \in Seq(Event) /\ Len(chanFromGoalManager') <= ChannelCap
  BY <1>2, ChannelFacts DEF Notify, RequestInv, TypeOK
<1>4. request' = [request EXCEPT ![r] = Idle] /\ jobs' = jobs
  BY DEF Notify
<1>5. OwnersKept
  BY <1>4, JobsUnchanged
<1>6. request'[r] = Idle
  BY <1>4 DEF RequestInv, TypeOK
<1>7. request' \in [Request -> RequestState] /\ \A s \in Request : Prepared(s)'
  BY <1>4, <1>5, <1>6, IdlePrepared, PreparedMoved
<1>8. TypeOK'
  BY <1>3, <1>4, <1>7 DEF Notify, RequestInv, TypeOK, streamVars
<1> QED  BY <1>5, <1>7, <1>8 DEF RequestInv

\* SuspendJob and RemoveJob: a state is written and an event is to be sent.
LEMMA InvWithdraw ==
  ASSUME RequestInv, NEW r \in Request, NEW j \in DOMAIN jobs, NEW st \in JobState,
         NEW e \in Event, jobs' = InState(j, st),
         request' = [request EXCEPT ![r] = [at |-> "notify", event |-> e]],
         UNCHANGED <<goalCount, scienceGoals, chanFromGoalManager, main, restarts, streamVars>>
  PROVE  RequestInv' /\ OwnersKept
<1>1. OwnersKept /\ jobs' \in Seq(Job) /\ Len(jobs') <= MaxJobs
  BY OwnersInState
<1>2. request'[r] = [at |-> "notify", event |-> e]
  BY DEF RequestInv, TypeOK
<1>3. Prepared(r)' /\ [at |-> "notify", event |-> e] \in RequestState
  BY <1>2, NotifyPrepared
<1>4. request' \in [Request -> RequestState] /\ \A s \in Request : Prepared(s)'
  BY <1>1, <1>3, PreparedMoved
<1>5. TypeOK'
  BY <1>1, <1>4 DEF RequestInv, TypeOK, streamVars
<1> QED  BY <1>1, <1>4, <1>5 DEF RequestInv

\* handlerJobRemove with suspend=true.
LEMMA InvSuspendJob ==
  ASSUME RequestInv, NEW r \in Request, NEW u \in Users, NEW j \in DOMAIN jobs,
         SuspendJob(r, u, j)
  PROVE  RequestInv' /\ OwnersKept
<1> DEFINE e == [type |-> "suspended", id |-> j]
<1>1. e \in Event
  <2>1. j \in JobID
    BY JobFacts DEF RequestInv, TypeOK
  <2> QED  BY <2>1 DEF Event
<1>2. /\ jobs' = InState(j, "Suspended")
      /\ request' = [request EXCEPT ![r] = [at |-> "notify", event |-> e]]
      /\ UNCHANGED <<goalCount, scienceGoals, chanFromGoalManager, main, restarts, streamVars>>
  BY DEF SuspendJob
<1>3. "Suspended" \in JobState
  BY DEF JobState
<1> HIDE DEF e
<1> QED  BY <1>1, <1>2, <1>3, InvWithdraw

\* handlerJobRemove.
LEMMA InvRemoveJob ==
  ASSUME RequestInv, NEW r \in Request, NEW u \in Users, NEW j \in DOMAIN jobs,
         NEW op \in {"remove", "force"}, RemoveJob(r, u, j, op)
  PROVE  RequestInv' /\ OwnersKept
<1> DEFINE e == [type |-> "removed", id |-> jobs[j].goal.id]
<1>1. e \in Event
  <2>1. jobs[j] \in Job
    BY JobFacts DEF RequestInv, TypeOK
  <2>2. jobs[j].goal \in Goal \cup {NoGoal}
    BY <2>1 DEF Job
  <2>3. jobs[j].goal.id \in GoalID \cup {NoID}
    BY <2>2 DEF Goal, NoGoal
  <2> QED  BY <2>3 DEF Event
<1>2. /\ jobs' = InState(j, "Removed")
      /\ request' = [request EXCEPT ![r] = [at |-> "notify", event |-> e]]
      /\ UNCHANGED <<goalCount, scienceGoals, chanFromGoalManager, main, restarts, streamVars>>
  BY DEF RemoveJob, GetJob
<1>3. "Removed" \in JobState
  BY DEF JobState
<1> HIDE DEF e
<1> QED  BY <1>1, <1>2, <1>3, InvWithdraw

\* handleDataJobs, POST.
LEMMA InvSetRecord ==
  ASSUME RequestInv, NEW j \in DOMAIN jobs, NEW st \in JobState, SetRecord(j, st)
  PROVE  RequestInv' /\ OwnersKept
<1>1. OwnersKept /\ jobs' \in Seq(Job) /\ Len(jobs') <= MaxJobs
  BY OwnersInState DEF SetRecord
<1>2. \A r \in Request : Prepared(r)'
  BY <1>1, PreparedKept DEF SetRecord, RequestInv
<1>3. TypeOK'
  BY <1>1 DEF SetRecord, RequestInv, TypeOK, streamVars
<1> QED  BY <1>1, <1>2, <1>3 DEF RequestInv

\* A step that touches neither the database nor requests keeps the invariant if
\* it keeps the types.
LEMMA InvElsewhere ==
  ASSUME RequestInv, UNCHANGED <<jobs, request>>, TypeOK'
  PROVE  RequestInv' /\ OwnersKept
<1>1. OwnersKept
  BY JobsUnchanged
<1>2. \A r \in Request : Prepared(r)'
  BY <1>1, PreparedKept DEF RequestInv
<1> QED  BY <1>1, <1>2 DEF RequestInv

\* The main goroutine receives an event.
LEMMA TypeAnnounce ==
  ASSUME TypeOK, NEW G \in SUBSET Goal, chanFromGoalManager # <<>>, Announce(G)
  PROVE  /\ main' \in MainState /\ main'.at # "crashed"
         /\ chanFromGoalManager' \in Seq(Event) /\ Len(chanFromGoalManager') <= ChannelCap
<1>1. UNION {g.nodes : g \in G} \in SUBSET Nodes
  BY DEF Goal
<1>2. main' \in MainState /\ main'.at # "crashed"
  BY <1>1 DEF Announce, MainState, Selecting
<1>3. chanFromGoalManager' \in Seq(Event) /\ Len(chanFromGoalManager') <= ChannelCap
  BY ChannelFacts DEF Announce, TypeOK
<1> QED  BY <1>2, <1>3

\* The three events.
LEMMA InvHandle ==
  ASSUME RequestInv, HandleRemoved \/ HandleSuspended \/ HandleSubmitted
  PROVE  RequestInv' /\ OwnersKept /\ main'.at # "crashed"
<1>1. PICK G \in SUBSET Goal : Announce(G)
  <2>1. \A id : WithID(id) \in SUBSET Goal
    BY DEF WithID, RequestInv, TypeOK
  <2>2. CASE HandleRemoved
    BY <2>1, <2>2 DEF HandleRemoved
  <2>3. CASE HandleSuspended
    BY <2>1, <2>3 DEF HandleSuspended
  <2>4. CASE HandleSubmitted
    BY <2>1, <2>4 DEF HandleSubmitted
  <2> QED  BY <2>2, <2>3, <2>4
<1>2. /\ chanFromGoalManager # <<>>
      /\ UNCHANGED <<jobs, goalCount, request, restarts, streamVars>>
      /\ scienceGoals' \subseteq scienceGoals
  BY DEF HandleRemoved, HandleSuspended, HandleSubmitted, Receives, Without
<1>3. /\ main' \in MainState /\ main'.at # "crashed"
      /\ chanFromGoalManager' \in Seq(Event) /\ Len(chanFromGoalManager') <= ChannelCap
  BY <1>1, <1>2, TypeAnnounce DEF RequestInv
<1>4. TypeOK'
  BY <1>2, <1>3 DEF RequestInv, TypeOK, streamVars
<1> QED  BY <1>2, <1>3, <1>4, InvElsewhere

\* updateNodes.
LEMMA InvUpdateNode ==
  ASSUME RequestInv, NEW n \in Nodes, UpdateNode(n)
  PROVE  RequestInv' /\ OwnersKept /\ main'.at # "crashed"
<1>1. main' \in MainState /\ main'.at # "crashed"
  BY DEF UpdateNode, RequestInv, TypeOK, MainState, Selecting
<1>2. pushed' \in [Nodes -> BOOLEAN]
  BY DEF UpdateNode, PushTo, RequestInv, TypeOK
<1>3. TypeOK'
  BY <1>1, <1>2 DEF UpdateNode, RequestInv, TypeOK
<1> QED  BY <1>1, <1>3, InvElsewhere DEF UpdateNode

\* The goals in the database.
LEMMA LoadedFacts ==
  ASSUME RequestInv
  PROVE  /\ Loaded \subseteq Goal \cup {NoGoal}
         /\ \A g \in Loaded :
              \E i \in DOMAIN jobs : jobs[i].state \in Active /\ g = jobs[i].goal
<1>1. \A i \in DOMAIN jobs : jobs[i] \in Job
  BY JobFacts DEF RequestInv, TypeOK
<1>2. \A i \in DOMAIN jobs : jobs[i].goal \in Goal \cup {NoGoal}
  BY <1>1 DEF Job
<1> QED  BY <1>2 DEF Loaded

\* The process starts again.
LEMMA InvStartUp ==
  ASSUME RequestInv, StartUp, restarts < MaxRestarts
  PROVE  RequestInv' /\ OwnersKept
<1>1. main' \in MainState
  BY DEF StartUp, MainState, Selecting
<1>2. scienceGoals' \subseteq Goal
  BY LoadedFacts DEF StartUp
<1>3. request' \in [Request -> RequestState] /\ \A r \in Request : Prepared(r)'
  <2>1. request' = [r \in Request |-> Idle]
    BY DEF StartUp
  <2>2. \A r \in Request : request'[r] = Idle
    BY <2>1
  <2>3. Idle \in RequestState
    BY DEF Idle, RequestState
  <2> QED  BY <2>1, <2>2, <2>3, IdlePrepared
<1>4. restarts' \in 0..MaxRestarts
  BY CloudAssumption DEF StartUp, RequestInv, TypeOK
<1>5. <<>> \in Seq(Event) /\ Len(<<>>) <= ChannelCap
  BY CloudAssumption
<1>6. /\ handler' \in [Nodes -> HandlerState] /\ pushed' \in [Nodes -> BOOLEAN]
      /\ wire' \in [Nodes -> Seq(SUBSET Goal)]
      /\ UNCHANGED <<client, nodeGoals, streamFaults>>
  BY DEF StartUp, StreamReset, HandlerState
<1>7. jobs' = jobs /\ goalCount' = goalCount /\ chanFromGoalManager' = <<>>
  BY DEF StartUp
<1>8. OwnersKept
  BY <1>7, JobsUnchanged
<1>9. TypeOK'
  BY <1>1, <1>2, <1>3, <1>4, <1>5, <1>6, <1>7 DEF RequestInv, TypeOK
<1> QED  BY <1>3, <1>8, <1>9 DEF RequestInv

\* The types of the streams.
StreamTypeOK ==
  /\ handler \in [Nodes -> HandlerState]
  /\ pushed \in [Nodes -> BOOLEAN]
  /\ client \in [Nodes -> ClientState]
  /\ wire \in [Nodes -> Seq(SUBSET Goal)]
  /\ nodeGoals \in [Nodes -> SUBSET Goal]
  /\ streamFaults \in 0..MaxStreamFaults

\* What a node and its handler do.
LEMMA TypeStreamStep ==
  ASSUME StreamTypeOK, NEW n \in Nodes, Connect(n) \/ StreamStep(n)
  PROVE  StreamTypeOK'
<1>1. CASE Connect(n)
  BY <1>1 DEF Connect, StreamTypeOK, HandlerState, ClientState
<1>2. CASE Flush(n)
  BY <1>2 DEF Flush, StreamTypeOK, HandlerState
<1>3. CASE TakePushed(n)
  BY <1>3 DEF TakePushed, StreamTypeOK, HandlerState
<1>4. CASE StreamBroken(n)
  BY <1>4 DEF StreamBroken, StreamTypeOK, ClientState
<1>5. CASE Deliver(n)
  <2>1. wire[n] \in Seq(SUBSET Goal) /\ wire[n] # <<>>
    BY <1>5 DEF Deliver, StreamTypeOK
  <2>2. Head(wire[n]) \in SUBSET Goal /\ Tail(wire[n]) \in Seq(SUBSET Goal)
    BY <2>1, HeadTailProperties
  <2>3. nodeGoals' \in [Nodes -> SUBSET Goal]
    BY <1>5, <2>2 DEF Deliver, StreamTypeOK
  <2>4. wire' \in [Nodes -> Seq(SUBSET Goal)]
    <3>1. wire' = [wire EXCEPT ![n] = Tail(wire[n])] \/ wire' = [wire EXCEPT ![n] = <<>>]
      BY <1>5 DEF Deliver
    <3>2. CASE wire' = [wire EXCEPT ![n] = Tail(wire[n])]
      BY <2>2, <3>2 DEF StreamTypeOK
    <3>3. CASE wire' = [wire EXCEPT ![n] = <<>>]
      <4>1. <<>> \in Seq(SUBSET Goal)
        OBVIOUS
      <4> QED  BY <3>3, <4>1 DEF StreamTypeOK
    <3> QED  BY <3>1, <3>2, <3>3
  <2>5. /\ handler' \in [Nodes -> HandlerState] /\ pushed' \in [Nodes -> BOOLEAN]
        /\ client' \in [Nodes -> ClientState] /\ streamFaults' = streamFaults
    BY <1>5 DEF Deliver, StreamTypeOK, HandlerState, ClientState
  <2> QED  BY <2>3, <2>4, <2>5 DEF StreamTypeOK
<1> QED  BY <1>1, <1>2, <1>3, <1>4, <1>5 DEF StreamStep

\* The list of goals is written to a stream.
LEMMA TypeListGoals ==
  ASSUME StreamTypeOK, NEW n \in Nodes, NEW list \in SUBSET Goal, ListGoals(n, list)
  PROVE  StreamTypeOK'
<1>1. wire[n] \in Seq(SUBSET Goal)
  BY DEF StreamTypeOK
<1>2. Append(wire[n], list) \in Seq(SUBSET Goal)
  BY <1>1, AppendProperties
<1>3. wire' \in [Nodes -> Seq(SUBSET Goal)]
  BY <1>2 DEF ListGoals, StreamTypeOK
<1> QED  BY <1>3 DEF ListGoals, StreamTypeOK, HandlerState

\* A connection breaks.
LEMMA TypeLoseConnection ==
  ASSUME StreamTypeOK, NEW n \in Nodes, LoseConnection(n)
  PROVE  StreamTypeOK'
<1>1. streamFaults' \in 0..MaxStreamFaults
  BY StreamAssumption DEF LoseConnection, StreamTypeOK
<1>2. wire' \in [Nodes -> Seq(SUBSET Goal)]
  <2>1. wire' = [wire EXCEPT ![n] = <<>>] \/ wire' = wire
    BY DEF LoseConnection
  <2>2. <<>> \in Seq(SUBSET Goal)
    OBVIOUS
  <2>3. CASE wire' = [wire EXCEPT ![n] = <<>>]
    BY <2>2, <2>3 DEF StreamTypeOK
  <2>4. CASE wire' = wire
    BY <2>4 DEF StreamTypeOK
  <2> QED  BY <2>1, <2>3, <2>4
<1>3. client' \in [Nodes -> ClientState]
  BY DEF LoseConnection, StreamTypeOK, ClientState
<1>4. handler' \in [Nodes -> HandlerState] /\ pushed' \in [Nodes -> BOOLEAN]
  BY DEF LoseConnection, StreamTypeOK, HandlerState
<1> QED  BY <1>1, <1>2, <1>3, <1>4 DEF LoseConnection, StreamTypeOK

\* Steps of streams leave the rest of the cloud alone.
LEMMA InvStream ==
  ASSUME RequestInv, NEW n \in Nodes,
         Stream(n) \/ (LoseConnection(n) /\ UNCHANGED cloudVars)
  PROVE  RequestInv' /\ OwnersKept /\ UNCHANGED cloudVars
<1>1. StreamTypeOK /\ GoalsFor(n) \in SUBSET Goal
  BY DEF RequestInv, TypeOK, StreamTypeOK, GoalsFor
<1>2. UNCHANGED cloudVars
  BY DEF Stream
<1>3. StreamTypeOK'
  <2>1. CASE LoseConnection(n)
    BY <1>1, <2>1, TypeLoseConnection
  <2>2. CASE Connect(n) \/ StreamStep(n)
    BY <1>1, <2>2, TypeStreamStep
  <2>3. CASE ListGoals(n, GoalsFor(n))
    BY <1>1, <2>3, TypeListGoals
  <2> QED  BY <2>1, <2>2, <2>3 DEF Stream
<1>4. TypeOK'
  BY <1>2, <1>3 DEF RequestInv, TypeOK, StreamTypeOK, cloudVars
<1> QED  BY <1>2, <1>4, InvElsewhere DEF cloudVars

\* Requests of users.
LEMMA InvUserRequest ==
  ASSUME RequestInv, UserRequest
  PROVE  RequestInv' /\ OwnersKept
<1>1. PICK u \in Users :
       \/ \E S \in NodeSets : CreateJob(u, S) \/ \E r \in Request : SubmitNew(r, u, S)
       \/ \E r \in Request, j \in DOMAIN jobs :
            \/ \E op \in {"submit", "dryrun"} : SubmitExisting(r, u, j, op)
            \/ \E S \in NodeSets : EditJob(r, u, j, S)
            \/ SuspendJob(r, u, j)
            \/ \E op \in {"remove", "force"} : RemoveJob(r, u, j, op)
  BY DEF UserRequest
<1>2. ASSUME NEW S \in NodeSets, CreateJob(u, S) PROVE RequestInv' /\ OwnersKept
  BY <1>2, InvCreateJob
<1>3. ASSUME NEW S \in NodeSets, NEW r \in Request, SubmitNew(r, u, S)
      PROVE  RequestInv' /\ OwnersKept
  BY <1>3, InvSubmitNew
<1>4. ASSUME NEW r \in Request, NEW j \in DOMAIN jobs, NEW op \in {"submit", "dryrun"},
             SubmitExisting(r, u, j, op)
      PROVE  RequestInv' /\ OwnersKept
  BY <1>4, InvSubmitExisting
<1>5. ASSUME NEW r \in Request, NEW j \in DOMAIN jobs, NEW S \in NodeSets, EditJob(r, u, j, S)
      PROVE  RequestInv' /\ OwnersKept
  BY <1>5, InvEditJob
<1>6. ASSUME NEW r \in Request, NEW j \in DOMAIN jobs, SuspendJob(r, u, j)
      PROVE  RequestInv' /\ OwnersKept
  BY <1>6, InvSuspendJob
<1>7. ASSUME NEW r \in Request, NEW j \in DOMAIN jobs, NEW op \in {"remove", "force"},
             RemoveJob(r, u, j, op)
      PROVE  RequestInv' /\ OwnersKept
  BY <1>7, InvRemoveJob
<1> QED  BY <1>1, <1>2, <1>3, <1>4, <1>5, <1>6, <1>7

\* The other steps of requests.
LEMMA InvRequestStep ==
  ASSUME RequestInv, NEW r \in Request, RequestStep(r)
  PROVE  RequestInv' /\ OwnersKept
BY InvDropOldGoal, InvStoreJob, InvServeGoal, InvNotify DEF RequestStep

\* The main goroutine.
LEMMA InvMainStep ==
  ASSUME RequestInv, MainStep
  PROVE  RequestInv' /\ OwnersKept /\ main'.at # "crashed"
BY InvHandle, InvUpdateNode DEF MainStep

\* Nothing changes.
LEMMA InvStutter ==
  ASSUME RequestInv, UNCHANGED vars
  PROVE  RequestInv' /\ OwnersKept
<1>1. UNCHANGED <<jobs, request>> /\ TypeOK'
  BY DEF vars, cloudVars, streamVars, RequestInv, TypeOK
<1> QED  BY <1>1, InvElsewhere

\* Every step.
LEMMA InvNext ==
  ASSUME RequestInv, [Next]_vars
  PROVE  RequestInv' /\ OwnersKept
<1>1. CASE UserRequest
  BY <1>1, InvUserRequest
<1>2. CASE \E r \in Request : RequestStep(r)
  BY <1>2, InvRequestStep
<1>3. CASE MainStep
  BY <1>3, InvMainStep
<1>4. CASE \E n \in Nodes : Stream(n)
  BY <1>4, InvStream
<1>5. CASE \E n \in Nodes : LoseConnection(n) /\ UNCHANGED cloudVars
  BY <1>5, InvStream
<1>6. CASE Restart \/ \E n \in Nodes : NodeEvent(n)
  BY <1>6, InvStartUp DEF Restart, NodeEvent
<1>7. CASE \E j \in DOMAIN jobs, st \in JobState : SetRecord(j, st)
  BY <1>7, InvSetRecord
<1>8. CASE UNCHANGED vars
  BY <1>8, InvStutter
<1> QED  BY <1>1, <1>2, <1>3, <1>4, <1>5, <1>6, <1>7, <1>8 DEF Next

\* The initial states.
LEMMA InvInit == ASSUME Init PROVE RequestInv
<1>1. jobs \in Seq(Job) /\ Len(jobs) <= MaxJobs
  BY CloudAssumption DEF Init
<1>2. chanFromGoalManager \in Seq(Event) /\ Len(chanFromGoalManager) <= ChannelCap
  BY CloudAssumption DEF Init
<1>3. request \in [Request -> RequestState] /\ \A r \in Request : Prepared(r)
  BY DEF Init, Idle, RequestState, Prepared
<1>4. /\ goalCount \in 0..MaxGoals /\ restarts \in 0..MaxRestarts
      /\ scienceGoals \subseteq Goal /\ main \in MainState
  BY CloudAssumption DEF Init, MainState, Selecting
<1>5. StreamTypeOK
  <2>1. <<>> \in Seq(SUBSET Goal)
    OBVIOUS
  <2>2. wire \in [Nodes -> Seq(SUBSET Goal)]
    BY <2>1 DEF Init, StreamInit
  <2> QED
    BY <2>2, StreamAssumption DEF Init, StreamInit, StreamTypeOK, HandlerState, ClientState
<1> QED  BY <1>1, <1>2, <1>3, <1>4, <1>5 DEF RequestInv, TypeOK, StreamTypeOK

\* Every request, event and record has its type, and a request that will write a
\* job holds a record of the job's owner and a goal for the job, for any number
\* of requests at a time.
THEOREM TypeCorrect == Spec => []TypeOK
<1>1. Init => RequestInv
  BY InvInit
<1>2. RequestInv /\ [Next]_vars => RequestInv'
  BY InvNext
<1>3. RequestInv => TypeOK
  BY DEF RequestInv
<1> QED  BY <1>1, <1>2, <1>3, PTL DEF Spec

\* A job stays its owner's and is never deleted, for any number of requests at a
\* time: a record that was read before another request wrote the job still has
\* the right owner when it overwrites it (api_server.go:243).
THEOREM OwnerKeptHolds == Spec => OwnerKept
<1> DEFINE Kept == /\ Len(jobs') >= Len(jobs)
                   /\ \A i \in DOMAIN jobs : jobs'[i].user = jobs[i].user
<1>1. Init => RequestInv
  BY InvInit
<1>2. RequestInv /\ [Next]_vars => RequestInv'
  BY InvNext
<1>3. RequestInv /\ [Next]_vars => [Kept]_vars
  <2> SUFFICES ASSUME RequestInv, [Next]_vars PROVE Kept
    OBVIOUS
  <2>1. RequestInv' /\ OwnersKept
    BY InvNext
  <2>2. jobs \in Seq(Job) /\ jobs' \in Seq(Job)
    BY <2>1 DEF RequestInv, TypeOK
  <2>3. /\ DOMAIN jobs = 1..Len(jobs) /\ Len(jobs) \in Nat
        /\ DOMAIN jobs' = 1..Len(jobs') /\ Len(jobs') \in Nat
    BY <2>2, LenProperties
  <2>4. Len(jobs') >= Len(jobs)
    BY <2>1, <2>3 DEF OwnersKept
  <2> QED  BY <2>1, <2>4 DEF OwnersKept
<1> HIDE DEF Kept
<1>4. Spec => [][Kept]_vars
  BY <1>1, <1>2, <1>3, PTL DEF Spec
<1> QED  BY <1>4 DEF Kept, OwnerKept

-----------------------------------------------------------------------------
(* The process can always start                                            *)

\* A job that is not active is added.
LEMMA ActiveAdded ==
  ASSUME StartInv, NEW rec \in Job, rec.state \notin Active, jobs' = Added(rec)
  PROVE  ActiveHaveGoals'
<1>1. jobs \in Seq(Job) /\ Len(jobs) \in Nat
  BY LenProperties DEF StartInv, RequestInv, TypeOK
<1>2. /\ DOMAIN jobs' = 1..(Len(jobs) + 1) /\ DOMAIN jobs = 1..Len(jobs)
      /\ \A i \in DOMAIN jobs : jobs'[i] = jobs[i]
      /\ jobs'[Len(jobs) + 1] = rec
  BY <1>1, AddedFacts
<1>3. ASSUME NEW i \in DOMAIN jobs', jobs'[i].state \in Active
      PROVE  jobs'[i].goal.job = i
  <2>1. i \in DOMAIN jobs
    BY <1>1, <1>2, <1>3
  <2> QED  BY <1>2, <1>3, <2>1 DEF StartInv, ActiveHaveGoals
<1> QED  BY <1>3 DEF ActiveHaveGoals

\* A record is replaced by one that has a goal if it is active.
LEMMA ActivePut ==
  ASSUME StartInv, NEW j \in DOMAIN jobs, NEW rec \in Job,
         rec.state \in Active => rec.goal.job = j, jobs' = Put(j, rec)
  PROVE  ActiveHaveGoals'
<1>1. jobs \in Seq(Job)
  BY DEF StartInv, RequestInv, TypeOK
<1>2. /\ DOMAIN jobs' = DOMAIN jobs
      /\ \A i \in DOMAIN jobs : jobs'[i] = IF i = j THEN rec ELSE jobs[i]
  BY <1>1, PutFacts
<1> QED  BY <1>2 DEF StartInv, ActiveHaveGoals

\* A job is suspended or removed.
LEMMA ActiveInState ==
  ASSUME StartInv, NEW j \in DOMAIN jobs, NEW st \in JobState \ Active, jobs' = InState(j, st)
  PROVE  ActiveHaveGoals'
<1> DEFINE rec == [jobs[j] EXCEPT !.state = st]
<1>1. jobs[j] \in Job
  BY JobFacts DEF StartInv, RequestInv, TypeOK
<1>2. rec \in Job /\ rec.state = st
  BY <1>1 DEF Job
<1>3. jobs' = Put(j, rec)
  BY DEF InState, GetJob
<1> HIDE DEF rec
<1> QED  BY <1>2, <1>3, ActivePut

\* The record that a request puts has a goal if it may be active.
LEMMA ActiveStored ==
  ASSUME StartInv, NEW r \in Request, StoreJob(r)
  PROVE  ActiveHaveGoals'
<1> DEFINE w == request[r]
<1>1. w \in RequestState /\ w.at = "store" /\ Prepared(r)
  BY DEF StoreJob, StartInv, RequestInv, TypeOK
<1>2. /\ w.op \in {"submit", "dryrun", "edit"} /\ w.rec \in Job /\ w.job \in DOMAIN jobs
      /\ w.op # "edit" => w.rec.goal.job = w.job
  BY <1>1, RequestFacts DEF Prepared
<1>3. jobs' = Put(w.job, Stored(w))
  BY DEF StoreJob
<1> HIDE DEF w
<1>4. Stored(w) \in Job /\ (Stored(w).state \in Active => Stored(w).goal.job = w.job)
  <2>1. Stored(w).state \in Active => w.op # "edit"
    BY <1>2, StoredFacts DEF Active
  <2> QED  BY <1>2, <2>1, StoredFacts
<1> QED  BY <1>2, <1>3, <1>4, ActivePut

\* A process that starts finds a goal for each active job.
LEMMA LoadedHaveGoals ==
  ASSUME StartInv
  PROVE  NoGoal \notin Loaded
<1>1. \A i \in DOMAIN jobs : i # NoID
  BY JobFacts DEF StartInv, RequestInv, TypeOK, JobID, NoID
<1> QED  BY <1>1, LoadedFacts DEF StartInv, ActiveHaveGoals, NoGoal

\* Requests of users.
LEMMA StartUserRequest ==
  ASSUME StartInv, UserRequest
  PROVE  ActiveHaveGoals' /\ main'.at # "crashed"
<1>1. PICK u \in Users :
       \/ \E S \in NodeSets : CreateJob(u, S) \/ \E r \in Request : SubmitNew(r, u, S)
       \/ \E r \in Request, j \in DOMAIN jobs :
            \/ \E op \in {"submit", "dryrun"} : SubmitExisting(r, u, j, op)
            \/ \E S \in NodeSets : EditJob(r, u, j, S)
            \/ SuspendJob(r, u, j)
            \/ \E op \in {"remove", "force"} : RemoveJob(r, u, j, op)
  BY DEF UserRequest
<1>2. ASSUME NEW rec \in Job, rec.state = "Created", jobs' = Added(rec)
      PROVE  ActiveHaveGoals'
  BY <1>2, ActiveAdded DEF Active
<1>3. ASSUME NEW S \in NodeSets, CreateJob(u, S) PROVE ActiveHaveGoals'
  <2> DEFINE rec == [state |-> "Created", user |-> u, nodes |-> S, goal |-> NoGoal]
  <2>1. rec \in Job
    BY CloudAssumption DEF Job, JobState
  <2>2. jobs' = Added(rec) /\ rec.state = "Created"
    BY <1>3 DEF CreateJob
  <2> HIDE DEF rec
  <2> QED  BY <1>2, <2>1, <2>2
<1>4. ASSUME NEW S \in NodeSets, NEW r \in Request, SubmitNew(r, u, S)
      PROVE  ActiveHaveGoals'
  <2> DEFINE g   == NewGoal(NoID, S)
             rec == [state |-> "Created", user |-> u, nodes |-> S, goal |-> g]
  <2>1. g \in Goal /\ S \in SUBSET Nodes
    BY <1>4, NewGoalFacts, CloudAssumption DEF SubmitNew, StartInv, RequestInv, TypeOK
  <2>2. jobs' = Added(rec)
    BY <1>4 DEF SubmitNew
  <2> HIDE DEF g
  <2>3. rec \in Job /\ rec.state = "Created"
    BY <2>1 DEF Job, JobState
  <2> HIDE DEF rec
  <2> QED  BY <1>2, <2>2, <2>3
<1>5. ASSUME NEW r \in Request, NEW j \in DOMAIN jobs, NEW op \in {"submit", "dryrun"},
             SubmitExisting(r, u, j, op)
      PROVE  ActiveHaveGoals'
  BY <1>5 DEF SubmitExisting, StartInv, ActiveHaveGoals
<1>6. ASSUME NEW r \in Request, NEW j \in DOMAIN jobs, NEW S \in NodeSets, EditJob(r, u, j, S)
      PROVE  ActiveHaveGoals'
  BY <1>6 DEF EditJob, StartInv, ActiveHaveGoals
<1>7. ASSUME NEW r \in Request, NEW j \in DOMAIN jobs, SuspendJob(r, u, j)
      PROVE  ActiveHaveGoals'
  BY <1>7, ActiveInState DEF SuspendJob, JobState, Active
<1>8. ASSUME NEW r \in Request, NEW j \in DOMAIN jobs, NEW op \in {"remove", "force"},
             RemoveJob(r, u, j, op)
      PROVE  ActiveHaveGoals'
  BY <1>8, ActiveInState DEF RemoveJob, JobState, Active
<1>9. main' = main
  <2>1. ASSUME NEW S \in NodeSets, CreateJob(u, S) PROVE main' = main
    BY <2>1 DEF CreateJob
  <2>2. ASSUME NEW S \in NodeSets, NEW r \in Request, SubmitNew(r, u, S) PROVE main' = main
    BY <2>2 DEF SubmitNew
  <2>3. ASSUME NEW r \in Request, NEW j \in DOMAIN jobs PROVE
          /\ \A op \in {"submit", "dryrun"} : SubmitExisting(r, u, j, op) => main' = main
          /\ \A S \in NodeSets : EditJob(r, u, j, S) => main' = main
          /\ SuspendJob(r, u, j) => main' = main
          /\ \A op \in {"remove", "force"} : RemoveJob(r, u, j, op) => main' = main
    <3>1. \A op \in {"submit", "dryrun"} : SubmitExisting(r, u, j, op) => main' = main
      BY DEF SubmitExisting
    <3>2. \A S \in NodeSets : EditJob(r, u, j, S) => main' = main
      BY DEF EditJob
    <3>3. SuspendJob(r, u, j) => main' = main
      BY DEF SuspendJob
    <3>4. \A op \in {"remove", "force"} : RemoveJob(r, u, j, op) => main' = main
      BY DEF RemoveJob
    <3> QED  BY <3>1, <3>2, <3>3, <3>4
  <2> QED  BY <1>1, <2>1, <2>2, <2>3
<1> QED  BY <1>1, <1>3, <1>4, <1>5, <1>6, <1>7, <1>8, <1>9 DEF StartInv

\* Every step of instances in which administrators write no active states.
LEMMA StartNext ==
  ASSUME InactiveRecords, StartInv, [Next]_vars
  PROVE  StartInv'
<1>1. RequestInv'
  BY InvNext DEF StartInv
<1>2. ASSUME jobs' = jobs PROVE ActiveHaveGoals'
  BY <1>2 DEF StartInv, ActiveHaveGoals
<1>3. CASE UserRequest
  BY <1>1, <1>3, StartUserRequest DEF StartInv
<1>4. CASE \E r \in Request : StoreJob(r)
  <2>1. main' = main
    BY <1>4 DEF StoreJob
  <2> QED  BY <1>1, <1>4, <2>1, ActiveStored DEF StartInv
<1>5. CASE \E r \in Request : DropOldGoal(r) \/ ServeGoal(r) \/ Notify(r)
  <2>1. main' = main /\ jobs' = jobs
    BY <1>5 DEF DropOldGoal, ServeGoal, Notify
  <2> QED  BY <1>1, <1>2, <2>1 DEF StartInv
<1>6. CASE MainStep
  <2>1. jobs' = jobs
    BY <1>6 DEF MainStep, HandleRemoved, HandleSuspended, HandleSubmitted, UpdateNode
  <2>2. main'.at # "crashed"
    BY <1>6, InvMainStep DEF StartInv
  <2> QED  BY <1>1, <1>2, <2>1, <2>2 DEF StartInv
<1>7. CASE \E n \in Nodes : Stream(n) \/ (LoseConnection(n) /\ UNCHANGED cloudVars)
  <2>1. UNCHANGED cloudVars
    BY <1>7, InvStream DEF StartInv
  <2> QED  BY <1>1, <1>2, <2>1 DEF StartInv, cloudVars
<1>8. CASE StartUp
  <2>1. main' = Selecting /\ jobs' = jobs
    BY <1>8, LoadedHaveGoals DEF StartUp
  <2> QED  BY <1>1, <1>2, <2>1 DEF StartInv, Selecting
<1>9. CASE UNCHANGED vars
  BY <1>1, <1>2, <1>9 DEF StartInv, vars, cloudVars
<1>10. ASSUME NEW j \in DOMAIN jobs, NEW st \in JobState, SetRecord(j, st) PROVE StartInv'
  <2>1. st \notin Active /\ jobs' = InState(j, st) /\ main' = main
    BY <1>10 DEF SetRecord, InactiveRecords
  <2> QED  BY <1>1, <2>1, ActiveInState DEF StartInv
<1> QED
  BY <1>3, <1>4, <1>5, <1>6, <1>7, <1>8, <1>9, <1>10
  DEF Next, RequestStep, Restart, NodeEvent

\* The process can always start: whatever the order of the steps of requests and
\* restarts, for any number of requests at a time, no active job is without a
\* goal in the database (cloudgoalmanager.go:336).  Only the API by which an
\* administrator writes records can bring that about, with an active state.
THEOREM SchedulerStartsHolds ==
  ASSUME InactiveRecords
  PROVE  Spec => []SchedulerStarts
<1>1. Init => StartInv
  BY InvInit DEF StartInv, ActiveHaveGoals, Init, Selecting
<1>2. StartInv /\ [Next]_vars => StartInv'
  BY StartNext
<1>3. StartInv => SchedulerStarts
  <2> SUFFICES ASSUME StartInv PROVE SchedulerStarts
    OBVIOUS
  <2>1. \A i \in DOMAIN jobs : i # NoID
    BY JobFacts DEF StartInv, RequestInv, TypeOK, JobID, NoID
  <2> QED  BY <2>1 DEF StartInv, ActiveHaveGoals, SchedulerStarts, NoGoal
<1> QED  BY <1>1, <1>2, <1>3, PTL DEF Spec

-----------------------------------------------------------------------------
(* What is served is current                                               *)

\* No step but StoreJob changes the goal of a job.
GoalsKept ==
  /\ DOMAIN jobs \subseteq DOMAIN jobs'
  /\ \A i \in DOMAIN jobs : jobs'[i].goal = jobs[i].goal

\* While the jobs keep their goals, goals served only disappear.
LEMMA ServedFewer ==
  ASSUME ServedIsCurrent, GoalsKept, scienceGoals' \subseteq scienceGoals
  PROVE  ServedIsCurrent'
BY DEF ServedIsCurrent, GoalsKept

\* A request that does not move keeps its exclusive hold meanwhile.
LEMMA ExclusiveKept ==
  ASSUME NEW r, Exclusive(r), Prepared(r), GoalsKept,
         scienceGoals' \subseteq scienceGoals, request'[r] = request[r]
  PROVE  Exclusive(r)'
BY DEF Exclusive, Prepared, GoalsKept

\* A position with nothing to do for a job.
LEMMA ExclusiveIdle ==
  ASSUME NEW r, request'[r].at \in {"idle", "notify"}
  PROVE  Exclusive(r)'
BY DEF Exclusive

\* Steps that leave requests and the goals of jobs alone.
LEMMA ServeElsewhere ==
  ASSUME ServeInv, StartInv', GoalsKept, scienceGoals' \subseteq scienceGoals,
         request' = request
  PROVE  ServeInv'
<1>1. ServedIsCurrent'
  BY ServedFewer DEF ServeInv
<1>2. \A r \in Request : Exclusive(r)'
  BY ExclusiveKept DEF ServeInv, StartInv, RequestInv
<1> QED  BY <1>1, <1>2 DEF ServeInv

\* Steps of the only request.
LEMMA ServeMoved ==
  ASSUME Sequential, NEW r \in Request, StartInv', ServedIsCurrent', Exclusive(r)'
  PROVE  ServeInv'
BY DEF Sequential, ServeInv

\* Appending to the database keeps goals, and so does a change of state.
LEMMA GoalsAdded ==
  ASSUME RequestInv, NEW rec \in Job, jobs' = Added(rec)
  PROVE  GoalsKept /\ Len(jobs) + 1 \in DOMAIN jobs' /\ Len(jobs) + 1 \notin DOMAIN jobs
<1>1. jobs \in Seq(Job) /\ Len(jobs) \in Nat
  BY LenProperties DEF RequestInv, TypeOK
<1>2. /\ DOMAIN jobs = 1..Len(jobs) /\ DOMAIN jobs' = 1..(Len(jobs) + 1)
      /\ \A i \in DOMAIN jobs : jobs'[i] = jobs[i]
  BY <1>1, AddedFacts
<1> QED  BY <1>1, <1>2 DEF GoalsKept

LEMMA GoalsInState ==
  ASSUME RequestInv, NEW j \in DOMAIN jobs, NEW st \in JobState, jobs' = InState(j, st)
  PROVE  GoalsKept
<1> DEFINE rec == [jobs[j] EXCEPT !.state = st]
<1>1. jobs[j] \in Job /\ jobs \in Seq(Job)
  BY JobFacts DEF RequestInv, TypeOK
<1>2. rec \in Job /\ rec.goal = jobs[j].goal
  BY <1>1 DEF Job
<1>3. jobs' = Put(j, rec)
  BY DEF InState, GetJob
<1> HIDE DEF rec
<1>4. /\ DOMAIN jobs' = DOMAIN jobs
      /\ \A i \in DOMAIN jobs : jobs'[i] = IF i = j THEN rec ELSE jobs[i]
  BY <1>1, <1>2, <1>3, PutFacts
<1> QED  BY <1>2, <1>4 DEF GoalsKept

LEMMA GoalsUnchanged == ASSUME jobs' = jobs PROVE GoalsKept
BY DEF GoalsKept

\* handlerCreateJob, also while the request is under way.
LEMMA ServeCreateJob ==
  ASSUME ServeInv, StartInv', NEW u \in Users, NEW S \in NodeSets, CreateJob(u, S)
  PROVE  ServeInv'
<1> DEFINE rec == [state |-> "Created", user |-> u, nodes |-> S, goal |-> NoGoal]
<1>1. rec \in Job
  BY CloudAssumption DEF Job, JobState
<1>2. jobs' = Added(rec) /\ request' = request /\ scienceGoals' = scienceGoals
  BY DEF CreateJob
<1> HIDE DEF rec
<1> QED  BY <1>1, <1>2, GoalsAdded, ServeElsewhere DEF ServeInv, StartInv

\* handlerSubmitJobs with a new job: nothing is served for its number.
LEMMA ServeSubmitNew ==
  ASSUME Sequential, ServeInv, StartInv', NEW r \in Request, NEW u \in Users,
         NEW S \in NodeSets, SubmitNew(r, u, S)
  PROVE  ServeInv'
<1> DEFINE g   == NewGoal(NoID, S)
           rec == [state |-> "Created", user |-> u, nodes |-> S, goal |-> g]
<1>1. g \in Goal /\ S \in SUBSET Nodes
  BY NewGoalFacts, CloudAssumption DEF SubmitNew, ServeInv, StartInv, RequestInv, TypeOK
<1>2. jobs' = Added(rec) /\ scienceGoals' = scienceGoals
  BY DEF SubmitNew
<1> HIDE DEF g
<1>3. rec \in Job
  BY <1>1 DEF Job, JobState
<1> HIDE DEF rec
<1>4. GoalsKept /\ Len(jobs) + 1 \notin DOMAIN jobs
  BY <1>2, <1>3, GoalsAdded DEF ServeInv, StartInv
<1>5. ServedIsCurrent'
  BY <1>2, <1>4, ServedFewer DEF ServeInv
<1>6. request'[r].at = "store" /\ request'[r].job = Len(jobs) + 1
  BY DEF SubmitNew, ServeInv, StartInv, RequestInv, TypeOK
<1>7. Exclusive(r)'
  BY <1>2, <1>4, <1>6 DEF Exclusive, ServeInv, ServedIsCurrent
<1> QED  BY <1>5, <1>7, ServeMoved

\* The job of a request is read: submission, dry run and edit.
LEMMA ServeRead ==
  ASSUME Sequential, ServeInv, StartInv', NEW r \in Request, NEW u \in Users,
         NEW j \in DOMAIN jobs,
         \/ \E op \in {"submit", "dryrun"} : SubmitExisting(r, u, j, op)
         \/ \E S \in NodeSets : EditJob(r, u, j, S)
  PROVE  ServeInv'
<1>1. jobs' = jobs /\ scienceGoals' = scienceGoals
  BY DEF SubmitExisting, EditJob
<1>2. /\ request'[r].at = "drop" /\ request'[r].job = j
      /\ request'[r].old = jobs[j].goal
  <2>1. PICK q : /\ q.at = "drop" /\ q.job = j /\ q.old = jobs[j].goal
                 /\ request' = [request EXCEPT ![r] = q]
    BY DEF SubmitExisting, EditJob, GetJob
  <2>2. request'[r] = q
    BY <2>1 DEF ServeInv, StartInv, RequestInv, TypeOK
  <2> QED  BY <2>1, <2>2
<1>3. ServedIsCurrent'
  BY <1>1, GoalsUnchanged, ServedFewer DEF ServeInv
<1>4. Exclusive(r)'
  BY <1>1, <1>2 DEF Exclusive
<1> QED  BY <1>3, <1>4, ServeMoved

\* SuspendJob and RemoveJob change a state only.
LEMMA ServeWithdraw ==
  ASSUME Sequential, ServeInv, StartInv', NEW r \in Request, NEW u \in Users,
         NEW j \in DOMAIN jobs,
         SuspendJob(r, u, j) \/ \E op \in {"remove", "force"} : RemoveJob(r, u, j, op)
  PROVE  ServeInv'
<1>1. (jobs' = InState(j, "Suspended") \/ jobs' = InState(j, "Removed"))
      /\ scienceGoals' = scienceGoals
  BY DEF SuspendJob, RemoveJob
<1>2. GoalsKept
  BY <1>1, GoalsInState DEF JobState, ServeInv, StartInv
<1>3. request'[r].at = "notify"
  BY DEF SuspendJob, RemoveJob, ServeInv, StartInv, RequestInv, TypeOK
<1>4. ServedIsCurrent' /\ Exclusive(r)'
  BY <1>1, <1>2, <1>3, ServedFewer, ExclusiveIdle DEF ServeInv
<1> QED  BY <1>4, ServeMoved

\* Dropping the goal that the job has leaves no goal of the job served.
LEMMA ServeDropOldGoal ==
  ASSUME Sequential, ServeInv, StartInv', NEW r \in Request, DropOldGoal(r)
  PROVE  ServeInv'
<1> DEFINE w == request[r]
<1>1. w.at = "drop" /\ w.old = jobs[w.job].goal
  BY DEF DropOldGoal, ServeInv, Exclusive
<1>2. /\ jobs' = jobs /\ scienceGoals' = Without(w.old.id)
      /\ request'[r].at = "store" /\ request'[r].job = w.job
  BY DEF DropOldGoal, ServeInv, StartInv, RequestInv, TypeOK
<1>3. \A g \in scienceGoals' : g \in scienceGoals /\ g.id # w.old.id
  BY <1>2 DEF Without, WithID
<1>4. \A g \in scienceGoals' : g.job # w.job
  BY <1>1, <1>3 DEF ServeInv, ServedIsCurrent
<1>5. Exclusive(r)'
  BY <1>2, <1>4 DEF Exclusive
<1>6. ServedIsCurrent'
  BY <1>2, <1>3, GoalsUnchanged, ServedFewer DEF ServeInv
<1> QED  BY <1>5, <1>6, ServeMoved

\* The record is put when no goal of the job is served, with the goal that the
\* request then serves.
LEMMA ServeStoreJob ==
  ASSUME Sequential, ServeInv, StartInv', NEW r \in Request, StoreJob(r)
  PROVE  ServeInv'
<1> DEFINE w == request[r]
<1>1. w \in RequestState /\ w.at = "store" /\ Prepared(r)
  BY DEF StoreJob, ServeInv, StartInv, RequestInv, TypeOK
<1>2. /\ w.op \in {"submit", "dryrun", "edit"} /\ w.rec \in Job /\ w.job \in DOMAIN jobs
      /\ w.op # "edit" => w.rec.goal.job = w.job
  BY <1>1, RequestFacts DEF Prepared
<1>3. \A g \in scienceGoals : g.job # w.job
  BY <1>1 DEF ServeInv, Exclusive
<1>4. /\ jobs' = Put(w.job, Stored(w)) /\ scienceGoals' = scienceGoals
      /\ request'[r] = IF w.op = "submit" THEN [at |-> "serve", goal |-> w.rec.goal] ELSE Idle
  BY DEF StoreJob, ServeInv, StartInv, RequestInv, TypeOK
<1> HIDE DEF w
<1>5. Stored(w) \in Job /\ Stored(w).goal = w.rec.goal
  BY <1>2, StoredFacts
<1>6. jobs \in Seq(Job)
  BY DEF ServeInv, StartInv, RequestInv, TypeOK
<1>7. /\ DOMAIN jobs' = DOMAIN jobs
      /\ \A i \in DOMAIN jobs : jobs'[i] = IF i = w.job THEN Stored(w) ELSE jobs[i]
  <2> DEFINE j == w.job  rec == Stored(w)
  <2>1. j \in DOMAIN jobs /\ rec \in Job /\ jobs' = Put(j, rec)
    BY <1>2, <1>4, <1>5
  <2> HIDE DEF j, rec
  <2>2. /\ DOMAIN jobs' = DOMAIN jobs
        /\ \A i \in DOMAIN jobs : jobs'[i] = IF i = j THEN rec ELSE jobs[i]
    BY <1>6, <2>1, PutFacts
  <2> QED  BY <2>2 DEF j, rec
<1>8. ServedIsCurrent'
  BY <1>3, <1>4, <1>7 DEF ServeInv, ServedIsCurrent
<1>9. Exclusive(r)'
  <2>1. CASE w.op = "submit"
    <3>1. request'[r] = [at |-> "serve", goal |-> w.rec.goal]
      BY <1>4, <2>1
    <3>2. w.rec.goal.job = w.job /\ jobs'[w.job].goal = w.rec.goal
      BY <1>2, <1>5, <1>7, <2>1
    <3> QED  BY <1>2, <1>7, <3>1, <3>2 DEF Exclusive
  <2>2. CASE w.op # "submit"
    BY <1>4, <2>2, ExclusiveIdle DEF Idle
  <2> QED  BY <2>1, <2>2
<1> QED  BY <1>8, <1>9, ServeMoved

\* The goal that becomes served is the one its job has.
LEMMA ServeServeGoal ==
  ASSUME Sequential, ServeInv, StartInv', NEW r \in Request, ServeGoal(r)
  PROVE  ServeInv'
<1> DEFINE g == request[r].goal
<1>1. g.job \in DOMAIN jobs /\ jobs[g.job].goal = g
  BY DEF ServeGoal, ServeInv, Exclusive
<1>2. jobs' = jobs /\ scienceGoals' \subseteq scienceGoals \cup {g}
  BY DEF ServeGoal, Without
<1>3. request'[r].at = "notify"
  BY DEF ServeGoal, ServeInv, StartInv, RequestInv, TypeOK
<1> HIDE DEF g
<1>4. ServedIsCurrent'
  BY <1>1, <1>2 DEF ServeInv, ServedIsCurrent
<1> QED  BY <1>3, <1>4, ExclusiveIdle, ServeMoved

\* The event of the request enters the channel.
LEMMA ServeNotify ==
  ASSUME Sequential, ServeInv, StartInv', NEW r \in Request, Notify(r)
  PROVE  ServeInv'
<1>1. jobs' = jobs /\ scienceGoals' = scienceGoals /\ request'[r] = Idle
  BY DEF Notify, ServeInv, StartInv, RequestInv, TypeOK
<1>2. ServedIsCurrent'
  BY <1>1, GoalsUnchanged, ServedFewer DEF ServeInv
<1> QED  BY <1>1, <1>2, ExclusiveIdle, ServeMoved DEF Idle

\* What a process loads are the goals that active jobs have.
LEMMA ServeStartUp ==
  ASSUME ServeInv, StartInv', StartUp
  PROVE  ServeInv'
<1>1. jobs' = jobs /\ scienceGoals' = Loaded /\ request' = [r \in Request |-> Idle]
  BY LoadedHaveGoals DEF StartUp, ServeInv
<1>2. ServedIsCurrent'
  BY <1>1, LoadedFacts DEF ServeInv, StartInv, ActiveHaveGoals, ServedIsCurrent
<1>3. \A r \in Request : Exclusive(r)'
  BY <1>1, ExclusiveIdle DEF Idle
<1> QED  BY <1>2, <1>3 DEF ServeInv

\* Every step of instances in which requests are handled one after the other and
\* administrators write no active states.
LEMMA ServeNext ==
  ASSUME Sequential, InactiveRecords, ServeInv, [Next]_vars
  PROVE  ServeInv'
<1>1. StartInv'
  BY StartNext DEF ServeInv
<1>2. CASE UserRequest
  BY <1>1, <1>2, ServeCreateJob, ServeSubmitNew, ServeRead, ServeWithdraw DEF UserRequest
<1>3. CASE \E r \in Request : RequestStep(r)
  BY <1>1, <1>3, ServeDropOldGoal, ServeStoreJob, ServeServeGoal, ServeNotify
  DEF RequestStep
<1>4. CASE MainStep
  <2>1. jobs' = jobs /\ request' = request /\ scienceGoals' \subseteq scienceGoals
    BY <1>4
    DEF MainStep, HandleRemoved, HandleSuspended, HandleSubmitted, UpdateNode, Without
  <2> QED  BY <1>1, <2>1, GoalsUnchanged, ServeElsewhere
<1>5. CASE \E n \in Nodes : Stream(n) \/ (LoseConnection(n) /\ UNCHANGED cloudVars)
  <2>1. UNCHANGED cloudVars
    BY <1>5, InvStream DEF ServeInv, StartInv
  <2> QED  BY <1>1, <2>1, GoalsUnchanged, ServeElsewhere DEF cloudVars
<1>6. CASE StartUp
  BY <1>1, <1>6, ServeStartUp
<1>7. CASE UNCHANGED vars
  BY <1>1, <1>7, GoalsUnchanged, ServeElsewhere DEF vars, cloudVars
<1>8. ASSUME NEW j \in DOMAIN jobs, NEW st \in JobState, SetRecord(j, st) PROVE ServeInv'
  <2>1. jobs' = InState(j, st) /\ request' = request /\ scienceGoals' = scienceGoals
    BY <1>8 DEF SetRecord
  <2>2. GoalsKept
    BY <2>1, GoalsInState DEF ServeInv, StartInv
  <2> QED  BY <1>1, <2>1, <2>2, ServeElsewhere
<1> QED
  BY <1>2, <1>3, <1>4, <1>5, <1>6, <1>7, <1>8 DEF Next, Restart, NodeEvent

\* What is served is the current goal of its job: at no point between the steps of
\* a request, the events of earlier requests, streams and restarts is a goal
\* served that a resubmission, an edit or a dry run has replaced
\* (api_server.go, handlerSubmitJobs, handlerEditJob).
THEOREM ServedIsCurrentHolds ==
  ASSUME Sequential, InactiveRecords
  PROVE  Spec => []ServedIsCurrent
<1>1. Init => ServeInv
  <2> SUFFICES ASSUME Init PROVE ServeInv
    OBVIOUS
  <2>1. StartInv
    BY InvInit DEF StartInv, ActiveHaveGoals, Init, Selecting
  <2>2. ServedIsCurrent /\ \A r \in Request : Exclusive(r)
    BY DEF Init, ServedIsCurrent, Exclusive, Idle
  <2> QED  BY <2>1, <2>2 DEF ServeInv
<1>2. ServeInv /\ [Next]_vars => ServeInv'
  BY ServeNext
<1>3. ServeInv => ServedIsCurrent
  BY DEF ServeInv
<1> QED  BY <1>1, <1>2, <1>3, PTL DEF Spec
=============================================================================
