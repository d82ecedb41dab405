-------------------------- MODULE NodePolicyProofs --------------------------
(***************************************************************************)
(* What the policies promise of NodeScheduler, proved for all goals,       *)
(* plugins, faults and bounds that satisfy UniqueNames and NoPostedGoals:  *)
(* the GPU-aware policy never lets two scheduled plugins hold the GPU, and *)
(* the scheduler launches plugins the way PluginScheduling says.           *)
(***************************************************************************)
EXTENDS NodeSchedulerProofs

-----------------------------------------------------------------------------
(* The users of the GPU in a queue                                         *)

\* One more entry.
LEMMA GPUAppend ==
  ASSUME NEW q \in Seq(Runtime), NEW r \in Runtime
  PROVE  /\ UsesGPU(Append(q, r)) <=> UsesGPU(q) \/ RequiresGPU(r)
         /\ OneUsesGPU(q) /\ (RequiresGPU(r) => ~ UsesGPU(q)) => OneUsesGPU(Append(q, r))
<1> DEFINE t == Append(q, r)
<1>1. /\ \A i \in 1..Len(q) : t[i] = q[i]
      /\ t[Len(q) + 1] = r
      /\ Len(q) \in Nat /\ DOMAIN q = 1..Len(q) /\ DOMAIN t = 1..(Len(q) + 1)
  BY AppendProperties, LenProperties
<1> HIDE DEF t
<1>2. \A i \in 1..(Len(q) + 1) : i \in 1..Len(q) \/ i = Len(q) + 1
  BY <1>1
<1>3. UsesGPU(t) <=> UsesGPU(q) \/ RequiresGPU(r)
  <2>1. UsesGPU(t) => UsesGPU(q) \/ RequiresGPU(r)
    BY <1>1, <1>2 DEF UsesGPU
  <2>2. UsesGPU(q) => UsesGPU(t)
    BY <1>1 DEF UsesGPU
  <2>3. RequiresGPU(r) => UsesGPU(t)
    <3>1. Len(q) + 1 \in DOMAIN t
      BY <1>1
    <3> QED  BY <1>1, <3>1 DEF UsesGPU
  <2> QED  BY <2>1, <2>2, <2>3
<1>4. ASSUME OneUsesGPU(q), RequiresGPU(r) => ~ UsesGPU(q) PROVE OneUsesGPU(t)
  BY <1>1, <1>2, <1>4 DEF UsesGPU, OneUsesGPU
<1> QED  BY <1>3, <1>4 DEF t

\* One entry less at the head: if the head uses the GPU the tail does not.
LEMMA GPUTail ==
  ASSUME NEW q \in Seq(Runtime), q # <<>>
  PROVE  /\ UsesGPU(Tail(q)) => UsesGPU(q)
         /\ RequiresGPU(Head(q)) => UsesGPU(q)
         /\ OneUsesGPU(q) => /\ OneUsesGPU(Tail(q))
                             /\ RequiresGPU(Head(q)) => ~ UsesGPU(Tail(q))
<1>1. /\ Len(q) \in Nat /\ Len(q) >= 1 /\ DOMAIN q = 1..Len(q)
      /\ Head(q) = q[1]
  BY LenProperties, EmptySeq
<1>2. /\ Tail(q) \in Seq(Runtime) /\ Len(Tail(q)) = Len(q) - 1
      /\ \A i \in 1..(Len(q) - 1) : Tail(q)[i] = q[i + 1]
  BY HeadTailProperties
<1>3. DOMAIN Tail(q) = 1..(Len(q) - 1)
  BY <1>2, LenProperties
<1>4. UsesGPU(Tail(q)) => UsesGPU(q)
  BY <1>1, <1>2, <1>3 DEF UsesGPU
<1>5. RequiresGPU(Head(q)) => UsesGPU(q)
  BY <1>1 DEF UsesGPU
<1>6. ASSUME OneUsesGPU(q) PROVE OneUsesGPU(Tail(q))
  BY <1>1, <1>2, <1>3, <1>6 DEF OneUsesGPU
<1>7. ASSUME OneUsesGPU(q), RequiresGPU(Head(q)) PROVE ~ UsesGPU(Tail(q))
  BY <1>1, <1>2, <1>3, <1>7 DEF UsesGPU, OneUsesGPU
<1> QED  BY <1>4, <1>5, <1>6, <1>7

\* One entry less anywhere.
LEMMA GPUAfterPop ==
  ASSUME NEW q \in Seq(Runtime), NEW n
  PROVE  /\ UsesGPU(AfterPop(q, n)) => UsesGPU(q)
         /\ OneUsesGPU(q) => OneUsesGPU(AfterPop(q, n))
<1>1. DOMAIN q = 1..Len(q) /\ Len(q) \in Nat
  BY LenProperties
<1>2. CASE ~ HasName(q, n)
  BY <1>2 DEF AfterPop
<1>3. CASE HasName(q, n)
  <2> DEFINE i == FirstNamed(q, n)
             t == RemoveAt(q, i)
  <2>1. i \in 1..Len(q)
    BY <1>3, FirstNamedProperties
  <2>2. /\ t \in Seq(Runtime) /\ Len(t) = Len(q) - 1
        /\ \A j \in 1..(Len(q) - 1) : t[j] = IF j < i THEN q[j] ELSE q[j + 1]
    <3> HIDE DEF i
    <3> QED  BY <2>1, RemoveAtProperties
  <2>3. AfterPop(q, n) = t
    BY <1>3 DEF AfterPop
  <2> HIDE DEF i, t
  <2>4. DOMAIN t = 1..(Len(q) - 1)
    BY <2>2, LenProperties
  <2> DEFINE old(j) == IF j < i THEN j ELSE j + 1
  <2>5. \A j \in DOMAIN t : old(j) \in DOMAIN q /\ t[j] = q[old(j)]
    BY <1>1, <2>1, <2>2, <2>4
  <2>6. \A j, k \in DOMAIN t : old(j) = old(k) => j = k
    BY <1>1, <2>1, <2>4
  <2> HIDE DEF old
  <2>7. UsesGPU(t) => UsesGPU(q)
    BY <2>5 DEF UsesGPU
  <2>8. ASSUME OneUsesGPU(q) PROVE OneUsesGPU(t)
    BY <2>5, <2>6, <2>8 DEF OneUsesGPU
  <2> QED  BY <2>3, <2>7, <2>8
<1> QED  BY <1>2, <1>3

-----------------------------------------------------------------------------
(* Steps                                                                   *)

GPUContext == QueueContext /\ GPUInvariant

\* A step that selects nothing and adds nothing to the scheduled plugins.
LEMMA GPUFrame ==
  ASSUME GPUContext,
         UNCHANGED toRun,
         goals' = goals \/ toRun = <<>>,
         UsesGPU(scheduledPlugins') => UsesGPU(scheduledPlugins),
         OneUsesGPU(scheduledPlugins) => OneUsesGPU(scheduledPlugins'),
         \/ pc' = pc /\ UNCHANGED gpuTaken
         \/ pc' # "selecting" /\ toRun = <<>>
  PROVE  GPUInvariant'
<1>1. toRun = <<>> => DOMAIN toRun = {} /\ ~ UsesGPU(toRun)
  BY DEF UsesGPU
<1>2. \A i \in DOMAIN toRun' : toRun'[i].goal \in goals' \cup {NoGoal}
  BY <1>1 DEF GPUContext, GPUInvariant
<1>3. UsesGPU(toRun') = UsesGPU(toRun) /\ OneUsesGPU(toRun') = OneUsesGPU(toRun)
  OBVIOUS
<1> QED  BY <1>2, <1>3 DEF GPUContext, GPUInvariant

\* ... and takes nothing out of them.
LEMMA GPUStutter ==
  ASSUME GPUContext,
         UNCHANGED <<toRun, scheduledPlugins>>,
         goals' = goals \/ toRun = <<>>,
         \/ pc' = pc /\ UNCHANGED gpuTaken
         \/ pc' # "selecting" /\ toRun = <<>>
  PROVE  GPUInvariant'
BY GPUFrame

\* Under UniqueNames the name of a plugin that is queued or selected tells its
\* goal, and with it whether it needs the GPU.
LEMMA NameGivesGoal ==
  ASSUME GPUContext, NEW r \in Runtime, NEW s \in Runtime, r.name = s.name,
         r.goal \in goals \cup {NoGoal}, s.goal \in goals \cup {NoGoal}
  PROVE  r.goal = s.goal
<1>1. /\ r.goal = NoGoal => r.name \in APINames
      /\ r.goal # NoGoal => r.name \in PluginsOf[r.goal]
      /\ s.goal = NoGoal => s.name \in APINames
      /\ s.goal # NoGoal => s.name \in PluginsOf[s.goal]
  BY DEF Runtime
<1>2. goals \subseteq Goal
  BY DEF GPUContext, QueueContext, TypeOK
<1>3. r.goal = NoGoal <=> s.goal = NoGoal
  BY <1>1, <1>2 DEF GPUContext, QueueContext, UniqueNames
<1>4. r.goal # NoGoal => JobOf[r.goal] = JobOf[s.goal]
  BY <1>1, <1>2, <1>3 DEF GPUContext, QueueContext, UniqueNames
<1> QED
  BY <1>3, <1>4 DEF GPUContext, QueueContext, QueueInvariant, OneGoalPerJob

\* What is ready belongs to a goal of the node or to none.
LEMMA ReadyGoals ==
  ASSUME GPUContext
  PROVE  \A r \in ToSet(readyQueue) : r \in Runtime /\ r.goal \in goals \cup {NoGoal}
<1>1. \A r \in ToSet(readyQueue) : r \in Runtime
  BY DEF GPUContext, QueueContext, TypeOK, ToSet
<1> QED
  BY <1>1 DEF GPUContext, QueueContext, QueueInvariant, QueuesMatchStatus, InReady

\* The policy starts: gpuTaken is whether a scheduled plugin uses the GPU.
LEMMA GPUStartScheduling ==
  ASSUME GPUContext, StartScheduling
  PROVE  GPUInvariant'
<1>1. /\ pc = "select" /\ UNCHANGED <<goals, scheduledPlugins>> /\ toRun = <<>>
  BY DEF StartScheduling, goalVars, GPUContext, GPUInvariant
<1>2. ~ UsesGPU(<<>>) /\ OneUsesGPU(<<>>)
  BY DEF UsesGPU, OneUsesGPU
<1>3. UsesGPU(scheduledPlugins') = UsesGPU(scheduledPlugins)
      /\ OneUsesGPU(scheduledPlugins') = OneUsesGPU(scheduledPlugins)
  BY <1>1
<1>4. CASE Policy = "roundrobin"
  <2>1. CASE toRun' = toRun
    BY <1>1, <1>4, <2>1 DEF StartScheduling, GPUContext, GPUInvariant
  <2>2. CASE readyQueue # <<>> /\ toRun' = <<Head(readyQueue)>>
    <3>1. Head(readyQueue) \in ToSet(readyQueue)
      BY <2>2, TailProperties DEF GPUContext, QueueContext, TypeOK
    <3>2. Head(readyQueue).goal \in goals \cup {NoGoal}
      BY <3>1, ReadyGoals
    <3>3. \A i \in DOMAIN toRun' : toRun'[i] = Head(readyQueue)
      BY <2>2
    <3> QED  BY <1>1, <1>4, <3>2, <3>3 DEF StartScheduling, GPUInvariant
  <2> QED  BY <1>4, <2>1, <2>2 DEF StartScheduling
<1>5. CASE Policy # "roundrobin"
  <2>1. /\ pc' = "selecting" /\ toRun' = toRun
        /\ gpuTaken' = (Policy = "gpuaware" /\ UsesGPU(scheduledPlugins))
    BY <1>5 DEF StartScheduling, UsesGPU
  <2> QED  BY <1>1, <1>2, <1>3, <2>1 DEF GPUContext, GPUInvariant
<1> QED  BY <1>4, <1>5

\* The policy selects a plugin that needs the GPU only if nobody has it.
LEMMA GPUSelectNext ==
  ASSUME GPUContext, SelectNext
  PROVE  GPUInvariant'
<1> DEFINE r == readyQueue[readyIndex + 1]
<1>1. /\ pc = "selecting" /\ pc' = pc /\ UNCHANGED <<goals, scheduledPlugins>>
  BY DEF SelectNext, goalVars
<1>2. CASE UNCHANGED policyVars
  BY <1>1, <1>2, GPUStutter DEF policyVars
<1>3. CASE /\ ~ GPUWaits(r)
           /\ toRun' = Append(toRun, r)
           /\ gpuTaken' = (gpuTaken \/ (Policy = "gpuaware" /\ RequiresGPU(r)))
  <2>1. readyIndex + 1 \in DOMAIN readyQueue
    BY LenProperties DEF SelectNext, GPUContext, QueueContext, TypeOK
  <2>2. r \in ToSet(readyQueue)
    BY <2>1 DEF ToSet
  <2> HIDE DEF r
  <2>3. r \in Runtime /\ r.goal \in goals \cup {NoGoal}
    BY <2>2, ReadyGoals
  <2>4. toRun \in Seq(Runtime)
    BY DEF GPUContext, QueueContext, TypeOK
  <2>5. \A i \in DOMAIN toRun' : toRun'[i].goal \in goals' \cup {NoGoal}
    <3>1. \A i \in DOMAIN toRun' : \/ i \in DOMAIN toRun /\ toRun'[i] = toRun[i]
                                  \/ toRun'[i] = r
      BY <1>3, <2>3, <2>4, AppendProperties, LenProperties
    <3> QED  BY <1>1, <2>3, <3>1 DEF GPUContext, GPUInvariant
  <2>6. ASSUME Policy = "gpuaware"
        PROVE  /\ OneUsesGPU(toRun')
               /\ ~ (UsesGPU(scheduledPlugins) /\ UsesGPU(toRun'))
               /\ UsesGPU(scheduledPlugins) \/ UsesGPU(toRun') => gpuTaken'
    <3>1. RequiresGPU(r) => ~ UsesGPU(scheduledPlugins) /\ ~ UsesGPU(toRun)
      BY <1>1, <1>3, <2>6 DEF GPUWaits, GPUContext, GPUInvariant
    <3>2. UsesGPU(toRun') => UsesGPU(toRun) \/ RequiresGPU(r)
      BY <1>3, <2>3, <2>4, GPUAppend
    <3>3. OneUsesGPU(toRun')
      BY <1>3, <2>3, <2>4, <2>6, <3>1, GPUAppend DEF GPUContext, GPUInvariant
    <3> QED  BY <1>1, <1>3, <2>6, <3>1, <3>2, <3>3 DEF GPUContext, GPUInvariant
  <2>7. UsesGPU(scheduledPlugins') = UsesGPU(scheduledPlugins)
        /\ OneUsesGPU(scheduledPlugins') = OneUsesGPU(scheduledPlugins)
    BY <1>1
  <2> QED  BY <1>1, <2>5, <2>6, <2>7 DEF GPUContext, GPUInvariant
<1> QED  BY <1>2, <1>3 DEF SelectNext

\* A launch moves an entry from the ready queue to the scheduled plugins that
\* needs the GPU if and only if the selected plugin does.
LEMMA GPULaunchNext ==
  ASSUME GPUContext, LaunchNext
  PROVE  GPUInvariant'
<1> DEFINE h == Head(toRun)
           p == Popped(readyQueue, h.name)
<1>1. /\ pc = "launching" /\ pc' \in {"launching", "crashed"} /\ UNCHANGED goals
      /\ toRun # <<>> /\ toRun' = Tail(toRun)
  BY DEF LaunchNext, goalVars
<1>2. /\ toRun \in Seq(Runtime) /\ scheduledPlugins \in Seq(Runtime)
      /\ readyQueue \in Seq(Runtime)
  BY DEF GPUContext, QueueContext, TypeOK
<1>3. h \in Runtime /\ h.goal \in goals \cup {NoGoal}
  <2>1. 1 \in DOMAIN toRun /\ h = toRun[1]
    BY <1>1, <1>2, EmptySeq, LenProperties
  <2>2. toRun[1].goal \in goals \cup {NoGoal}
    BY <2>1 DEF GPUContext, GPUInvariant
  <2> QED  BY <1>1, <1>2, <2>1, <2>2, HeadTailProperties
<1>4. \A i \in DOMAIN toRun' : toRun'[i].goal \in goals' \cup {NoGoal}
  <2>1. \A i \in DOMAIN toRun' : i + 1 \in DOMAIN toRun /\ toRun'[i] = toRun[i + 1]
    BY <1>1, <1>2, HeadTailProperties, LenProperties
  <2> QED  BY <1>1, <2>1 DEF GPUContext, GPUInvariant
<1>5. CASE ~ HasName(readyQueue, h.name)
  <2>1. UNCHANGED scheduledPlugins
    BY <1>5 DEF LaunchNext
  <2>2. /\ UsesGPU(toRun') => UsesGPU(toRun)
        /\ OneUsesGPU(toRun) => OneUsesGPU(toRun')
    BY <1>1, <1>2, GPUTail
  <2>3. /\ UsesGPU(scheduledPlugins') = UsesGPU(scheduledPlugins)
        /\ OneUsesGPU(scheduledPlugins') = OneUsesGPU(scheduledPlugins)
    BY <2>1
  <2> QED  BY <1>1, <1>4, <2>2, <2>3 DEF GPUContext, GPUInvariant
<1>6. CASE HasName(readyQueue, h.name)
  <2>1. scheduledPlugins' = Append(scheduledPlugins, p)
    BY <1>6 DEF LaunchNext, Push
  <2>2. p \in ToSet(readyQueue) /\ p.name = h.name
    BY <1>2, <1>6, AfterPopProperties
  <2> HIDE DEF p, h
  <2>3. p \in Runtime /\ p.goal = h.goal
    BY <1>3, <2>2, ReadyGoals, NameGivesGoal
  <2>4. RequiresGPU(p) = RequiresGPU(h)
    BY <2>2, <2>3 DEF RequiresGPU
  <2>5. /\ UsesGPU(toRun') => UsesGPU(toRun)
        /\ RequiresGPU(h) => UsesGPU(toRun)
        /\ OneUsesGPU(toRun) => /\ OneUsesGPU(toRun')
                                /\ RequiresGPU(h) => ~ UsesGPU(toRun')
    BY <1>1, <1>2, GPUTail DEF h
  <2>6. /\ UsesGPU(scheduledPlugins') => UsesGPU(scheduledPlugins) \/ RequiresGPU(p)
        /\ OneUsesGPU(scheduledPlugins) /\ (RequiresGPU(p) => ~ UsesGPU(scheduledPlugins))
             => OneUsesGPU(scheduledPlugins')
    BY <1>2, <2>1, <2>3, GPUAppend
  <2> QED  BY <1>1, <1>4, <2>4, <2>5, <2>6 DEF GPUContext, GPUInvariant
<1> QED  BY <1>5, <1>6

\* Clean-up and the Deleted event take entries out of the scheduled plugins.
LEMMA GPUPop ==
  ASSUME GPUContext,
         UNCHANGED <<goals, toRun>>,
         scheduledPlugins' = scheduledPlugins
           \/ \E n \in Name : scheduledPlugins' = AfterPop(scheduledPlugins, n),
         \/ pc' = pc /\ UNCHANGED gpuTaken
         \/ pc' # "selecting" /\ toRun = <<>>
  PROVE  GPUInvariant'
<1>1. scheduledPlugins \in Seq(Runtime)
  BY DEF GPUContext, QueueContext, TypeOK
<1>2. /\ UsesGPU(scheduledPlugins') => UsesGPU(scheduledPlugins)
      /\ OneUsesGPU(scheduledPlugins) => OneUsesGPU(scheduledPlugins')
  BY <1>1, GPUAfterPop
<1> QED  BY <1>2, GPUFrame

-----------------------------------------------------------------------------
(* The theorems                                                            *)

\* The initial state has selected and scheduled nothing.
LEMMA GPUInit == Init => GPUInvariant
<1> SUFFICES ASSUME Init PROVE GPUInvariant
  OBVIOUS
<1>1. pc = "select" /\ toRun = <<>> /\ scheduledPlugins = <<>>
  BY DEF Init
<1>2. ~ UsesGPU(<<>>) /\ OneUsesGPU(<<>>) /\ DOMAIN <<>> = {}
  BY DEF UsesGPU, OneUsesGPU
<1> QED  BY <1>1, <1>2 DEF GPUInvariant

\* Neither has a restarted process.
LEMMA GPURestart ==
  ASSUME GPUContext, Restart
  PROVE  GPUInvariant'
<1>1. pc' = "select" /\ toRun' = <<>> /\ scheduledPlugins' = <<>>
  BY DEF Restart
<1>2. ~ UsesGPU(<<>>) /\ OneUsesGPU(<<>>) /\ DOMAIN <<>> = {}
  BY DEF UsesGPU, OneUsesGPU
<1> QED  BY <1>1, <1>2 DEF GPUInvariant

\* Every step of the node and of its cluster keeps the invariant.
LEMMA GPUNext == GPUContext /\ [Next]_vars => GPUInvariant'
<1> SUFFICES ASSUME GPUContext, [Next]_vars PROVE GPUInvariant'
  OBVIOUS
<1>1. pc \notin {"selecting", "launching", "crashed"} => toRun = <<>>
  BY DEF GPUContext, GPUInvariant
<1>2. ASSUME NEW G \in GoalLists, CloudSendsGoals(G) PROVE GPUInvariant'
  BY <1>2, GPUStutter DEF CloudSendsGoals, goalVars, queueVars, policyVars
<1>3. CASE ReceiveFromCloud
  BY <1>3, GPUStutter DEF ReceiveFromCloud, goalVars, queueVars, policyVars
<1>4. CASE ReceiveConfigMap
  BY <1>1, <1>4, GPUStutter DEF ReceiveConfigMap, goalVars, queueVars, policyVars
<1>5. CASE HandleGoals
  <2>1. ASSUME NEW g \in Goal, BulkGoal(g) PROVE GPUInvariant'
    <3>1. pc = "bulk" /\ pc' # "selecting" /\ UNCHANGED <<toRun, scheduledPlugins>>
      BY <2>1 DEF BulkGoal, queueVars, policyVars
    <3> QED  BY <1>1, <3>1, GPUStutter
  <2>2. CASE BulkRemove
    BY <1>1, <2>2, GPUStutter DEF BulkRemove, goalVars, queueVars, policyVars
  <2>3. ASSUME NEW n \in Name, CleanPlugin(n) PROVE GPUInvariant'
    BY <2>3, GPUPop DEF CleanPlugin, policyVars
  <2>4. CASE CleanDone
    <3>1. pc = "cleaning" /\ pc' = "bulk" /\ UNCHANGED <<toRun, scheduledPlugins>>
      BY <2>4 DEF CleanDone, queueVars, policyVars
    <3> QED  BY <1>1, <3>1, GPUStutter
  <2> QED  BY <1>5, <2>1, <2>2, <2>3, <2>4 DEF HandleGoals
<1>6. CASE EvaluateRules
  <2>1. ASSUME NEW r \in Runtime, QueuePlugin(r) PROVE GPUInvariant'
    BY <1>1, <2>1, GPUStutter DEF QueuePlugin, goalVars, policyVars
  <2>2. CASE RulesEvaluated
    BY <1>1, <2>2, GPUStutter DEF RulesEvaluated, goalVars, queueVars, policyVars
  <2>3. CASE IdleTick
    BY <2>3, GPUStutter DEF IdleTick, vars, goalVars, queueVars, policyVars
  <2> QED  BY <1>6, <2>1, <2>2, <2>3 DEF EvaluateRules
<1>7. CASE TriggerScheduling
  BY <1>1, <1>7, GPUStutter DEF TriggerScheduling, goalVars, queueVars, policyVars
<1>8. CASE Schedule
  <2>1. CASE SelectDone
    BY <2>1 DEF SelectDone, goalVars, GPUContext, GPUInvariant
  <2>2. CASE LaunchDone
    BY <2>2, GPUStutter DEF LaunchDone, goalVars, queueVars, policyVars
  <2> QED
    BY <1>8, <2>1, <2>2, GPUStartScheduling, GPUSelectNext, GPULaunchNext DEF Schedule
<1>9. CASE Launch
  <2>1. ASSUME NEW r \in Runtime, CreatePod(r) PROVE GPUInvariant'
    BY <2>1, GPUStutter DEF CreatePod, goalVars, queueVars, policyVars
  <2>2. ASSUME NEW r \in Runtime, AbortPod(r) PROVE GPUInvariant'
    BY <2>2, GPUStutter DEF AbortPod, goalVars, queueVars, policyVars
  <2> QED  BY <1>9, <2>1, <2>2 DEF Launch
<1>10. CASE HandlePodEvent
  <2>1. CASE IgnorePodEvent
    BY <2>1, GPUStutter DEF IgnorePodEvent, goalVars, queueVars, policyVars
  <2>2. ASSUME NEW r \in loaded, PodAdded(r) PROVE GPUInvariant'
    BY <2>2, GPUStutter DEF PodAdded, goalVars, queueVars, policyVars
  <2>3. ASSUME NEW r \in loaded, PodModified(r) PROVE GPUInvariant'
    BY <2>3, GPUStutter DEF PodModified, goalVars, queueVars, policyVars
  <2>4. ASSUME NEW r \in loaded, PodDeleted(r) PROVE GPUInvariant'
    <3>1. r.name \in Name
      BY DEF GPUContext, QueueContext, TypeOK, Runtime
    <3>2. /\ UNCHANGED <<goals, toRun>>
          /\ scheduledPlugins' = AfterPop(scheduledPlugins, r.name)
          /\ pc = "select" /\ pc' # "selecting"
      BY <2>4 DEF PodDeleted, ReceivePodEvent, goalVars, policyVars
    <3> QED  BY <1>1, <3>1, <3>2, GPUPop
  <2> QED  BY <1>10, <2>1, <2>2, <2>3, <2>4 DEF HandlePodEvent
<1>11. CASE ReceiveKubeEvent
  BY <1>11, GPUStutter DEF ReceiveKubeEvent, goalVars, queueVars, policyVars
<1>12. CASE API
  <2>1. ASSUME NEW n \in APINames, APISchedule(n) PROVE GPUInvariant'
    BY <2>1, GPUStutter DEF APISchedule, policyVars
  <2>2. CASE APITrigger
    BY <2>2, GPUStutter DEF APITrigger, goalVars, queueVars, policyVars
  <2>3. ~ \E g \in APIGoals : APIAddGoal(g)
    BY DEF GPUContext, QueueContext, NoPostedGoals
  <2> QED  BY <1>12, <2>1, <2>2, <2>3 DEF API
<1>13. CASE Restart
  BY <1>13, GPURestart
<1>14. CASE Cluster
  BY <1>14, GPUStutter DEF Cluster, goalVars, queueVars, policyVars
<1>15. CASE UNCHANGED vars
  BY <1>15, GPUStutter DEF vars, goalVars, queueVars, policyVars
<1> QED
  BY <1>2, <1>3, <1>4, <1>5, <1>6, <1>7, <1>8, <1>9, <1>10, <1>11, <1>12, <1>13, <1>14,
     <1>15 DEF Next

\* The invariant of the GPU holds in every reachable state.
THEOREM GPUInvariantHolds ==
  ASSUME UniqueNames, NoPostedGoals
  PROVE  Spec => []GPUInvariant
<1>1. Init => GPUInvariant
  BY GPUInit
<1>2. TypeOK /\ TypeOK' /\ QueueInvariant /\ GPUInvariant /\ [Next]_vars => GPUInvariant'
  BY GPUNext DEF GPUContext, QueueContext
<1> QED  BY <1>1, <1>2, TypeCorrect, QueueInvariantHolds, PTL DEF Spec

\* Under the GPU-aware policy one scheduled plugin at most needs the GPU, although
\* the policy's choice, the launch by name and the release are separate steps.
THEOREM GPUExclusiveHolds ==
  ASSUME UniqueNames, NoPostedGoals
  PROVE  Spec => []GPUExclusive
<1>1. GPUInvariant => GPUExclusive
  BY DEF GPUInvariant, GPUExclusive, OneUsesGPU
<1> QED  BY <1>1, GPUInvariantHolds, PTL

-----------------------------------------------------------------------------
(* The order of launches                                                   *)

\* What the induction on the order of launches assumes: in addition, nobody
\* submits plugins through the REST API.
OrderContext ==
  /\ GPUContext
  /\ OrderInvariant
  /\ APINames = {}

\* Without the REST API every object belongs to a goal.
LEMMA GoalsOnly == ASSUME APINames = {} PROVE \A r \in Runtime : r.goal # NoGoal
BY DEF Runtime

\* What Pop takes, and where the other entries go.
LEMMA PopPositions ==
  ASSUME NEW S, NEW q \in Seq(S), NEW n, HasName(q, n)
  PROVE  LET i == FirstNamed(q, n)
         IN  /\ i \in 1..Len(q) /\ Popped(q, n) = q[i]
             /\ AfterPop(q, n) = RemoveAt(q, i) /\ AfterPop(q, n) \in Seq(S)
             /\ Len(AfterPop(q, n)) = Len(q) - 1
             /\ \A j \in 1..(Len(q) - 1) :
                  AfterPop(q, n)[j] = IF j < i THEN q[j] ELSE q[j + 1]
<1> DEFINE i == FirstNamed(q, n)
<1>1. i \in 1..Len(q) /\ AfterPop(q, n) = RemoveAt(q, i) /\ Popped(q, n) = q[i]
  BY FirstNamedProperties DEF AfterPop, Popped
<1> HIDE DEF i
<1>2. /\ RemoveAt(q, i) \in Seq(S) /\ Len(RemoveAt(q, i)) = Len(q) - 1
      /\ \A j \in 1..(Len(q) - 1) : RemoveAt(q, i)[j] = IF j < i THEN q[j] ELSE q[j + 1]
  BY <1>1, RemoveAtProperties
<1> QED  BY <1>1, <1>2 DEF i

\* Two entries of the ready queue, or one of them and one of the scheduled
\* plugins, that have one name are one entry.
LEMMA QueuedOnce ==
  ASSUME OrderContext, NEW r \in Runtime, NEW s \in Runtime, InReady(r) \/ InScheduled(r),
         InReady(s) \/ InScheduled(s), r.name = s.name
  PROVE  r = s
BY GoalsOnly, NameDetermines DEF OrderContext, GPUContext

\* A step outside the policy.
LEMMA OrderFrame ==
  ASSUME OrderContext,
         \/ pc' \notin {"selecting", "launching"}
         \/ pc' = pc /\ UNCHANGED <<toRun, readyQueue, readyIndex, scheduledPlugins, gpuTaken>>
  PROVE  OrderInvariant'
<1>1. CASE pc' \notin {"selecting", "launching"}
  BY <1>1 DEF OrderInvariant
<1>2. CASE pc' = pc /\ UNCHANGED <<toRun, readyQueue, readyIndex, scheduledPlugins, gpuTaken>>
  <2>1. UsesGPU(scheduledPlugins') = UsesGPU(scheduledPlugins)
        /\ UsesGPU(toRun') = UsesGPU(toRun)
    BY <1>2
  <2>2. \A k : HeldAhead(k)' <=> HeldAhead(k)
    BY <1>2, <2>1 DEF HeldAhead
  <2>3. \A n : HasName(readyQueue', n) <=> HasName(readyQueue, n)
    BY <1>2
  <2> QED  BY <1>2, <2>1, <2>2, <2>3 DEF OrderContext, OrderInvariant
<1> QED  BY <1>1, <1>2

\* The policy begins; the round-robin policy takes the oldest plugin.
LEMMA OrderStartScheduling ==
  ASSUME OrderContext, StartScheduling
  PROVE  OrderInvariant'
<1>1. toRun = <<>> /\ UNCHANGED scheduledPlugins
  BY DEF StartScheduling, OrderContext, GPUContext, GPUInvariant
<1>2. CASE Policy = "roundrobin"
  <2>1. pc' = "launching"
    BY <1>2 DEF StartScheduling
  <2>2. CASE toRun' = toRun
    BY <1>1, <1>2, <2>1, <2>2 DEF OrderInvariant
  <2>3. CASE readyQueue # <<>> /\ toRun' = <<Head(readyQueue)>> /\ readyQueue' = Tail(readyQueue)
    <3>1. readyQueue \in Seq(Runtime) /\ IsInjective(readyQueue)
      BY DEF OrderContext, GPUContext, QueueContext, TypeOK, QueueInvariant, NoDuplicates
    <3>2. /\ Head(readyQueue) \in ToSet(readyQueue)
          /\ ToSet(Tail(readyQueue)) \subseteq ToSet(readyQueue)
          /\ Head(readyQueue) \notin ToSet(Tail(readyQueue))
      BY <2>3, <3>1, TailProperties
    <3>3. \A r \in ToSet(readyQueue) : r \in Runtime
      BY <3>1 DEF ToSet
    <3>4. ASSUME HasName(Tail(readyQueue), Head(readyQueue).name) PROVE FALSE
      <4>1. PICK s \in ToSet(Tail(readyQueue)) : s.name = Head(readyQueue).name
        BY <3>4 DEF HasName, ToSet
      <4>2. s = Head(readyQueue)
        BY <3>2, <3>3, <4>1, QueuedOnce DEF InReady
      <4> QED  BY <3>2, <4>1, <4>2
    <3>5. \A i \in DOMAIN toRun' : toRun'[i] = Head(readyQueue)
      BY <2>3
    <3> QED  BY <1>2, <2>1, <2>3, <3>4, <3>5 DEF OrderInvariant
  <2> QED  BY <1>2, <2>2, <2>3 DEF StartScheduling
<1>3. CASE Policy # "roundrobin"
  <2>1. /\ pc' = "selecting" /\ toRun' = <<>> /\ readyIndex' = 0 /\ UNCHANGED readyQueue
        /\ gpuTaken' = (Policy = "gpuaware" /\ UsesGPU(scheduledPlugins))
    BY <1>1, <1>3 DEF StartScheduling, UsesGPU
  <2>2. \A k \in DOMAIN readyQueue' : ~ (k <= readyIndex')
    BY <2>1, LenProperties DEF OrderContext, GPUContext, QueueContext, TypeOK
  <2>3. gpuTaken' => Policy = "gpuaware" /\ UsesGPU(scheduledPlugins')
    BY <1>1, <2>1
  <2> QED  BY <1>3, <2>1, <2>2, <2>3 DEF OrderInvariant
<1> QED  BY <1>2, <1>3

\* The next entry of the ready queue is the last that is selected or passed over.
LEMMA OrderSelectNext ==
  ASSUME OrderContext, SelectNext, Policy # "roundrobin"
  PROVE  OrderInvariant'
<1> DEFINE m == readyIndex + 1
           r == readyQueue[m]
<1>1. /\ pc = "selecting" /\ pc' = pc /\ readyIndex' = m
      /\ UNCHANGED <<readyQueue, scheduledPlugins>>
  BY DEF SelectNext
<1>2. /\ toRun \in Seq(Runtime) /\ readyIndex \in Nat /\ m \in 1..Len(readyQueue)
      /\ DOMAIN readyQueue = 1..Len(readyQueue) /\ Len(readyQueue) \in Nat
      /\ DOMAIN toRun = 1..Len(toRun) /\ Len(toRun) \in Nat /\ r \in Runtime
  <2>1. /\ toRun \in Seq(Runtime) /\ readyIndex \in Nat /\ readyQueue \in Seq(Runtime)
        /\ readyIndex < Len(readyQueue)
    BY DEF SelectNext, OrderContext, GPUContext, QueueContext, TypeOK
  <2>2. /\ DOMAIN readyQueue = 1..Len(readyQueue) /\ Len(readyQueue) \in Nat
        /\ DOMAIN toRun = 1..Len(toRun) /\ Len(toRun) \in Nat
    BY <2>1, LenProperties
  <2>3. m \in 1..Len(readyQueue)
    BY <2>1, <2>2
  <2> HIDE DEF m
  <2>4. readyQueue[m] \in Runtime
    BY <2>1, <2>3, ElementOfSeq
  <2> QED  BY <2>1, <2>2, <2>3, <2>4
<1>3. \A k, l \in DOMAIN readyQueue : readyQueue[k] = readyQueue[l] => k = l
  BY DEF OrderContext, GPUContext, QueueContext, QueueInvariant, NoDuplicates, IsInjective
<1>4. /\ \A i \in DOMAIN toRun : \E k \in DOMAIN readyQueue :
           readyQueue[k] = toRun[i] /\ k <= readyIndex
      /\ \A i, j \in DOMAIN toRun, k, l \in DOMAIN readyQueue :
           i < j /\ toRun[i] = readyQueue[k] /\ toRun[j] = readyQueue[l] => k < l
      /\ \A k \in DOMAIN readyQueue : k <= readyIndex =>
           \/ \E i \in DOMAIN toRun : toRun[i] = readyQueue[k]
           \/ Policy = "gpuaware" /\ RequiresGPU(readyQueue[k]) /\ HeldAhead(k)
      /\ gpuTaken => Policy = "gpuaware" /\ (UsesGPU(scheduledPlugins) \/ UsesGPU(toRun))
  BY <1>1 DEF OrderContext, OrderInvariant
<1>5. UsesGPU(scheduledPlugins') = UsesGPU(scheduledPlugins)
  BY <1>1
<1>6. \A k \in DOMAIN readyQueue : k <= m => k <= readyIndex \/ k = m
  BY <1>2
<1>7. CASE GPUWaits(r) /\ UNCHANGED policyVars
  <2>1. UNCHANGED <<toRun, gpuTaken>> /\ UsesGPU(toRun') = UsesGPU(toRun)
    BY <1>7 DEF policyVars
  <2>2. \A k : HeldAhead(k)' <=> HeldAhead(k)
    BY <1>1, <1>5, <2>1 DEF HeldAhead
  <2>3. HeldAhead(m)
    <3>1. CASE UsesGPU(scheduledPlugins)
      BY <3>1 DEF HeldAhead
    <3>2. CASE UsesGPU(toRun)
      <4>1. PICK i \in DOMAIN toRun : RequiresGPU(toRun[i])
        BY <3>2 DEF UsesGPU
      <4>2. PICK l \in DOMAIN readyQueue : readyQueue[l] = toRun[i] /\ l <= readyIndex
        BY <1>4
      <4>3. l \in 1..(m - 1)
        BY <1>2, <4>2
      <4> QED  BY <4>1, <4>2, <4>3 DEF HeldAhead
    <3> QED  BY <1>4, <1>7, <3>1, <3>2 DEF GPUWaits
  <2>4. Policy = "gpuaware" /\ RequiresGPU(readyQueue[m])
    BY <1>7 DEF GPUWaits
  <2>5. \A i \in DOMAIN toRun : \E k \in DOMAIN readyQueue : readyQueue[k] = toRun[i] /\ k <= m
    <3>1. TAKE i \in DOMAIN toRun
    <3>2. PICK k \in DOMAIN readyQueue : readyQueue[k] = toRun[i] /\ k <= readyIndex
      BY <1>4
    <3>3. k <= m
      BY <1>2, <3>2
    <3> QED  BY <3>2, <3>3
  <2> HIDE DEF m, r
  <2>6. \A k \in DOMAIN readyQueue : k <= m =>
           \/ \E i \in DOMAIN toRun : toRun[i] = readyQueue[k]
           \/ Policy = "gpuaware" /\ RequiresGPU(readyQueue[k]) /\ HeldAhead(k)
    BY <1>4, <1>6, <2>3, <2>4
  <2> QED  BY <1>1, <1>4, <1>5, <2>1, <2>2, <2>5, <2>6 DEF OrderContext, OrderInvariant
<1>8. CASE /\ toRun' = Append(toRun, r)
           /\ gpuTaken' = (gpuTaken \/ (Policy = "gpuaware" /\ RequiresGPU(r)))
  <2> DEFINE e == Len(toRun) + 1
  <2>1. /\ DOMAIN toRun' = 1..e /\ toRun'[e] = r
        /\ \A i \in DOMAIN toRun : toRun'[i] = toRun[i]
        /\ \A i \in DOMAIN toRun' : i \in DOMAIN toRun \/ i = e
        /\ \A i \in DOMAIN toRun : i \in DOMAIN toRun' /\ i < e
        /\ e \in DOMAIN toRun' /\ \A i, j \in DOMAIN toRun' : i < j => i \in DOMAIN toRun
    <3>1. Append(toRun, r) \in Seq(Runtime) /\ Len(Append(toRun, r)) = e
          /\ \A i \in 1..Len(toRun) : Append(toRun, r)[i] = toRun[i]
          /\ Append(toRun, r)[e] = r
      BY <1>2, AppendProperties
    <3>2. DOMAIN toRun' = 1..e
      BY <1>8, <3>1, LenProperties
    <3> QED  BY <1>2, <1>8, <3>1, <3>2
  <2> HIDE DEF e
  <2>2. m \in DOMAIN readyQueue /\ m <= m /\ \A k \in DOMAIN readyQueue : k <= readyIndex => k < m /\ k <= m
    BY <1>2
  <2>3. readyQueue[m] = r
    OBVIOUS
  <2> HIDE DEF m, r
  <2>4. \A i \in DOMAIN toRun' : \E k \in DOMAIN readyQueue : readyQueue[k] = toRun'[i] /\ k <= m
    <3>1. TAKE i \in DOMAIN toRun'
    <3>2. CASE i = e
      BY <2>1, <2>2, <2>3, <3>2
    <3>3. CASE i \in DOMAIN toRun
      <4>1. PICK k \in DOMAIN readyQueue : readyQueue[k] = toRun[i] /\ k <= readyIndex
        BY <1>4, <3>3
      <4> QED  BY <2>1, <2>2, <3>3, <4>1
    <3> QED  BY <2>1, <3>2, <3>3
  <2>5. \A i, j \in DOMAIN toRun', k, l \in DOMAIN readyQueue :
          i < j /\ toRun'[i] = readyQueue[k] /\ toRun'[j] = readyQueue[l] => k < l
    <3>1. TAKE i, j \in DOMAIN toRun', k, l \in DOMAIN readyQueue
    <3>2. HAVE i < j /\ toRun'[i] = readyQueue[k] /\ toRun'[j] = readyQueue[l]
    <3>3. i \in DOMAIN toRun /\ toRun[i] = readyQueue[k]
      BY <2>1, <3>2
    <3>4. CASE j = e
      <4>1. l = m
        BY <1>3, <2>1, <2>2, <2>3, <3>2, <3>4
      <4>2. k <= readyIndex
        BY <1>3, <1>4, <3>3
      <4> QED  BY <2>2, <4>1, <4>2
    <3>5. CASE j \in DOMAIN toRun
      BY <1>4, <2>1, <3>2, <3>3, <3>5
    <3> QED  BY <2>1, <3>4, <3>5
  <2>6. \A k : HeldAhead(k) => HeldAhead(k)'
    BY <1>1, <1>5, <2>1 DEF HeldAhead
  <2>7. \A k \in DOMAIN readyQueue : k <= m =>
           \/ \E i \in DOMAIN toRun' : toRun'[i] = readyQueue[k]
           \/ Policy = "gpuaware" /\ RequiresGPU(readyQueue[k]) /\ HeldAhead(k)'
    BY <1>4, <1>6, <2>1, <2>3, <2>6
  <2>8. UsesGPU(toRun) \/ RequiresGPU(r) => UsesGPU(toRun')
    BY <2>1 DEF UsesGPU
  <2> QED  BY <1>1, <1>4, <1>5, <1>8, <2>4, <2>5, <2>7, <2>8 DEF OrderContext, OrderInvariant
<1> QED  BY <1>7, <1>8 DEF SelectNext

-----------------------------------------------------------------------------
(* Launches                                                                *)

\* Where the head of toRun is in the ready queue: Pop finds it there, and what
\* is before it was passed over and is blocked by a scheduled plugin.
LEMMA LaunchPosition ==
  ASSUME OrderContext, LaunchNext, Policy # "roundrobin"
  PROVE  LET n == Head(toRun).name
             a == FirstNamed(readyQueue, n)
         IN  /\ HasName(readyQueue, n) /\ a \in DOMAIN readyQueue
             /\ readyQueue[a] = toRun[1] /\ 1 \in DOMAIN toRun
             /\ Popped(readyQueue, n) = readyQueue[a]
             /\ \A k \in DOMAIN readyQueue : readyQueue[k] = toRun[1] => k = a
             /\ \A i \in DOMAIN toRun, k \in DOMAIN readyQueue :
                  toRun[i] = readyQueue[k] /\ i # 1 => a < k
             /\ \A k \in 1..(a - 1) : /\ Policy = "gpuaware" /\ RequiresGPU(readyQueue[k])
                                      /\ UsesGPU(scheduledPlugins)
<1> DEFINE n == Head(toRun).name
           a == FirstNamed(readyQueue, n)
<1>1. /\ pc = "launching" /\ toRun # <<>> /\ toRun \in Seq(Runtime)
      /\ readyQueue \in Seq(Runtime)
  BY DEF LaunchNext, OrderContext, GPUContext, QueueContext, TypeOK
<1>2. /\ Len(toRun) \in Nat /\ Len(toRun) >= 1 /\ DOMAIN toRun = 1..Len(toRun)
      /\ Head(toRun) = toRun[1] /\ toRun[1] \in Runtime /\ 1 \in DOMAIN toRun
      /\ DOMAIN readyQueue = 1..Len(readyQueue) /\ Len(readyQueue) \in Nat
  <2>1. Len(toRun) \in Nat /\ Len(toRun) >= 1 /\ DOMAIN toRun = 1..Len(toRun)
    BY <1>1, LenProperties, EmptySeq
  <2>2. 1 \in 1..Len(toRun)
    BY <2>1
  <2>3. toRun[1] \in Runtime
    BY <1>1, <2>2, ElementOfSeq
  <2>4. Head(toRun) = toRun[1]
    BY <1>1, HeadTailProperties
  <2>5. DOMAIN readyQueue = 1..Len(readyQueue) /\ Len(readyQueue) \in Nat
    BY <1>1, LenProperties
  <2> QED  BY <2>1, <2>2, <2>3, <2>4, <2>5
<1>3. /\ \A i \in DOMAIN toRun : \E k \in DOMAIN readyQueue : readyQueue[k] = toRun[i]
      /\ \A i, j \in DOMAIN toRun, k, l \in DOMAIN readyQueue :
           i < j /\ toRun[i] = readyQueue[k] /\ toRun[j] = readyQueue[l] => k < l
      /\ \A k \in DOMAIN readyQueue :
           \/ \E i \in DOMAIN toRun : toRun[i] = readyQueue[k]
           \/ Policy = "gpuaware" /\ RequiresGPU(readyQueue[k]) /\ HeldAhead(k)
  BY <1>1 DEF OrderContext, OrderInvariant
<1>4. \A k, l \in DOMAIN readyQueue : readyQueue[k] = readyQueue[l] => k = l
  BY DEF OrderContext, GPUContext, QueueContext, QueueInvariant, NoDuplicates, IsInjective
<1>5. PICK h \in DOMAIN readyQueue : readyQueue[h] = toRun[1]
  BY <1>2, <1>3
<1>6. HasName(readyQueue, n)
  BY <1>2, <1>5 DEF HasName
<1>7. a \in 1..Len(readyQueue) /\ readyQueue[a].name = n /\ Popped(readyQueue, n) = readyQueue[a]
  BY <1>1, <1>6, FirstNamedProperties DEF Popped
<1> HIDE DEF a
<1>8. readyQueue[a] = toRun[1]
  <2>1. readyQueue[a] \in Runtime /\ InReady(readyQueue[a]) /\ InReady(toRun[1])
    BY <1>1, <1>2, <1>5, <1>7, ElementOfSeq DEF InReady, ToSet
  <2> QED  BY <1>2, <1>7, <2>1, QueuedOnce
<1>9. \A i \in DOMAIN toRun, k \in DOMAIN readyQueue : toRun[i] = readyQueue[k] /\ i # 1 => a < k
  <2>1. \A i \in DOMAIN toRun : i # 1 => 1 < i
    BY <1>2
  <2> QED  BY <1>2, <1>3, <1>7, <1>8, <2>1
<1>10. ASSUME NEW k \in 1..(a - 1)
       PROVE  /\ Policy = "gpuaware" /\ RequiresGPU(readyQueue[k])
              /\ UsesGPU(scheduledPlugins)
  <2>1. k \in DOMAIN readyQueue /\ ~ (a < k) /\ k # a
    BY <1>2, <1>7
  <2>2. ~ \E i \in DOMAIN toRun : toRun[i] = readyQueue[k]
    BY <1>2, <1>4, <1>7, <1>8, <1>9, <2>1
  <2>3. Policy = "gpuaware" /\ RequiresGPU(readyQueue[k]) /\ HeldAhead(k)
    BY <1>3, <2>1, <2>2
  <2>4. ASSUME NEW i \in DOMAIN toRun, NEW l \in 1..(k - 1), toRun[i] = readyQueue[l]
        PROVE  FALSE
    <3>1. l \in DOMAIN readyQueue /\ ~ (a < l) /\ l # a
      BY <1>2, <1>7, <2>1
    <3> QED  BY <1>2, <1>4, <1>7, <1>8, <1>9, <2>4, <3>1
  <2> QED  BY <2>3, <2>4 DEF HeldAhead
<1>11. \A k \in DOMAIN readyQueue : readyQueue[k] = toRun[1] => k = a
  BY <1>2, <1>4, <1>7, <1>8
<1>12. a \in DOMAIN readyQueue
  BY <1>2, <1>7
<1> QED  BY <1>2, <1>6, <1>7, <1>8, <1>9, <1>10, <1>11, <1>12 DEF a

\* The selected plugins that are left keep their order when the first is launched.
LEMMA OrderLaunchNext ==
  ASSUME OrderContext, LaunchNext
  PROVE  OrderInvariant'
<1>1. CASE Policy = "roundrobin"
  <2>1. CASE pc' = "crashed"
    BY <2>1 DEF OrderInvariant
  <2>2. ~ HasName(readyQueue, Head(toRun).name)
    <3>1. toRun \in Seq(Runtime) /\ toRun # <<>> /\ pc = "launching"
      BY DEF LaunchNext, OrderContext, GPUContext, QueueContext, TypeOK
    <3>2. 1 \in DOMAIN toRun /\ Head(toRun) = toRun[1]
      BY <3>1, LenProperties, EmptySeq, HeadTailProperties
    <3> QED  BY <1>1, <3>1, <3>2 DEF OrderContext, OrderInvariant
  <2> QED  BY <2>1, <2>2 DEF LaunchNext
<1>2. CASE Policy # "roundrobin"
  <2> DEFINE n == Head(toRun).name
             a == FirstNamed(readyQueue, n)
             old(k) == IF k < a THEN k ELSE k + 1
  <2>1. /\ HasName(readyQueue, n) /\ a \in DOMAIN readyQueue
        /\ readyQueue[a] = toRun[1] /\ 1 \in DOMAIN toRun
        /\ Popped(readyQueue, n) = readyQueue[a]
        /\ \A k \in DOMAIN readyQueue : readyQueue[k] = toRun[1] => k = a
        /\ \A i \in DOMAIN toRun, k \in DOMAIN readyQueue :
             toRun[i] = readyQueue[k] /\ i # 1 => a < k
    BY <1>2, LaunchPosition
  <2>2. /\ readyQueue \in Seq(Runtime) /\ scheduledPlugins \in Seq(Runtime)
        /\ toRun \in Seq(Runtime) /\ pc = "launching" /\ toRun # <<>> /\ toRun' = Tail(toRun)
    BY DEF LaunchNext, OrderContext, GPUContext, QueueContext, TypeOK
  <2>3. /\ readyQueue' = AfterPop(readyQueue, n) /\ pc' = pc
        /\ scheduledPlugins' = Append(scheduledPlugins, toRun[1])
    BY <2>1 DEF LaunchNext, Push
  <2>4. /\ Len(readyQueue) \in Nat /\ DOMAIN readyQueue = 1..Len(readyQueue)
        /\ DOMAIN readyQueue' = 1..(Len(readyQueue) - 1) /\ a \in 1..Len(readyQueue)
        /\ \A k \in DOMAIN readyQueue' : readyQueue'[k] = readyQueue[old(k)]
    <3>1. Len(readyQueue) \in Nat /\ DOMAIN readyQueue = 1..Len(readyQueue)
      BY <2>2, LenProperties
    <3>2. /\ readyQueue' \in Seq(Runtime) /\ Len(readyQueue') = Len(readyQueue) - 1
          /\ \A j \in 1..(Len(readyQueue) - 1) :
               readyQueue'[j] = IF j < a THEN readyQueue[j] ELSE readyQueue[j + 1]
      BY <2>1, <2>2, <2>3, PopPositions
    <3>3. DOMAIN readyQueue' = 1..(Len(readyQueue) - 1)
      BY <3>2, LenProperties
    <3> QED  BY <2>1, <3>1, <3>2, <3>3
  <2> HIDE DEF a
  <2>5. /\ \A k \in DOMAIN readyQueue' : old(k) \in DOMAIN readyQueue /\ old(k) # a
        /\ \A k \in DOMAIN readyQueue : k # a => \E j \in DOMAIN readyQueue' : old(j) = k
        /\ \A j, k \in DOMAIN readyQueue' : old(j) < old(k) => j < k
        /\ \A k \in DOMAIN readyQueue' : \A l \in 1..(old(k) - 1) :
             l \in DOMAIN readyQueue /\ (l # a => \E j \in 1..(k - 1) : j \in DOMAIN readyQueue' /\ old(j) = l)
    <3>1. \A k \in DOMAIN readyQueue' : old(k) \in DOMAIN readyQueue /\ old(k) # a
      BY <2>4
    <3>2. ASSUME NEW k \in DOMAIN readyQueue, k # a
          PROVE  \E j \in DOMAIN readyQueue' : old(j) = k
      <4>1. CASE k < a
        <5>1. k \in DOMAIN readyQueue' /\ old(k) = k
          BY <2>4, <4>1
        <5> QED  BY <5>1
      <4>2. CASE ~ (k < a)
        <5>1. k - 1 \in DOMAIN readyQueue' /\ old(k - 1) = k
          BY <2>4, <3>2, <4>2
        <5> QED  BY <5>1
      <4> QED  BY <4>1, <4>2
    <3>3. \A j, k \in DOMAIN readyQueue' : old(j) < old(k) => j < k
      BY <2>4
    <3>4. \A k \in DOMAIN readyQueue' : \A l \in 1..(old(k) - 1) : l \in DOMAIN readyQueue /\ l < old(k)
      BY <2>4
    <3>5. \A j \in DOMAIN readyQueue', k \in DOMAIN readyQueue' : j < k => j \in 1..(k - 1)
      BY <2>4
    <3> HIDE DEF old
    <3> QED  BY <3>1, <3>2, <3>3, <3>4, <3>5
  <2>6. /\ \A i \in DOMAIN toRun' : i + 1 \in DOMAIN toRun /\ toRun'[i] = toRun[i + 1] /\ i + 1 # 1
        /\ \A i \in DOMAIN toRun : i # 1 => i - 1 \in DOMAIN toRun' /\ toRun'[i - 1] = toRun[i]
        /\ \A i, j \in DOMAIN toRun' : i < j => i + 1 < j + 1
    <3>1. Len(toRun) \in Nat /\ Len(toRun) >= 1 /\ DOMAIN toRun = 1..Len(toRun)
      BY <2>2, LenProperties, EmptySeq
    <3>2. /\ Tail(toRun) \in Seq(Runtime) /\ Len(Tail(toRun)) = Len(toRun) - 1
          /\ \A i \in 1..(Len(toRun) - 1) : Tail(toRun)[i] = toRun[i + 1]
      BY <2>2, HeadTailProperties
    <3>3. DOMAIN toRun' = 1..(Len(toRun) - 1)
      BY <2>2, <3>2, LenProperties
    <3> QED  BY <2>2, <3>1, <3>2, <3>3
  <2>7. /\ UsesGPU(scheduledPlugins) => UsesGPU(scheduledPlugins')
        /\ RequiresGPU(toRun[1]) => UsesGPU(scheduledPlugins')
    <3>1. toRun[1] \in Runtime
      BY <2>1, <2>2, ElementOfSeq, LenProperties
    <3> QED  BY <2>2, <2>3, <3>1, GPUAppend
  <2>8. /\ \A i \in DOMAIN toRun : \E k \in DOMAIN readyQueue : readyQueue[k] = toRun[i]
        /\ \A i, j \in DOMAIN toRun, k, l \in DOMAIN readyQueue :
             i < j /\ toRun[i] = readyQueue[k] /\ toRun[j] = readyQueue[l] => k < l
        /\ \A k \in DOMAIN readyQueue :
             \/ \E i \in DOMAIN toRun : toRun[i] = readyQueue[k]
             \/ Policy = "gpuaware" /\ RequiresGPU(readyQueue[k]) /\ HeldAhead(k)
    BY <1>2, <2>2 DEF OrderContext, OrderInvariant
  <2> HIDE DEF old
  <2>9. \A i \in DOMAIN toRun' : \E k \in DOMAIN readyQueue' : readyQueue'[k] = toRun'[i]
    <3>1. TAKE i \in DOMAIN toRun'
    <3>2. PICK k \in DOMAIN readyQueue : readyQueue[k] = toRun[i + 1]
      BY <2>6, <2>8
    <3>3. k # a
      <4>1. a < k
        BY <2>1, <2>6, <3>2
      <4> QED  BY <2>4, <4>1
    <3>4. PICK j \in DOMAIN readyQueue' : old(j) = k
      BY <2>5, <3>3
    <3> QED  BY <2>4, <2>6, <3>2, <3>4
  <2>10. \A i, j \in DOMAIN toRun', k, l \in DOMAIN readyQueue' :
           i < j /\ toRun'[i] = readyQueue'[k] /\ toRun'[j] = readyQueue'[l] => k < l
    <3>1. TAKE i, j \in DOMAIN toRun', k, l \in DOMAIN readyQueue'
    <3>2. HAVE i < j /\ toRun'[i] = readyQueue'[k] /\ toRun'[j] = readyQueue'[l]
    <3>3. old(k) < old(l)
      BY <2>4, <2>5, <2>6, <2>8, <3>2
    <3> QED  BY <2>5, <3>3
  <2>11. ASSUME NEW k \in DOMAIN readyQueue',
                ~ \E i \in DOMAIN toRun' : toRun'[i] = readyQueue'[k]
         PROVE  Policy = "gpuaware" /\ RequiresGPU(readyQueue'[k]) /\ HeldAhead(k)'
    <3>1. readyQueue'[k] = readyQueue[old(k)] /\ old(k) \in DOMAIN readyQueue /\ old(k) # a
      BY <2>4, <2>5
    <3>2. ~ \E i \in DOMAIN toRun : toRun[i] = readyQueue[old(k)]
      BY <2>1, <2>6, <2>11, <3>1
    <3>3. Policy = "gpuaware" /\ RequiresGPU(readyQueue[old(k)]) /\ HeldAhead(old(k))
      BY <2>8, <3>1, <3>2
    <3>4. HeldAhead(k)'
      <4>1. CASE UsesGPU(scheduledPlugins)
        BY <2>7, <4>1 DEF HeldAhead
      <4>2. ASSUME NEW i \in DOMAIN toRun, NEW l \in 1..(old(k) - 1),
                   toRun[i] = readyQueue[l], RequiresGPU(toRun[i])
            PROVE  HeldAhead(k)'
        <5>1. CASE i = 1
          BY <2>7, <4>2, <5>1 DEF HeldAhead
        <5>2. CASE i # 1
          <6>1. l \in DOMAIN readyQueue
            BY <2>4, <2>5
          <6>2. l # a
            <7>1. a < l
              BY <2>1, <4>2, <5>2, <6>1
            <7> QED  BY <2>4, <7>1
          <6>3. PICK j \in 1..(k - 1) : j \in DOMAIN readyQueue' /\ old(j) = l
            BY <2>5, <6>2
          <6>4. toRun'[i - 1] = readyQueue'[j] /\ RequiresGPU(toRun'[i - 1])
                /\ i - 1 \in DOMAIN toRun'
            BY <2>4, <2>6, <4>2, <5>2, <6>3
          <6> QED  BY <6>3, <6>4 DEF HeldAhead
        <5> QED  BY <5>1, <5>2
      <4> QED  BY <3>3, <4>1, <4>2 DEF HeldAhead
    <3> QED  BY <3>1, <3>3, <3>4
  <2> QED  BY <1>2, <2>2, <2>3, <2>9, <2>10, <2>11 DEF OrderInvariant
<1> QED  BY <1>1, <1>2

\* Once the whole queue was iterated, the rest of it was passed over.
LEMMA OrderSelectDone ==
  ASSUME OrderContext, SelectDone
  PROVE  OrderInvariant'
<1>1. /\ pc = "selecting" /\ pc' = "launching" /\ Policy # "roundrobin"
      /\ UNCHANGED <<toRun, readyQueue, scheduledPlugins>>
      /\ gpuTaken' = FALSE
  BY DEF SelectDone, OrderContext, OrderInvariant
<1>2. \A k \in DOMAIN readyQueue : k <= readyIndex
  BY LenProperties DEF SelectDone, OrderContext, GPUContext, QueueContext, TypeOK
<1>3. UsesGPU(scheduledPlugins') = UsesGPU(scheduledPlugins)
      /\ UsesGPU(toRun') = UsesGPU(toRun)
  BY <1>1
<1>4. \A k : HeldAhead(k)' <=> HeldAhead(k)
  BY <1>1, <1>3 DEF HeldAhead
<1> QED  BY <1>1, <1>2, <1>4 DEF OrderContext, OrderInvariant

\* The initial state is outside the policy, and so is a restarted process.
LEMMA OrderInit == Init => OrderInvariant
BY DEF Init, OrderInvariant

\* Every step of the node and of its cluster keeps the invariant.
LEMMA OrderNext == OrderContext /\ [Next]_vars => OrderInvariant'
<1> SUFFICES ASSUME OrderContext, [Next]_vars PROVE OrderInvariant'
  OBVIOUS
<1> USE DEF goalVars, queueVars, policyVars
<1>1. ASSUME NEW G \in GoalLists, CloudSendsGoals(G) PROVE OrderInvariant'
  BY <1>1, OrderFrame DEF CloudSendsGoals
<1>2. CASE ReceiveFromCloud
  BY <1>2, OrderFrame DEF ReceiveFromCloud
<1>3. CASE ReceiveConfigMap
  BY <1>3, OrderFrame DEF ReceiveConfigMap
<1>4. CASE HandleGoals
  <2>1. ASSUME NEW g \in Goal, BulkGoal(g) PROVE OrderInvariant'
    <3>1. pc' \in {"bulk", "cleaning"}
      BY <2>1 DEF BulkGoal
    <3> QED  BY <3>1, OrderFrame
  <2>2. CASE BulkRemove
    BY <2>2, OrderFrame DEF BulkRemove
  <2>3. ASSUME NEW n \in Name, CleanPlugin(n) PROVE OrderInvariant'
    BY <2>3, OrderFrame DEF CleanPlugin
  <2>4. CASE CleanDone
    BY <2>4, OrderFrame DEF CleanDone
  <2> QED  BY <1>4, <2>1, <2>2, <2>3, <2>4 DEF HandleGoals
<1>5. CASE EvaluateRules
  <2>1. ASSUME NEW r \in Runtime, QueuePlugin(r) PROVE OrderInvariant'
    BY <2>1, OrderFrame DEF QueuePlugin
  <2>2. CASE RulesEvaluated
    BY <2>2, OrderFrame DEF RulesEvaluated
  <2>3. CASE IdleTick
    BY <2>3, OrderFrame DEF IdleTick, vars
  <2> QED  BY <1>5, <2>1, <2>2, <2>3 DEF EvaluateRules
<1>6. CASE TriggerScheduling
  BY <1>6, OrderFrame DEF TriggerScheduling
<1>7. CASE Schedule
  <2>1. CASE SelectNext
    BY <2>1, OrderSelectNext DEF SelectNext, OrderContext, OrderInvariant
  <2>2. CASE LaunchDone
    BY <2>2, OrderFrame DEF LaunchDone
  <2> QED
    BY <1>7, <2>1, <2>2, OrderStartScheduling, OrderSelectDone, OrderLaunchNext DEF Schedule
<1>8. CASE Launch
  <2>1. ASSUME NEW r \in Runtime, CreatePod(r) PROVE OrderInvariant'
    BY <2>1, OrderFrame DEF CreatePod
  <2>2. ASSUME NEW r \in Runtime, AbortPod(r) PROVE OrderInvariant'
    BY <2>2, OrderFrame DEF AbortPod
  <2> QED  BY <1>8, <2>1, <2>2 DEF Launch
<1>9. CASE HandlePodEvent
  <2>1. CASE IgnorePodEvent
    BY <2>1, OrderFrame DEF IgnorePodEvent
  <2>2. ASSUME NEW r \in loaded, PodAdded(r) PROVE OrderInvariant'
    BY <2>2, OrderFrame DEF PodAdded
  <2>3. ASSUME NEW r \in loaded, PodModified(r) PROVE OrderInvariant'
    BY <2>3, OrderFrame DEF PodModified
  <2>4. ASSUME NEW r \in loaded, PodDeleted(r) PROVE OrderInvariant'
    <3>1. pc' \in {"select", "sending"}
      BY <2>4 DEF PodDeleted, ReceivePodEvent
    <3> QED  BY <3>1, OrderFrame
  <2> QED  BY <1>9, <2>1, <2>2, <2>3, <2>4 DEF HandlePodEvent
<1>10. CASE ReceiveKubeEvent
  BY <1>10, OrderFrame DEF ReceiveKubeEvent
<1>11. CASE API
  <2>1. CASE APITrigger
    BY <2>1, OrderFrame DEF APITrigger
  <2>2. ~ \E g \in APIGoals : APIAddGoal(g)
    BY DEF OrderContext, GPUContext, QueueContext, NoPostedGoals
  <2>3. ~ \E n \in APINames : APISchedule(n)
    BY DEF OrderContext
  <2> QED  BY <1>11, <2>1, <2>2, <2>3 DEF API
<1>12. CASE Restart
  BY <1>12, OrderFrame DEF Restart
<1>13. CASE Cluster
  BY <1>13, OrderFrame DEF Cluster
<1>14. CASE UNCHANGED vars
  BY <1>14, OrderFrame DEF vars
<1> QED
  BY <1>1, <1>2, <1>3, <1>4, <1>5, <1>6, <1>7, <1>8, <1>9, <1>10, <1>11, <1>12, <1>13,
     <1>14 DEF Next

\* What is launched is the oldest selected plugin, and what the launches pass
\* over waits for the GPU.
THEOREM OrderInvariantHolds ==
  ASSUME UniqueNames, NoPostedGoals, APINames = {}
  PROVE  Spec => []OrderInvariant
<1>1. Init => OrderInvariant
  BY OrderInit
<1>2. TypeOK /\ TypeOK' /\ QueueInvariant /\ GPUInvariant /\ OrderInvariant /\ [Next]_vars
        => OrderInvariant'
  BY OrderNext DEF OrderContext, GPUContext, QueueContext
<1> QED
  BY <1>1, <1>2, TypeCorrect, QueueInvariantHolds, GPUInvariantHolds, PTL DEF Spec

\* The two ways in which a step keeps SelectionInvariant without being part of the
\* selection or of a launch.
LEMMA SelectionFrame ==
  ASSUME SelectionInvariant,
         \/ pc' \notin {"selecting", "launching", "crashed"} /\ toRun' = <<>>
         \/ UNCHANGED <<pc, toRun, readyQueue, readyIndex>>
  PROVE  SelectionInvariant'
<1>1. CASE pc' \notin {"selecting", "launching", "crashed"} /\ toRun' = <<>>
  BY <1>1 DEF SelectionInvariant, SelectedIsFound
<1>2. CASE UNCHANGED <<pc, toRun, readyQueue, readyIndex>>
  BY <1>2 DEF SelectionInvariant, SelectedIsFound
<1> QED  BY <1>1, <1>2

\* The policy begins with nothing selected.
LEMMA SelectionStart ==
  ASSUME TypeOK, SelectionInvariant, StartScheduling
  PROVE  SelectionInvariant'
<1>1. CASE Policy = "roundrobin"
  BY <1>1 DEF StartScheduling, SelectionInvariant, SelectedIsFound
<1>2. CASE Policy # "roundrobin"
  <2>1. pc' = "selecting" /\ toRun' = <<>>
    BY <1>2 DEF StartScheduling, SelectionInvariant
  <2> DEFINE at == [i \in DOMAIN <<>> |-> 1]
  <2>2. DOMAIN toRun' = {}
    BY <2>1
  <2>3. at \in [DOMAIN toRun' -> DOMAIN readyQueue'] /\ IsInjective(at)
    BY <2>1, <2>2 DEF IsInjective
  <2> HIDE DEF at
  <2> QED  BY <2>1, <2>2, <2>3 DEF SelectionInvariant, SelectedIsFound
<1> QED  BY <1>1, <1>2

\* The plugin that is selected gets the entry the iterator is at.
LEMMA SelectionNext ==
  ASSUME TypeOK, SelectionInvariant, SelectNext
  PROVE  SelectionInvariant'
<1> DEFINE m == readyIndex + 1
           r == readyQueue[m]
<1>1. /\ pc = "selecting" /\ pc' = pc /\ readyIndex' = m /\ UNCHANGED readyQueue
      /\ readyIndex \in Nat /\ readyQueue \in Seq(Runtime) /\ toRun \in Seq(Runtime)
  BY DEF SelectNext, TypeOK
<1>2. /\ m \in DOMAIN readyQueue /\ r \in Runtime
      /\ DOMAIN toRun = 1..Len(toRun) /\ Len(toRun) \in Nat
      /\ DOMAIN readyQueue = 1..Len(readyQueue) /\ Len(readyQueue) \in Nat
  <2>1. m \in 1..Len(readyQueue)
    BY <1>1, LenProperties DEF SelectNext
  <2> QED  BY <1>1, <2>1, LenProperties, ElementOfSeq
<1>3. CASE Policy = "roundrobin"
  BY <1>1, <1>3 DEF SelectionInvariant, SelectedIsFound
<1>4. CASE Policy # "roundrobin"
  <2>1. PICK at \in [DOMAIN toRun -> DOMAIN readyQueue] :
          /\ IsInjective(at)
          /\ \A i \in DOMAIN toRun :
               readyQueue[at[i]].name = toRun[i].name /\ at[i] <= readyIndex
    BY <1>1, <1>4 DEF SelectionInvariant
  <2>2. CASE toRun' = toRun
    <3>1. \A i \in DOMAIN toRun : at[i] <= m
      BY <1>1, <1>2, <2>1
    <3> QED  BY <1>1, <2>1, <2>2, <3>1, <1>4 DEF SelectionInvariant, SelectedIsFound
  <2>3. CASE toRun' = Append(toRun, r)
    <3> DEFINE to == [i \in 1..(Len(toRun) + 1) |-> IF i = Len(toRun) + 1 THEN m ELSE at[i]]
    <3>1. /\ DOMAIN toRun' = 1..(Len(toRun) + 1)
          /\ \A i \in 1..Len(toRun) : toRun'[i] = toRun[i]
          /\ toRun'[Len(toRun) + 1] = r
      BY <1>1, <1>2, <2>3, AppendProperties, LenProperties
    <3>2. \A i \in 1..(Len(toRun) + 1) :
            \/ i = Len(toRun) + 1 /\ to[i] = m
            \/ i \in DOMAIN toRun /\ to[i] = at[i]
      BY <1>2
    <3>3. to \in [DOMAIN toRun' -> DOMAIN readyQueue']
      BY <1>1, <1>2, <2>1, <3>1
    <3> HIDE DEF to
    <3>4. \A i \in DOMAIN toRun : at[i] <= readyIndex /\ at[i] # m /\ at[i] <= m
      BY <1>1, <1>2, <2>1
    <3>5. IsInjective(to)
      BY <2>1, <3>1, <3>2, <3>3, <3>4 DEF IsInjective
    <3>6. \A i \in DOMAIN toRun' : /\ readyQueue'[to[i]].name = toRun'[i].name
                                   /\ to[i] <= readyIndex'
      BY <1>1, <1>2, <2>1, <3>1, <3>2, <3>4
    <3> QED  BY <1>1, <1>4, <3>3, <3>5, <3>6 DEF SelectionInvariant, SelectedIsFound
  <2> QED  BY <1>1, <2>2, <2>3 DEF SelectNext, policyVars
<1> QED  BY <1>3, <1>4

\* A launch takes the oldest entry of the name.  If that is the one of another
\* selected plugin, which then has the same name, that plugin gets the entry of the
\* launched one.
LEMMA SelectionLaunch ==
  ASSUME TypeOK, SelectionInvariant, LaunchNext
  PROVE  SelectionInvariant'
<1> DEFINE n == Head(toRun).name
           a == FirstNamed(readyQueue, n)
<1>1. /\ pc = "launching" /\ toRun # <<>> /\ toRun' = Tail(toRun)
      /\ readyQueue \in Seq(Runtime) /\ toRun \in Seq(Runtime)
  BY DEF LaunchNext, TypeOK
<1>2. CASE Policy = "roundrobin"
  BY <1>1, <1>2 DEF SelectionInvariant, SelectedIsFound, LaunchNext
<1>3. CASE Policy # "roundrobin"
  <2>1. PICK at \in [DOMAIN toRun -> DOMAIN readyQueue] :
          /\ IsInjective(at)
          /\ \A i \in DOMAIN toRun : readyQueue[at[i]].name = toRun[i].name
    BY <1>1, <1>3 DEF SelectionInvariant
  <2>2. /\ Len(toRun) \in Nat /\ Len(toRun) >= 1 /\ DOMAIN toRun = 1..Len(toRun)
        /\ Head(toRun) = toRun[1]
        /\ DOMAIN Tail(toRun) = 1..(Len(toRun) - 1)
        /\ \A i \in 1..(Len(toRun) - 1) : Tail(toRun)[i] = toRun[i + 1]
    <3>1. Len(toRun) \in Nat /\ Len(toRun) >= 1 /\ DOMAIN toRun = 1..Len(toRun)
      BY <1>1, LenProperties, EmptySeq
    <3>2. Head(toRun) = toRun[1] /\ Tail(toRun) \in Seq(Runtime)
          /\ Len(Tail(toRun)) = Len(toRun) - 1
          /\ \A i \in 1..Len(Tail(toRun)) : Tail(toRun)[i] = toRun[i + 1]
      BY <1>1, HeadTailProperties
    <3>3. DOMAIN Tail(toRun) = 1..Len(Tail(toRun))
      BY <3>2, LenProperties
    <3> QED  BY <3>1, <3>2, <3>3
  <2>3. 1 \in DOMAIN toRun /\ at[1] \in DOMAIN readyQueue /\ readyQueue[at[1]].name = n
    BY <2>1, <2>2
  <2>4. HasName(readyQueue, n)
    BY <2>3 DEF HasName
  <2>5. /\ a \in 1..Len(readyQueue) /\ readyQueue[a].name = n
        /\ DOMAIN readyQueue = 1..Len(readyQueue) /\ Len(readyQueue) \in Nat
    BY <1>1, <2>4, FirstNamedProperties, LenProperties
  <2>6. pc' = pc /\ readyQueue' = AfterPop(readyQueue, n)
    BY <2>4 DEF LaunchNext
  <2>7. /\ DOMAIN readyQueue' = 1..(Len(readyQueue) - 1)
        /\ \A j \in 1..(Len(readyQueue) - 1) :
             readyQueue'[j] = IF j < a THEN readyQueue[j] ELSE readyQueue[j + 1]
    <3>1. /\ AfterPop(readyQueue, n) \in Seq(Runtime)
          /\ Len(AfterPop(readyQueue, n)) = Len(readyQueue) - 1
          /\ \A j \in 1..(Len(readyQueue) - 1) :
               AfterPop(readyQueue, n)[j] = IF j < a THEN readyQueue[j] ELSE readyQueue[j + 1]
      BY <1>1, <2>4, PopPositions
    <3>2. DOMAIN AfterPop(readyQueue, n) = 1..(Len(readyQueue) - 1)
      BY <3>1, LenProperties
    <3> QED  BY <2>6, <3>1, <3>2
  <2> DEFINE use == [i \in 1..(Len(toRun) - 1) |-> IF at[i + 1] = a THEN at[1] ELSE at[i + 1]]
             to  == [i \in 1..(Len(toRun) - 1) |-> IF use[i] < a THEN use[i] ELSE use[i] - 1]
  <2> HIDE DEF n, a
  <2>8. \A i \in 1..(Len(toRun) - 1) : i + 1 \in DOMAIN toRun /\ i + 1 # 1 /\ i \in Nat
    BY <2>2
  <2>9. \A i \in 1..(Len(toRun) - 1) :
          /\ use[i] \in 1..Len(readyQueue) /\ use[i] # a
          /\ readyQueue[use[i]].name = toRun[i + 1].name
    BY <2>1, <2>3, <2>5, <2>8 DEF IsInjective
  <2>10. \A i, j \in 1..(Len(toRun) - 1) : use[i] = use[j] => i = j
    <3>1. \A i, j \in 1..(Len(toRun) - 1) : i + 1 = j + 1 => i = j
      BY <2>8
    <3>2. \A i, j \in DOMAIN toRun : at[i] = at[j] => i = j
      BY <2>1 DEF IsInjective
    <3> QED  BY <2>3, <2>8, <3>1, <3>2
  <2> HIDE DEF use
  <2>11. \A i \in 1..(Len(toRun) - 1) :
           /\ to[i] \in 1..(Len(readyQueue) - 1)
           /\ readyQueue'[to[i]] = readyQueue[use[i]]
    BY <2>5, <2>7, <2>9
  <2>12. \A i, j \in 1..(Len(toRun) - 1) : to[i] = to[j] => use[i] = use[j]
    BY <2>5, <2>9
  <2>13. to \in [DOMAIN toRun' -> DOMAIN readyQueue'] /\ IsInjective(to)
    <3>1. DOMAIN to = 1..(Len(toRun) - 1)
      OBVIOUS
    <3>2. to \in [DOMAIN toRun' -> DOMAIN readyQueue']
      BY <1>1, <2>2, <2>7, <2>11
    <3> QED  BY <2>10, <2>12, <3>1, <3>2 DEF IsInjective
  <2> HIDE DEF to
  <2>14. \A i \in DOMAIN toRun' : readyQueue'[to[i]].name = toRun'[i].name
    BY <1>1, <2>2, <2>9, <2>11
  <2> QED
    BY <1>1, <1>3, <2>6, <2>13, <2>14 DEF SelectionInvariant, SelectedIsFound
<1> QED  BY <1>2, <1>3

\* A request of the REST API pushes at the end of the queue and moves the iterator.
LEMMA SelectionPush ==
  ASSUME TypeOK, SelectionInvariant, NEW x \in APINames, APISchedule(x)
  PROVE  SelectionInvariant'
<1> DEFINE e == [name |-> x, goal |-> NoGoal, gen |-> generation[NoGoal] + 1]
<1>1. /\ readyQueue \in Seq(Runtime) /\ readyQueue' = Append(readyQueue, e)
      /\ UNCHANGED <<pc, toRun>> /\ readyIndex \in Nat
      /\ readyIndex' = IF pc = "selecting" THEN readyIndex + 1 ELSE readyIndex
  BY DEF APISchedule, policyVars, Push, TypeOK
<1>2. /\ DOMAIN readyQueue \subseteq DOMAIN readyQueue'
      /\ \A i \in DOMAIN readyQueue : readyQueue'[i] = readyQueue[i] /\ i \in Nat
  <2>1. readyQueue \in Seq(Runtime \cup {e}) /\ e \in Runtime \cup {e}
    BY <1>1
  <2> HIDE DEF e
  <2> QED  BY <1>1, <2>1, AppendProperties, LenProperties
<1> HIDE DEF e
<1>3. CASE Policy # "roundrobin" /\ pc \in {"selecting", "launching"}
  <2>1. PICK at \in [DOMAIN toRun -> DOMAIN readyQueue] :
          /\ IsInjective(at)
          /\ \A i \in DOMAIN toRun : /\ readyQueue[at[i]].name = toRun[i].name
                                     /\ pc = "selecting" => at[i] <= readyIndex
    BY <1>3 DEF SelectionInvariant
  <2>2. at \in [DOMAIN toRun' -> DOMAIN readyQueue']
    BY <1>1, <1>2, <2>1
  <2>3. \A i \in DOMAIN toRun' : /\ readyQueue'[at[i]].name = toRun'[i].name
                                 /\ pc' = "selecting" => at[i] <= readyIndex'
    BY <1>1, <1>2, <2>1
  <2> QED  BY <1>1, <1>3, <2>1, <2>2, <2>3 DEF SelectionInvariant, SelectedIsFound
<1>4. CASE ~ (Policy # "roundrobin" /\ pc \in {"selecting", "launching"})
  BY <1>1, <1>4 DEF SelectionInvariant, SelectedIsFound
<1> QED  BY <1>3, <1>4

LEMMA SelectionInit == Init => SelectionInvariant
BY DEF Init, SelectionInvariant, SelectedIsFound

LEMMA SelectionStep ==
  ASSUME TypeOK, SelectionInvariant, [Next]_vars
  PROVE  SelectionInvariant'
<1> USE DEF queueVars, policyVars
<1>0. pc \notin {"selecting", "launching", "crashed"} => toRun = <<>>
  BY DEF SelectionInvariant
<1>1. ASSUME NEW G \in GoalLists, CloudSendsGoals(G) PROVE SelectionInvariant'
  BY <1>1, SelectionFrame DEF CloudSendsGoals
<1>2. CASE ReceiveFromCloud
  BY <1>2, SelectionFrame DEF ReceiveFromCloud
<1>3. CASE ReceiveConfigMap
  BY <1>0, <1>3, SelectionFrame DEF ReceiveConfigMap
<1>4. CASE HandleGoals
  <2>1. ASSUME NEW g \in Goal, BulkGoal(g) PROVE SelectionInvariant'
    <3>1. pc = "bulk" /\ pc' \in {"bulk", "cleaning"} /\ toRun' = toRun
      BY <2>1 DEF BulkGoal
    <3> QED  BY <1>0, <3>1, SelectionFrame
  <2>2. CASE BulkRemove
    <3>1. pc = "bulk" /\ pc' \in {"select", "cleaning"} /\ toRun' = toRun
      BY <2>2 DEF BulkRemove
    <3> QED  BY <1>0, <3>1, SelectionFrame
  <2>3. ASSUME NEW n \in Name, CleanPlugin(n) PROVE SelectionInvariant'
    <3>1. pc = "cleaning" /\ UNCHANGED <<pc, toRun>>
      BY <2>3 DEF CleanPlugin
    <3> QED  BY <1>0, <3>1, SelectionFrame
  <2>4. CASE CleanDone
    BY <1>0, <2>4, SelectionFrame DEF CleanDone
  <2> QED  BY <1>4, <2>1, <2>2, <2>3, <2>4 DEF HandleGoals
<1>5. CASE EvaluateRules
  <2>1. ASSUME NEW r \in Runtime, QueuePlugin(r) PROVE SelectionInvariant'
    <3>1. pc \in {"select", "rules"} /\ pc' = "rules" /\ toRun' = toRun
      BY <2>1 DEF QueuePlugin
    <3> QED  BY <1>0, <3>1, SelectionFrame
  <2>2. CASE RulesEvaluated
    BY <1>0, <2>2, SelectionFrame DEF RulesEvaluated
  <2>3. CASE IdleTick
    BY <2>3, SelectionFrame DEF IdleTick, vars
  <2> QED  BY <1>5, <2>1, <2>2, <2>3 DEF EvaluateRules
<1>6. CASE TriggerScheduling
  BY <1>0, <1>6, SelectionFrame DEF TriggerScheduling
<1>7. CASE Schedule
  <2>1. CASE SelectDone
    BY <2>1 DEF SelectDone, SelectionInvariant, SelectedIsFound
  <2>2. CASE LaunchDone
    BY <2>2, SelectionFrame DEF LaunchDone
  <2> QED
    BY <1>7, <2>1, <2>2, SelectionStart, SelectionNext, SelectionLaunch DEF Schedule
<1>8. CASE Launch
  <2>1. ASSUME NEW r \in Runtime, CreatePod(r) PROVE SelectionInvariant'
    BY <2>1, SelectionFrame DEF CreatePod
  <2>2. ASSUME NEW r \in Runtime, AbortPod(r) PROVE SelectionInvariant'
    BY <2>2, SelectionFrame DEF AbortPod
  <2> QED  BY <1>8, <2>1, <2>2 DEF Launch
<1>9. CASE HandlePodEvent
  <2>1. CASE IgnorePodEvent
    BY <2>1, SelectionFrame DEF IgnorePodEvent
  <2>2. ASSUME NEW r \in loaded, PodAdded(r) PROVE SelectionInvariant'
    BY <2>2, SelectionFrame DEF PodAdded
  <2>3. ASSUME NEW r \in loaded, PodModified(r) PROVE SelectionInvariant'
    BY <2>3, SelectionFrame DEF PodModified
  <2>4. ASSUME NEW r \in loaded, PodDeleted(r) PROVE SelectionInvariant'
    <3>1. pc = "select" /\ pc' \in {"select", "sending"} /\ toRun' = toRun
      BY <2>4 DEF PodDeleted, ReceivePodEvent
    <3> QED  BY <1>0, <3>1, SelectionFrame
  <2> QED  BY <1>9, <2>1, <2>2, <2>3, <2>4 DEF HandlePodEvent
<1>10. CASE ReceiveKubeEvent
  BY <1>10, SelectionFrame DEF ReceiveKubeEvent
<1>11. CASE API
  <2>1. CASE APITrigger
    BY <2>1, SelectionFrame DEF APITrigger
  <2>2. ASSUME NEW g \in APIGoals, APIAddGoal(g) PROVE SelectionInvariant'
    BY <2>2, SelectionFrame DEF APIAddGoal
  <2> QED  BY <1>11, <2>1, <2>2, SelectionPush DEF API
<1>12. CASE Restart
  BY <1>12, SelectionFrame DEF Restart
<1>13. CASE Cluster
  BY <1>13, SelectionFrame DEF Cluster
<1>14. CASE UNCHANGED vars
  BY <1>14, SelectionFrame DEF vars
<1> QED
  BY <1>1, <1>2, <1>3, <1>4, <1>5, <1>6, <1>7, <1>8, <1>9, <1>10, <1>11, <1>12, <1>13,
     <1>14 DEF Next

\* Every selected plugin keeps an entry of its name for itself until it is launched,
\* with requests of the REST API, shared plugin names and posted goals as well.
THEOREM SelectionInvariantHolds == Spec => []SelectionInvariant
<1>1. TypeOK /\ SelectionInvariant /\ [Next]_vars => SelectionInvariant'
  BY SelectionStep
<1> QED  BY <1>1, SelectionInit, TypeCorrect, PTL DEF Spec

\* What is selected is still queued when it is launched: Pop never returns nil,
\* unless the policy has popped its choice itself (policy/roundrobin.go:21).
THEOREM SelectedIsFoundHolds == Spec => []SelectedIsFound
<1>1. SelectionInvariant => SelectedIsFound
  BY DEF SelectionInvariant
<1> QED  BY <1>1, SelectionInvariantHolds, PTL

-----------------------------------------------------------------------------
(* The refinement of PluginScheduling                                      *)

SchedulingStep == [Scheduling!Next]_(Scheduling!schedulingVars)

\* A step that leaves both queues alone.
LEMMA SchedulingStutter ==
  ASSUME UNCHANGED <<readyQueue, scheduledPlugins>>
  PROVE  SchedulingStep
<1>1. ToSet(scheduledPlugins)' = ToSet(scheduledPlugins)
  OBVIOUS
<1> QED  BY <1>1 DEF SchedulingStep, Scheduling!schedulingVars

\* An entry is cut out of the ready queue.
LEMMA CutWithdraws ==
  ASSUME NEW i \in DOMAIN readyQueue, readyQueue' = RemoveAt(readyQueue, i),
         UNCHANGED scheduledPlugins
  PROVE  SchedulingStep
<1>1. ToSet(scheduledPlugins)' = ToSet(scheduledPlugins)
  OBVIOUS
<1>2. Scheduling!Withdraw(i)
  BY <1>1 DEF Scheduling!Withdraw, Scheduling!Without, RemoveAt
<1> QED  BY <1>2 DEF SchedulingStep, Scheduling!Next

\* Pop on the ready queue withdraws an entry, or does nothing.
LEMMA PopWithdraws ==
  ASSUME OrderContext, NEW n, readyQueue' = AfterPop(readyQueue, n),
         UNCHANGED scheduledPlugins
  PROVE  SchedulingStep
<1>1. CASE HasName(readyQueue, n)
  <2>1. readyQueue \in Seq(Runtime)
    BY DEF OrderContext, GPUContext, QueueContext, TypeOK
  <2>2. FirstNamed(readyQueue, n) \in DOMAIN readyQueue
        /\ readyQueue' = RemoveAt(readyQueue, FirstNamed(readyQueue, n))
    BY <1>1, <2>1, PopPositions, LenProperties
  <2> QED  BY <2>2, CutWithdraws
<1>2. CASE ~ HasName(readyQueue, n)
  BY <1>2, SchedulingStutter DEF AfterPop
<1> QED  BY <1>1, <1>2

\* Pop on the scheduled plugins releases one, or does nothing.
LEMMA PopReleases ==
  ASSUME OrderContext, NEW n, scheduledPlugins' = AfterPop(scheduledPlugins, n),
         UNCHANGED readyQueue
  PROVE  SchedulingStep
<1>1. CASE HasName(scheduledPlugins, n)
  <2> DEFINE p == Popped(scheduledPlugins, n)
  <2>1. scheduledPlugins \in Seq(Runtime) /\ IsInjective(scheduledPlugins)
    BY DEF OrderContext, GPUContext, QueueContext, TypeOK, QueueInvariant, NoDuplicates
  <2>2. /\ p \in ToSet(scheduledPlugins)
        /\ ToSet(scheduledPlugins') = ToSet(scheduledPlugins) \ {p}
    BY <1>1, <2>1, AfterPopProperties
  <2>3. p \in Runtime
    BY <2>1, <2>2 DEF ToSet
  <2> HIDE DEF p
  <2>4. ToSet(scheduledPlugins)' = ToSet(scheduledPlugins')
    OBVIOUS
  <2>5. Scheduling!Release(p)
    BY <2>2, <2>4 DEF Scheduling!Release
  <2> QED  BY <2>3, <2>5 DEF SchedulingStep, Scheduling!Next
<1>2. CASE ~ HasName(scheduledPlugins, n)
  BY <1>2, SchedulingStutter DEF AfterPop
<1> QED  BY <1>1, <1>2

\* A rule triggers an inactive plugin, which therefore is in no queue.
LEMMA QueuePluginEnqueues ==
  ASSUME OrderContext, NEW r \in Runtime, QueuePlugin(r)
  PROVE  SchedulingStep
<1>1. status[r] = Inactive /\ readyQueue' = Append(readyQueue, r)
      /\ UNCHANGED scheduledPlugins
  BY DEF QueuePlugin, Push
<1>2. ~ InReady(r) /\ ~ InScheduled(r)
  <2>1. Queued # Inactive
    BY DEF Queued, Inactive
  <2> QED
    BY <1>1, <2>1, GoalsOnly
    DEF OrderContext, GPUContext, QueueContext, QueueInvariant, QueuesMatchStatus
<1>3. ToSet(scheduledPlugins)' = ToSet(scheduledPlugins)
  BY <1>1
<1>4. \A i \in DOMAIN readyQueue : readyQueue[i] # r
  BY <1>2 DEF InReady, ToSet
<1>5. Scheduling!Enqueue(r)
  BY <1>1, <1>2, <1>3, <1>4 DEF Scheduling!Enqueue, InScheduled
<1> QED  BY <1>5 DEF SchedulingStep, Scheduling!Next

\* The round-robin policy takes the oldest plugin out of the queue; its caller will
\* not find it there.
LEMMA StartSchedulingWithdraws ==
  ASSUME OrderContext, StartScheduling
  PROVE  SchedulingStep
<1>1. UNCHANGED scheduledPlugins
  BY DEF StartScheduling
<1>2. CASE UNCHANGED readyQueue
  BY <1>1, <1>2, SchedulingStutter
<1>3. CASE readyQueue # <<>> /\ readyQueue' = Tail(readyQueue)
  <2>1. readyQueue \in Seq(Runtime)
    BY DEF OrderContext, GPUContext, QueueContext, TypeOK
  <2>2. /\ Len(readyQueue) \in Nat /\ Len(readyQueue) >= 1
        /\ DOMAIN readyQueue = 1..Len(readyQueue)
    BY <1>3, <2>1, LenProperties, EmptySeq
  <2>3. /\ Tail(readyQueue) \in Seq(Runtime) /\ Len(Tail(readyQueue)) = Len(readyQueue) - 1
        /\ \A i \in 1..(Len(readyQueue) - 1) : Tail(readyQueue)[i] = readyQueue[i + 1]
    BY <1>3, <2>1, HeadTailProperties
  <2>4. /\ RemoveAt(readyQueue, 1) \in Seq(Runtime)
        /\ Len(RemoveAt(readyQueue, 1)) = Len(readyQueue) - 1
        /\ \A i \in 1..(Len(readyQueue) - 1) :
             RemoveAt(readyQueue, 1)[i] = IF i < 1 THEN readyQueue[i] ELSE readyQueue[i + 1]
    <3>1. 1 \in 1..Len(readyQueue)
      BY <2>2
    <3> QED  BY <2>1, <3>1, RemoveAtProperties
  <2>5. \A i \in 1..(Len(readyQueue) - 1) : RemoveAt(readyQueue, 1)[i] = Tail(readyQueue)[i]
    BY <2>2, <2>3, <2>4
  <2>6. Tail(readyQueue) = RemoveAt(readyQueue, 1)
    BY <2>3, <2>4, <2>5, SeqEqual
  <2>7. 1 \in DOMAIN readyQueue
    BY <2>2
  <2> QED  BY <1>1, <1>3, <2>6, <2>7, CutWithdraws
<1> QED  BY <1>2, <1>3 DEF StartScheduling

\* A launch starts the oldest plugin that does not wait for the GPU.
LEMMA LaunchStarts ==
  ASSUME OrderContext, LaunchNext
  PROVE  SchedulingStep
<1> DEFINE n == Head(toRun).name
           a == FirstNamed(readyQueue, n)
           GPU == {r \in Runtime : Policy = "gpuaware" /\ RequiresGPU(r)}
<1>1. CASE ~ HasName(readyQueue, n)
  BY <1>1, SchedulingStutter DEF LaunchNext
<1>2. CASE HasName(readyQueue, n)
  <2>1. Policy # "roundrobin"
    <3>1. toRun \in Seq(Runtime) /\ toRun # <<>> /\ pc = "launching"
      BY DEF LaunchNext, OrderContext, GPUContext, QueueContext, TypeOK
    <3>2. 1 \in DOMAIN toRun /\ Head(toRun) = toRun[1]
      BY <3>1, LenProperties, EmptySeq, HeadTailProperties
    <3> QED  BY <1>2, <3>1, <3>2 DEF OrderContext, OrderInvariant
  <2>2. /\ a \in DOMAIN readyQueue /\ readyQueue[a] = toRun[1] /\ 1 \in DOMAIN toRun
        /\ Popped(readyQueue, n) = readyQueue[a]
        /\ \A k \in 1..(a - 1) : /\ Policy = "gpuaware" /\ RequiresGPU(readyQueue[k])
                                 /\ UsesGPU(scheduledPlugins)
    BY <2>1, LaunchPosition
  <2>3. /\ readyQueue \in Seq(Runtime) /\ scheduledPlugins \in Seq(Runtime)
        /\ DOMAIN readyQueue = 1..Len(readyQueue) /\ Len(readyQueue) \in Nat
    BY LenProperties DEF OrderContext, GPUContext, QueueContext, TypeOK
  <2>4. /\ readyQueue' = RemoveAt(readyQueue, a)
        /\ scheduledPlugins' = Push(scheduledPlugins, readyQueue[a])
    BY <1>2, <2>2, <2>3, PopPositions DEF LaunchNext
  <2> HIDE DEF a, n
  <2>5. /\ ToSet(scheduledPlugins)' = ToSet(scheduledPlugins) \cup {readyQueue[a]}
        /\ readyQueue[a] \in Runtime
    <3>1. readyQueue[a] \in Runtime
      BY <2>2, <2>3, ElementOfSeq
    <3>2. ToSet(Push(scheduledPlugins, readyQueue[a]))
            = ToSet(scheduledPlugins) \cup {readyQueue[a]}
      <4>1. \A r \in Runtime :
              ToSet(Push(scheduledPlugins, r)) = ToSet(scheduledPlugins) \cup {r}
        BY <2>3, PushProperties
      <4> QED  BY <3>1, <4>1
    <3>3. ToSet(scheduledPlugins)' = ToSet(Push(scheduledPlugins, readyQueue[a]))
      BY <2>4
    <3> QED  BY <3>1, <3>2, <3>3
  <2>6. UsesGPU(scheduledPlugins) <=> \E r \in ToSet(scheduledPlugins) : RequiresGPU(r)
    BY DEF UsesGPU, ToSet
  <2>7. \A r \in ToSet(scheduledPlugins) : r \in Runtime
    BY <2>3 DEF ToSet
  <2>8. ASSUME readyQueue[a] \in GPU, ToSet(scheduledPlugins) \cap GPU # {}
        PROVE  FALSE
    <3>1. UsesGPU(scheduledPlugins)
      BY <2>6, <2>8
    <3>2. UsesGPU(toRun)
      BY <2>2, <2>8 DEF UsesGPU
    <3> QED  BY <2>8, <3>1, <3>2 DEF OrderContext, GPUContext, GPUInvariant
  <2>9. ASSUME NEW k \in 1..(a - 1)
        PROVE  readyQueue[k] \in GPU /\ ToSet(scheduledPlugins) \cap GPU # {}
    <3>1. k \in DOMAIN readyQueue
      BY <2>2, <2>3
    <3>2. readyQueue[k] \in Runtime
      BY <2>3, <3>1, ElementOfSeq
    <3>3. Policy = "gpuaware" /\ RequiresGPU(readyQueue[k]) /\ UsesGPU(scheduledPlugins)
      BY <2>2
    <3> QED  BY <2>6, <2>7, <3>2, <3>3
  <2>10. Scheduling!Start(a)
    BY <2>4, <2>5, <2>8, <2>9
    DEF Scheduling!Start, Scheduling!Blocked, Scheduling!Without, RemoveAt
  <2> QED  BY <2>2, <2>10 DEF SchedulingStep, Scheduling!Next
<1> QED  BY <1>1, <1>2

\* Clean-up of a plugin takes it out of the one queue it is in.
LEMMA CleanPluginWithdrawsOrReleases ==
  ASSUME OrderContext, NEW n \in Name, CleanPlugin(n)
  PROVE  SchedulingStep
<1>1. CASE UNCHANGED <<readyQueue, scheduledPlugins>>
  BY <1>1, SchedulingStutter
<1>2. CASE /\ readyQueue' = AfterPop(readyQueue, n)
           /\ scheduledPlugins' = AfterPop(scheduledPlugins, n)
  <2>1. ~ (HasName(readyQueue, n) /\ HasName(scheduledPlugins, n))
    <3> SUFFICES ASSUME HasName(readyQueue, n), HasName(scheduledPlugins, n)
                 PROVE  FALSE
      OBVIOUS
    <3>1. readyQueue \in Seq(Runtime) /\ scheduledPlugins \in Seq(Runtime)
      BY DEF OrderContext, GPUContext, QueueContext, TypeOK
    <3>2. PICK r \in ToSet(readyQueue) : r.name = n
      BY DEF HasName, ToSet
    <3>3. PICK s \in ToSet(scheduledPlugins) : s.name = n
      BY DEF HasName, ToSet
    <3>4. r \in Runtime /\ s \in Runtime /\ InReady(r) /\ InScheduled(s)
      BY <3>1 DEF ToSet, InReady, InScheduled
    <3>5. r = s
      BY <3>2, <3>3, <3>4, QueuedOnce
    <3> QED
      BY <3>2, <3>3, <3>5
      DEF OrderContext, GPUContext, QueueContext, QueueInvariant, NoDuplicates
  <2>2. CASE ~ HasName(scheduledPlugins, n)
    BY <1>2, <2>2, PopWithdraws DEF AfterPop
  <2>3. CASE ~ HasName(readyQueue, n)
    BY <1>2, <2>3, PopReleases DEF AfterPop
  <2> QED  BY <2>1, <2>2, <2>3
<1> QED  BY <1>1, <1>2 DEF CleanPlugin

\* A restarted process knows of no plugin.
LEMMA RestartResets ==
  ASSUME Restart
  PROVE  SchedulingStep
<1>1. readyQueue' = <<>> /\ scheduledPlugins' = <<>>
  BY DEF Restart
<1>2. ToSet(scheduledPlugins)' = {}
  BY <1>1, EmptyQueue
<1>3. Scheduling!Reset
  BY <1>1, <1>2 DEF Scheduling!Reset
<1> QED  BY <1>3 DEF SchedulingStep, Scheduling!Next

\* Every step of the node and of its cluster is a step of PluginScheduling or
\* leaves both queues alone.
LEMMA SchedulingNext == OrderContext /\ [Next]_vars => SchedulingStep
<1> SUFFICES ASSUME OrderContext, [Next]_vars PROVE SchedulingStep
  OBVIOUS
<1> USE DEF queueVars
<1>1. ASSUME NEW G \in GoalLists, CloudSendsGoals(G) PROVE SchedulingStep
  BY <1>1, SchedulingStutter DEF CloudSendsGoals
<1>2. CASE ReceiveFromCloud
  BY <1>2, SchedulingStutter DEF ReceiveFromCloud
<1>3. CASE ReceiveConfigMap
  BY <1>3, SchedulingStutter DEF ReceiveConfigMap
<1>4. CASE HandleGoals
  <2>1. ASSUME NEW g \in Goal, BulkGoal(g) PROVE SchedulingStep
    BY <2>1, SchedulingStutter DEF BulkGoal
  <2>2. CASE BulkRemove
    BY <2>2, SchedulingStutter DEF BulkRemove
  <2>3. CASE CleanDone
    BY <2>3, SchedulingStutter DEF CleanDone
  <2> QED  BY <1>4, <2>1, <2>2, <2>3, CleanPluginWithdrawsOrReleases DEF HandleGoals
<1>5. CASE EvaluateRules
  <2>1. CASE RulesEvaluated
    BY <2>1, SchedulingStutter DEF RulesEvaluated
  <2>2. CASE IdleTick
    BY <2>2, SchedulingStutter DEF IdleTick, vars
  <2> QED  BY <1>5, <2>1, <2>2, QueuePluginEnqueues DEF EvaluateRules
<1>6. CASE TriggerScheduling
  BY <1>6, SchedulingStutter DEF TriggerScheduling
<1>7. CASE Schedule
  <2>1. CASE SelectNext
    BY <2>1, SchedulingStutter DEF SelectNext
  <2>2. CASE SelectDone
    BY <2>2, SchedulingStutter DEF SelectDone
  <2>3. CASE LaunchDone
    BY <2>3, SchedulingStutter DEF LaunchDone
  <2> QED
    BY <1>7, <2>1, <2>2, <2>3, StartSchedulingWithdraws, LaunchStarts DEF Schedule
<1>8. CASE Launch
  <2>1. ASSUME NEW r \in Runtime, CreatePod(r) PROVE SchedulingStep
    BY <2>1, SchedulingStutter DEF CreatePod
  <2>2. ASSUME NEW r \in Runtime, AbortPod(r) PROVE SchedulingStep
    BY <2>2, SchedulingStutter DEF AbortPod
  <2> QED  BY <1>8, <2>1, <2>2 DEF Launch
<1>9. CASE HandlePodEvent
  <2>1. CASE IgnorePodEvent
    BY <2>1, SchedulingStutter DEF IgnorePodEvent
  <2>2. ASSUME NEW r \in loaded, PodAdded(r) PROVE SchedulingStep
    BY <2>2, SchedulingStutter DEF PodAdded
  <2>3. ASSUME NEW r \in loaded, PodModified(r) PROVE SchedulingStep
    BY <2>3, SchedulingStutter DEF PodModified
  <2>4. ASSUME NEW r \in loaded, PodDeleted(r) PROVE SchedulingStep
    <3>1. scheduledPlugins' = AfterPop(scheduledPlugins, r.name) /\ UNCHANGED readyQueue
      BY <2>4 DEF PodDeleted
    <3> QED  BY <3>1, PopReleases
  <2> QED  BY <1>9, <2>1, <2>2, <2>3, <2>4 DEF HandlePodEvent
<1>10. CASE ReceiveKubeEvent
  BY <1>10, SchedulingStutter DEF ReceiveKubeEvent
<1>11. CASE API
  <2>1. CASE APITrigger
    BY <2>1, SchedulingStutter DEF APITrigger
  <2>2. ~ \E g \in APIGoals : APIAddGoal(g)
    BY DEF OrderContext, GPUContext, QueueContext, NoPostedGoals
  <2>3. ~ \E n \in APINames : APISchedule(n)
    BY DEF OrderContext
  <2> QED  BY <1>11, <2>1, <2>2, <2>3 DEF API
<1>12. CASE Restart
  BY <1>12, RestartResets
<1>13. CASE Cluster
  BY <1>13, SchedulingStutter DEF Cluster
<1>14. CASE UNCHANGED vars
  BY <1>14, SchedulingStutter DEF vars
<1> QED
  BY <1>1, <1>2, <1>3, <1>4, <1>5, <1>6, <1>7, <1>8, <1>9, <1>10, <1>11, <1>12, <1>13,
     <1>14 DEF Next

\* The scheduler implements PluginScheduling: although the policy's choice, the
\* launches by name, pod events, clean-up and restarts are separate steps of
\* several goroutines, plugins start oldest first, but for those that wait for
\* the GPU, and the GPU has one active user at most.
THEOREM LifecycleHolds ==
  ASSUME UniqueNames, NoPostedGoals, APINames = {}
  PROVE  Spec => LifecycleImplemented
<1>1. Init => Scheduling!Init
  BY EmptyQueue DEF Init, Scheduling!Init
<1>2. TypeOK /\ TypeOK' /\ QueueInvariant /\ GPUInvariant /\ OrderInvariant /\ [Next]_vars
        => [Scheduling!Next]_(Scheduling!schedulingVars)
  BY SchedulingNext DEF OrderContext, GPUContext, QueueContext, SchedulingStep
<1> QED
  BY <1>1, <1>2, TypeCorrect, QueueInvariantHolds, GPUInvariantHolds, OrderInvariantHolds,
     PTL DEF Spec, LifecycleImplemented, Scheduling!Spec
=============================================================================
