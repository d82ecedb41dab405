---------------------------- MODULE NodePodProofs ----------------------------
(***************************************************************************)
(* The pods of NodeScheduler, proved for all goals, plugins, faults and    *)
(* bounds that satisfy UniqueNames, NoPostedGoals, FixedGoals and          *)
(* NoLeftovers.                                                            *)
(***************************************************************************)
EXTENDS NodePolicyProofs

-----------------------------------------------------------------------------
(* Events that a pod is gone                                               *)

OneDeletion(events, n, g) == \A i, j \in Deletions(events, n, g) : i = j

\* An event of another type.
LEMMA OtherEvent ==
  ASSUME NEW events \in Seq(PodEvent), NEW e \in PodEvent, e.type # "Deleted", NEW n, NEW g
  PROVE  Deletions(Append(events, e), n, g) = Deletions(events, n, g)
<1>1. /\ \A i \in 1..Len(events) : Append(events, e)[i] = events[i]
      /\ Append(events, e)[Len(events) + 1] = e
      /\ DOMAIN Append(events, e) = 1..(Len(events) + 1)
      /\ DOMAIN events = 1..Len(events) /\ Len(events) \in Nat
  BY AppendProperties, LenProperties
<1> DEFINE t == Append(events, e)
<1> HIDE DEF t
<1>2. \A i \in 1..(Len(events) + 1) : i \in 1..Len(events) \/ i = Len(events) + 1
  BY <1>1
<1>3. \A i \in 1..Len(events) : i \in 1..(Len(events) + 1)
  BY <1>1
<1>4. Deletions(t, n, g) = Deletions(events, n, g)
  BY <1>1, <1>2, <1>3 DEF Deletions, t
<1> QED  BY <1>4 DEF t

\* The event that a pod is gone.
LEMMA DeletionEvent ==
  ASSUME NEW events \in Seq(PodEvent), NEW e \in PodEvent, e.type = "Deleted"
  PROVE  /\ \A n, g : ~ (n = e.pod.name /\ g = e.pod.goal) =>
              Deletions(Append(events, e), n, g) = Deletions(events, n, g)
         /\ Deletions(events, e.pod.name, e.pod.goal) = {} =>
              OneDeletion(Append(events, e), e.pod.name, e.pod.goal)
<1>1. /\ \A i \in 1..Len(events) : Append(events, e)[i] = events[i]
      /\ Append(events, e)[Len(events) + 1] = e
      /\ DOMAIN Append(events, e) = 1..(Len(events) + 1)
      /\ DOMAIN events = 1..Len(events) /\ Len(events) \in Nat
  BY AppendProperties, LenProperties
<1> DEFINE t == Append(events, e)
<1>2. \A i \in 1..(Len(events) + 1) : i \in 1..Len(events) \/ i = Len(events) + 1
  BY <1>1
<1>3. \A i \in 1..Len(events) : i \in 1..(Len(events) + 1)
  BY <1>1
<1> HIDE DEF t
<1>4. ASSUME NEW n, NEW g, ~ (n = e.pod.name /\ g = e.pod.goal)
      PROVE  Deletions(t, n, g) = Deletions(events, n, g)
  BY <1>1, <1>2, <1>3, <1>4 DEF Deletions, t
<1>5. ASSUME Deletions(events, e.pod.name, e.pod.goal) = {}
      PROVE  OneDeletion(t, e.pod.name, e.pod.goal)
  <2>1. \A i \in Deletions(t, e.pod.name, e.pod.goal) : i = Len(events) + 1
    BY <1>1, <1>2, <1>5 DEF Deletions, t
  <2> QED  BY <2>1 DEF OneDeletion
<1> QED  BY <1>4, <1>5 DEF t

\* The oldest event is handled.
LEMMA HandledEvent ==
  ASSUME NEW events \in Seq(PodEvent), events # <<>>, NEW n, NEW g
  PROVE  /\ Deletions(Tail(events), n, g) # {} => Deletions(events, n, g) # {}
         /\ OneDeletion(events, n, g) =>
              /\ OneDeletion(Tail(events), n, g)
              /\ Head(events).type = "Deleted" /\ Head(events).pod.name = n
                 /\ Head(events).pod.goal = g
                   => Deletions(events, n, g) # {} /\ Deletions(Tail(events), n, g) = {}
<1>1. /\ Len(events) \in Nat /\ Len(events) >= 1 /\ DOMAIN events = 1..Len(events)
      /\ Head(events) = events[1]
  BY LenProperties, EmptySeq
<1>2. /\ Tail(events) \in Seq(PodEvent) /\ Len(Tail(events)) = Len(events) - 1
      /\ \A i \in 1..(Len(events) - 1) : Tail(events)[i] = events[i + 1]
  BY HeadTailProperties
<1>3. DOMAIN Tail(events) = 1..(Len(events) - 1)
  BY <1>2, LenProperties
<1>4. \A i \in 1..(Len(events) - 1) : i \in Nat /\ i + 1 \in 1..Len(events) /\ i + 1 # 1
  BY <1>1
<1>5. \A i \in Deletions(Tail(events), n, g) :
        i \in 1..(Len(events) - 1) /\ i \in Nat /\ i + 1 \in Deletions(events, n, g) /\ i + 1 # 1
  BY <1>1, <1>2, <1>3, <1>4 DEF Deletions
<1>6. Deletions(Tail(events), n, g) # {} => Deletions(events, n, g) # {}
  BY <1>5
<1>7. ASSUME OneDeletion(events, n, g) PROVE OneDeletion(Tail(events), n, g)
  <2> SUFFICES ASSUME NEW i \in Deletions(Tail(events), n, g),
                      NEW j \in Deletions(Tail(events), n, g)
               PROVE  i = j
    BY DEF OneDeletion
  <2>1. i + 1 = j + 1 /\ i \in Nat /\ j \in Nat
    BY <1>5, <1>7 DEF OneDeletion
  <2> QED  BY <2>1
<1>8. ASSUME OneDeletion(events, n, g), Head(events).type = "Deleted",
             Head(events).pod.name = n, Head(events).pod.goal = g
      PROVE  Deletions(events, n, g) # {} /\ Deletions(Tail(events), n, g) = {}
  <2>1. 1 \in 1..Len(events)
    BY <1>1
  <2>2. 1 \in Deletions(events, n, g)
    BY <1>1, <1>8, <2>1 DEF Deletions
  <2> QED  BY <1>5, <1>8, <2>2 DEF OneDeletion
<1> QED  BY <1>6, <1>7, <1>8

-----------------------------------------------------------------------------
(* The goals                                                               *)

GoalsContext ==
  /\ TypeOK
  /\ TypeOK'
  /\ GoalsInvariant
  /\ FixedGoals
  /\ NoPostedGoals

\* A step that touches no goals.
LEMMA GoalsFrame ==
  ASSUME GoalsContext, pc' \notin {"cleaning", "bulk"} \/ UNCHANGED <<pc, keep>>,
         UNCHANGED <<goals, loaded, bulk, configMap, fromCloud, cmEvents>>
  PROVE  GoalsInvariant'
BY DEF GoalsContext, GoalsInvariant

\* One more list is on its way.
LEMMA ListAppended ==
  ASSUME NEW q \in Seq(SUBSET Goal), NEW G \in SUBSET Goal
  PROVE  ToSet(Append(q, G)) = ToSet(q) \cup {G}
BY PushProperties DEF Push

\* One list is received.
LEMMA ListReceived ==
  ASSUME NEW q \in Seq(SUBSET Goal), q # <<>>
  PROVE  Head(q) \in ToSet(q) /\ ToSet(Tail(q)) \subseteq ToSet(q)
BY TailProperties

LEMMA GoalsReceiveFromCloud ==
  ASSUME GoalsContext, ReceiveFromCloud
  PROVE  GoalsInvariant'
<1>1. fromCloud \in Seq(SUBSET Goal) /\ cmEvents \in Seq(SUBSET Goal) /\ fromCloud # <<>>
  BY DEF GoalsContext, TypeOK, KubeTypeOK, ReceiveFromCloud
<1>2. Head(fromCloud) \in ToSet(fromCloud) /\ ToSet(Tail(fromCloud)) \subseteq ToSet(fromCloud)
  BY <1>1, ListReceived
<1>3. Head(fromCloud) \in GoalLists /\ Head(fromCloud) \in SUBSET Goal
  BY <1>2, NodeAssumption DEF GoalsContext, GoalsInvariant
<1>4. ToSet(fromCloud') \subseteq GoalLists
  BY <1>2 DEF ReceiveFromCloud, GoalsContext, GoalsInvariant
<1>5. ToSet(configMap') \cup ToSet(cmEvents') \subseteq GoalLists
  <2>1. CASE UNCHANGED <<configMap, cmEvents>>
    BY <2>1 DEF GoalsContext, GoalsInvariant
  <2>2. CASE ConfigMapWritten(Head(fromCloud))
    <3>1. ToSet(configMap') \subseteq GoalLists
      BY <1>3, <2>2 DEF ConfigMapWritten, ToSet
    <3>2. ToSet(cmEvents') \subseteq ToSet(cmEvents) \cup {Head(fromCloud)}
      BY <1>1, <1>3, <2>2, ListAppended DEF ConfigMapWritten
    <3> QED  BY <1>3, <3>1, <3>2 DEF GoalsContext, GoalsInvariant
  <2> QED  BY <2>1, <2>2 DEF ReceiveFromCloud
<1>6. UNCHANGED <<pc, goals, bulk, keep, loaded>>
  BY DEF ReceiveFromCloud, goalVars, bulkVars
<1> QED  BY <1>4, <1>5, <1>6 DEF GoalsContext, GoalsInvariant

LEMMA GoalsReceiveConfigMap ==
  ASSUME GoalsContext, ReceiveConfigMap
  PROVE  GoalsInvariant'
<1>1. cmEvents \in Seq(SUBSET Goal) /\ cmEvents # <<>>
  BY DEF GoalsContext, TypeOK, KubeTypeOK, ReceiveConfigMap
<1>2. Head(cmEvents) \in ToSet(cmEvents) /\ ToSet(Tail(cmEvents)) \subseteq ToSet(cmEvents)
  BY <1>1, ListReceived
<1>3. Head(cmEvents) \in GoalLists
  BY <1>2 DEF GoalsContext, GoalsInvariant
<1>4. /\ UNCHANGED <<goals, loaded, configMap, fromCloud>>
      /\ cmEvents' = Tail(cmEvents) /\ bulk' = Head(cmEvents) /\ keep' = Head(cmEvents)
      /\ pc' = "bulk"
  BY DEF ReceiveConfigMap, goalVars, chanVars
<1> QED  BY <1>2, <1>3, <1>4 DEF GoalsContext, GoalsInvariant

\* A goal of the list is there, or new: no other goal of its job is there.
LEMMA GoalsBulkGoal ==
  ASSUME GoalsContext, NEW g \in Goal, BulkGoal(g)
  PROVE  GoalsInvariant' /\ loaded \subseteq loaded'
<1>1. /\ pc = "bulk" /\ g \in bulk /\ bulk' \subseteq bulk
      /\ UNCHANGED <<keep, configMap, fromCloud, cmEvents>>
  BY DEF BulkGoal, kubeVars, chanVars
<1>2. ~ \E e \in goals : JobOf[e] = JobOf[g] /\ e # g
  <2> SUFFICES ASSUME NEW e \in goals, JobOf[e] = JobOf[g], e # g PROVE FALSE
    OBVIOUS
  <2>1. PICK G \in GoalLists : g \in G
    BY <1>1 DEF GoalsContext, GoalsInvariant
  <2>2. e \in G
    BY DEF GoalsContext, GoalsInvariant, FixedGoals
  <2> QED  BY <2>1, <2>2, NodeAssumption
<1>3. CASE UNCHANGED <<goalVars, pc>>
  BY <1>1, <1>3 DEF GoalsContext, GoalsInvariant, goalVars
<1>4. CASE Register(g, goals) /\ UNCHANGED pc /\ ~ g \in goals
  <2>1. /\ goals' = goals \cup {g}
        /\ loaded' = loaded \cup {r \in Runtime : r.goal = g /\ r.gen = generation[g] + 1}
    BY <1>4 DEF Register, GoalsContext, GoalsInvariant
  <2> QED  BY <1>1, <1>4, <2>1 DEF GoalsContext, GoalsInvariant
<1>5. \/ UNCHANGED <<goalVars, pc>>
      \/ Register(g, goals) /\ UNCHANGED pc /\ ~ g \in goals
  BY <1>2 DEF BulkGoal
<1> QED  BY <1>1, <1>3, <1>4, <1>5 DEF goalVars

\* Every goal is kept.
LEMMA GoalsBulkRemove ==
  ASSUME GoalsContext, BulkRemove
  PROVE  GoalsInvariant'
<1>1. goals \subseteq keep
  BY DEF BulkRemove, GoalsContext, GoalsInvariant, FixedGoals
<1>2. pc' = "select"
  BY <1>1 DEF BulkRemove
<1>3. UNCHANGED <<goals, loaded, bulk, configMap, fromCloud, cmEvents>>
  BY DEF BulkRemove, goalVars, kubeVars, chanVars
<1> QED  BY <1>2, <1>3, GoalsFrame

LEMMA GoalsInit == Init => GoalsInvariant
BY EmptyQueue DEF Init, KubeInit, GoalsInvariant

LEMMA GoalsRestart ==
  ASSUME GoalsContext, Restart
  PROVE  GoalsInvariant'
BY EmptyQueue DEF Restart, GoalsContext, GoalsInvariant

\* Every step of the node and of its cluster.
LEMMA GoalsNext == GoalsContext /\ [Next]_vars => GoalsInvariant'
<1> SUFFICES ASSUME GoalsContext, [Next]_vars PROVE GoalsInvariant'
  OBVIOUS
<1> USE DEF goalVars, bulkVars, chanVars, kubeVars
<1>1. ASSUME NEW G \in GoalLists, CloudSendsGoals(G) PROVE GoalsInvariant'
  <2>1. /\ UNCHANGED <<pc, goals, loaded, bulk, keep, configMap, cmEvents>>
        /\ fromCloud' = Append(fromCloud, G)
    BY <1>1 DEF CloudSendsGoals
  <2>2. ToSet(fromCloud') = ToSet(fromCloud) \cup {G}
    BY <2>1, ListAppended, NodeAssumption DEF GoalsContext, TypeOK
  <2> QED  BY <2>1, <2>2 DEF GoalsContext, GoalsInvariant
<1>2. CASE HandleGoals
  <2>1. ~ CleanDone /\ \A n \in Name : ~ CleanPlugin(n)
    BY DEF CleanDone, CleanPlugin, GoalsContext, GoalsInvariant
  <2> QED  BY <1>2, <2>1, GoalsBulkGoal, GoalsBulkRemove DEF HandleGoals
<1>3. CASE EvaluateRules
  <2>1. ASSUME NEW r \in Runtime, QueuePlugin(r) PROVE GoalsInvariant'
    BY <2>1, GoalsFrame DEF QueuePlugin
  <2>2. CASE RulesEvaluated
    BY <2>2, GoalsFrame DEF RulesEvaluated
  <2>3. CASE IdleTick
    BY <2>3, GoalsFrame DEF IdleTick, vars
  <2> QED  BY <1>3, <2>1, <2>2, <2>3 DEF EvaluateRules
<1>4. CASE TriggerScheduling
  BY <1>4, GoalsFrame DEF TriggerScheduling
<1>5. CASE Schedule
  <2>1. CASE StartScheduling
    BY <2>1, GoalsFrame DEF StartScheduling
  <2>2. CASE SelectNext
    BY <2>2, GoalsFrame DEF SelectNext
  <2>3. CASE SelectDone
    BY <2>3, GoalsFrame DEF SelectDone
  <2>4. CASE LaunchNext
    <3>1. pc' \in {"launching", "crashed"}
      BY <2>4 DEF LaunchNext
    <3> QED  BY <2>4, <3>1, GoalsFrame DEF LaunchNext
  <2>5. CASE LaunchDone
    BY <2>5, GoalsFrame DEF LaunchDone
  <2> QED  BY <1>5, <2>1, <2>2, <2>3, <2>4, <2>5 DEF Schedule
<1>6. CASE Launch
  <2>1. ASSUME NEW r \in Runtime, CreatePod(r) PROVE GoalsInvariant'
    BY <2>1, GoalsFrame DEF CreatePod
  <2>2. ASSUME NEW r \in Runtime, AbortPod(r) PROVE GoalsInvariant'
    BY <2>2, GoalsFrame DEF AbortPod
  <2> QED  BY <1>6, <2>1, <2>2 DEF Launch
<1>7. CASE HandlePodEvent
  <2>1. CASE IgnorePodEvent
    BY <2>1, GoalsFrame DEF IgnorePodEvent
  <2>2. ASSUME NEW r \in loaded, PodAdded(r) PROVE GoalsInvariant'
    BY <2>2, GoalsFrame DEF PodAdded
  <2>3. ASSUME NEW r \in loaded, PodModified(r) PROVE GoalsInvariant'
    BY <2>3, GoalsFrame DEF PodModified
  <2>4. ASSUME NEW r \in loaded, PodDeleted(r) PROVE GoalsInvariant'
    <3>1. pc' \in {"select", "sending"}
      BY <2>4 DEF PodDeleted, ReceivePodEvent
    <3> QED  BY <2>4, <3>1, GoalsFrame DEF PodDeleted
  <2> QED  BY <1>7, <2>1, <2>2, <2>3, <2>4 DEF HandlePodEvent
<1>8. CASE ReceiveKubeEvent
  BY <1>8, GoalsFrame DEF ReceiveKubeEvent
<1>9. CASE API
  <2>1. ASSUME NEW n \in APINames, APISchedule(n) PROVE GoalsInvariant'
    BY <2>1, GoalsFrame DEF APISchedule
  <2>2. CASE APITrigger
    BY <2>2, GoalsFrame DEF APITrigger
  <2>3. ~ \E g \in APIGoals : APIAddGoal(g)
    BY DEF GoalsContext, NoPostedGoals
  <2> QED  BY <1>9, <2>1, <2>2, <2>3 DEF API
<1>10. CASE Cluster
  BY <1>10, GoalsFrame DEF Cluster, PodProgress, PodDeletedByOthers, PodWarning
<1>11. CASE UNCHANGED vars
  BY <1>11, GoalsFrame DEF vars
<1> QED
  BY <1>1, <1>2, <1>3, <1>4, <1>5, <1>6, <1>7, <1>8, <1>9, <1>10, <1>11,
     GoalsReceiveFromCloud, GoalsReceiveConfigMap, GoalsRestart DEF Next

-----------------------------------------------------------------------------
(* Pods                                                                    *)

\* What the induction assumes; GoalsNext gives the goals after the step.
PodContext ==
  /\ QueueContext
  /\ PodsInvariant
  /\ GoalsInvariant'
  /\ FixedGoals
  /\ NoLeftovers

Busy(r) == creating[r] > 0 \/ aborting[r] > 0

\* A plugin is scheduled when an entry of its name and goal is.
LEMMA ScheduledEntry ==
  /\ \A n, g : IsScheduled(n, g)
                 <=> \E s \in ToSet(scheduledPlugins) : s.name = n /\ s.goal = g
  /\ \A n, g : IsScheduled(n, g)'
                 <=> \E s \in ToSet(scheduledPlugins') : s.name = n /\ s.goal = g
BY DEF IsScheduled, ToSet

\* The scheduled entries are runtime objects.
LEMMA ScheduledTypes ==
  ASSUME PodContext
  PROVE  \A s \in ToSet(scheduledPlugins) : s \in Runtime /\ InScheduled(s)
<1>1. scheduledPlugins \in Seq(Runtime)
  BY DEF PodContext, QueueContext, TypeOK
<1>2. \A i \in DOMAIN scheduledPlugins : scheduledPlugins[i] \in Runtime
  BY <1>1
<1> QED  BY <1>2 DEF ToSet, InScheduled

\* The loaded objects are those of the goals the node serves.
LEMMA LoadedObject ==
  ASSUME PodContext, NEW r \in loaded
  PROVE  /\ r \in Runtime /\ r.name \in Name
         /\ r.goal \in Goal /\ r.goal # NoGoal /\ r.goal \in goals
<1>1. r \in Runtime
  BY DEF PodContext, QueueContext, TypeOK
<1>2. r.goal \in Goal
  BY DEF PodContext, QueueContext, QueueInvariant
<1>3. r.goal \in goals
  BY DEF PodContext, PodsInvariant, GoalsInvariant
<1> QED  BY <1>1, <1>2, <1>3, KubernetesAssumption DEF Runtime

\* The plugin of an object of a goal that is not scheduled is not scheduled.
LEMMA NotScheduled ==
  ASSUME PodContext, NEW r \in Runtime, r.goal # NoGoal, IsScheduled(r.name, r.goal),
         InReady(r) \/ InScheduled(r) \/ (r \in loaded /\ r.goal \in goals)
  PROVE  InScheduled(r)
<1>1. PICK s \in ToSet(scheduledPlugins) : s.name = r.name /\ s.goal = r.goal
  BY ScheduledEntry
<1>2. s \in Runtime /\ InScheduled(s)
  BY <1>1, ScheduledTypes
<1>3. r = s
  BY <1>1, <1>2, NameDetermines DEF PodContext
<1> QED  BY <1>2, <1>3

\* A step that launches and schedules nothing.  Its pods are those before it, but
\* for their views, and an event that a pod is gone is old or stands for a pod
\* that was there.
LEMMA PodsPass ==
  ASSUME PodContext, UNCHANGED scheduledPlugins,
         \A p, q \in pods' : PodName(p) = PodName(q) => p = q,
         \A n \in Name, g \in Goal \cup {NoGoal} : HasPod(n, g)' => HasPod(n, g),
         \A n \in Name, g \in Goal :
           /\ OneDeletion(podEvents', n, g)
           /\ Deletions(podEvents', n, g) # {} =>
                ~ HasPod(n, g)' /\ (Deletions(podEvents, n, g) # {} \/ HasPod(n, g)),
         \A r \in Runtime : Busy(r)' =>
           Busy(r) /\ (r.goal # NoGoal => creating'[r] + aborting'[r] = 1)
  PROVE  PodsInvariant'
<1>1. \A n, g : IsScheduled(n, g)' <=> IsScheduled(n, g)
  BY DEF IsScheduled
<1>2. \A r : InScheduled(r)' <=> InScheduled(r)
  BY DEF InScheduled
<1>3. \A n \in Name, g \in Goal \cup {NoGoal} : HasPod(n, g) => IsScheduled(n, g)
  BY DEF PodContext, PodsInvariant, PodsAreManaged, HasPod
<1>4. PodsAreManaged'
  <2> SUFFICES ASSUME NEW p \in pods' PROVE IsScheduled(p.name, p.goal)'
    BY DEF PodsAreManaged
  <2>1. p.name \in Name /\ p.goal \in Goal \cup {NoGoal}
    BY DEF PodContext, QueueContext, TypeOK, KubeTypeOK, Pod
  <2>2. HasPod(p.name, p.goal)'
    BY DEF HasPod
  <2> QED  BY <1>1, <1>3, <2>1, <2>2
<1>5. \A n \in Name, g \in Goal :
        /\ \A i, j \in Deletions(podEvents', n, g) : i = j
        /\ Deletions(podEvents', n, g) # {} => IsScheduled(n, g)' /\ ~ HasPod(n, g)'
  BY <1>1, <1>3 DEF OneDeletion, PodContext, PodsInvariant
<1>6. ASSUME NEW r \in Runtime, Busy(r)'
      PROVE  /\ InScheduled(r)'
             /\ r.goal # NoGoal => /\ creating'[r] + aborting'[r] = 1
                                   /\ ~ HasPod(r.name, r.goal)'
                                   /\ Deletions(podEvents', r.name, r.goal) = {}
  <2>1. Busy(r) /\ r.name \in Name /\ r.goal \in Goal \cup {NoGoal}
    BY <1>6 DEF Runtime
  <2>2. /\ InScheduled(r)
        /\ r.goal # NoGoal => /\ ~ HasPod(r.name, r.goal)
                              /\ Deletions(podEvents, r.name, r.goal) = {}
    BY <2>1 DEF PodContext, PodsInvariant, Busy
  <2> QED  BY <1>2, <1>6, <2>1, <2>2
<1> QED  BY <1>4, <1>5, <1>6 DEF PodContext, PodsInvariant, Busy

\* ... in particular one that touches neither pods nor their events.
LEMMA PodsStutter ==
  ASSUME PodContext, UNCHANGED <<scheduledPlugins, pods, podEvents, creating, aborting>>
  PROVE  PodsInvariant'
<1>1. /\ \A n, g : IsScheduled(n, g)' <=> IsScheduled(n, g)
      /\ \A n, g : HasPod(n, g)' <=> HasPod(n, g)
      /\ \A r : InScheduled(r)' <=> InScheduled(r)
  BY DEF IsScheduled, HasPod, InScheduled
<1> QED  BY <1>1 DEF PodContext, PodsInvariant, PodsAreManaged

\* The pods' events before a step, or what is left of them when one was handled.
Pending(events) ==
  /\ events \in Seq(PodEvent)
  /\ \A n \in Name, g \in Goal :
       /\ OneDeletion(events, n, g)
       /\ Deletions(events, n, g) # {} => Deletions(podEvents, n, g) # {}

LEMMA PendingEvents ==
  ASSUME PodContext
  PROVE  Pending(podEvents) /\ (podEvents # <<>> => Pending(Tail(podEvents)))
<1>1. podEvents \in Seq(PodEvent)
  BY DEF PodContext, QueueContext, TypeOK, KubeTypeOK
<1>2. \A n \in Name, g \in Goal : OneDeletion(podEvents, n, g)
  BY DEF PodContext, PodsInvariant, OneDeletion
<1>3. ASSUME podEvents # <<>> PROVE Pending(Tail(podEvents))
  BY <1>1, <1>2, <1>3, HandledEvent, HeadTailProperties DEF Pending
<1> QED  BY <1>1, <1>2, <1>3 DEF Pending

\* An event is handled that is of no consequence here.
LEMMA PodsHandled ==
  ASSUME PodContext, podEvents # <<>>, podEvents' = Tail(podEvents),
         UNCHANGED <<scheduledPlugins, pods, creating, aborting>>
  PROVE  PodsInvariant'
<1>1. Pending(podEvents')
  BY PendingEvents
<1>2. \A n, g : HasPod(n, g)' <=> HasPod(n, g)
  BY DEF HasPod
<1>3. \A n \in Name, g \in Goal : Deletions(podEvents, n, g) # {} => ~ HasPod(n, g)
  BY DEF PodContext, PodsInvariant
<1>4. \A p, q \in pods' : PodName(p) = PodName(q) => p = q
  BY DEF PodContext, PodsInvariant
<1>5. \A r \in Runtime : Busy(r)' =>
        Busy(r) /\ (r.goal # NoGoal => creating'[r] + aborting'[r] = 1)
  BY DEF Busy, PodContext, PodsInvariant
<1> QED  BY <1>1, <1>2, <1>3, <1>4, <1>5, PodsPass DEF Pending

\* A pod goes away, after an event was handled or not.
LEMMA PodsGone ==
  ASSUME PodContext, NEW pending, Pending(pending), NEW p \in pods,
         pods' = pods \ {p}, podEvents' = Append(pending, [type |-> "Deleted", pod |-> p]),
         UNCHANGED scheduledPlugins,
         \A r \in Runtime : Busy(r)' =>
           Busy(r) /\ (r.goal # NoGoal => creating'[r] + aborting'[r] = 1)
  PROVE  PodsInvariant'
<1> DEFINE e == [type |-> "Deleted", pod |-> p]
<1>1. e \in PodEvent /\ e.type = "Deleted" /\ e.pod = p /\ pending \in Seq(PodEvent)
  BY DEF PodContext, QueueContext, TypeOK, KubeTypeOK, PodEvent, Pending
<1>2. \A q, q1 \in pods : PodName(q) = PodName(q1) => q = q1
  BY DEF PodContext, PodsInvariant
<1>3. \A n, g : HasPod(n, g)' => HasPod(n, g)
  BY DEF HasPod
<1>4. ~ HasPod(p.name, p.goal)' /\ HasPod(p.name, p.goal)
  BY <1>2 DEF HasPod, PodName
<1>5. \A n \in Name, g \in Goal : Deletions(podEvents, n, g) # {} => ~ HasPod(n, g)
  BY DEF PodContext, PodsInvariant
<1> HIDE DEF e
<1>6. ASSUME NEW n \in Name, NEW g \in Goal
      PROVE  /\ OneDeletion(podEvents', n, g)
             /\ Deletions(podEvents', n, g) # {} =>
                  ~ HasPod(n, g)' /\ (Deletions(podEvents, n, g) # {} \/ HasPod(n, g))
  <2>1. podEvents' = Append(pending, e)
    BY DEF e
  <2>2. OneDeletion(pending, n, g)
        /\ (Deletions(pending, n, g) # {} => Deletions(podEvents, n, g) # {})
    BY DEF Pending
  <2>3. CASE n = p.name /\ g = p.goal
    <3>1. Deletions(pending, n, g) = {}
      BY <1>4, <1>5, <2>2, <2>3
    <3>2. OneDeletion(podEvents', n, g)
      BY <1>1, <2>1, <2>3, <3>1, DeletionEvent
    <3> QED  BY <1>4, <2>3, <3>2
  <2>4. CASE ~ (n = p.name /\ g = p.goal)
    <3>1. Deletions(podEvents', n, g) = Deletions(pending, n, g)
      BY <1>1, <2>1, <2>4, DeletionEvent
    <3>2. OneDeletion(podEvents', n, g)
      BY <2>2, <3>1 DEF OneDeletion
    <3> QED  BY <1>3, <1>5, <2>2, <3>1, <3>2
  <2> QED  BY <2>3, <2>4
<1>7. \A q, q1 \in pods' : PodName(q) = PodName(q1) => q = q1
  BY <1>2
<1> QED  BY <1>3, <1>6, <1>7, PodsPass

\* A delete call.
LEMMA PodsTerminated ==
  ASSUME PodContext, NEW pending, Pending(pending), NEW pn, TerminatePod(pn, pending),
         UNCHANGED scheduledPlugins,
         \A r \in Runtime : Busy(r)' =>
           Busy(r) /\ (r.goal # NoGoal => creating'[r] + aborting'[r] = 1)
  PROVE  PodsInvariant'
<1>1. ASSUME NEW p \in pods, pods' = pods \ {p},
             podEvents' = Append(pending, [type |-> "Deleted", pod |-> p])
      PROVE  PodsInvariant'
  BY <1>1, PodsGone
<1>2. CASE pods' = pods /\ podEvents' = pending
  <2>1. \A n, g : HasPod(n, g)' <=> HasPod(n, g)
    BY <1>2 DEF HasPod
  <2>2. \A n \in Name, g \in Goal : Deletions(podEvents, n, g) # {} => ~ HasPod(n, g)
    BY DEF PodContext, PodsInvariant
  <2>3. \A p, q \in pods' : PodName(p) = PodName(q) => p = q
    BY <1>2 DEF PodContext, PodsInvariant
  <2>4. \A n \in Name, g \in Goal :
          /\ OneDeletion(podEvents', n, g)
          /\ Deletions(podEvents', n, g) # {} =>
               ~ HasPod(n, g)' /\ (Deletions(podEvents, n, g) # {} \/ HasPod(n, g))
    BY <1>2, <2>1, <2>2 DEF Pending
  <2> QED  BY <2>1, <2>3, <2>4, PodsPass
<1> QED  BY <1>1, <1>2 DEF TerminatePod

\* The launch goroutines are as they were.
LEMMA BusyKept ==
  ASSUME PodContext, UNCHANGED <<creating, aborting>>
  PROVE  \A r \in Runtime : Busy(r)' =>
           Busy(r) /\ (r.goal # NoGoal => creating'[r] + aborting'[r] = 1)
BY DEF Busy, PodContext, PodsInvariant

\* The pods of a busy plugin of a goal: there are none, also of another goal of
\* its job.
LEMMA BusyHasNoPod ==
  ASSUME PodContext, NEW r \in Runtime, Busy(r), r.goal # NoGoal
  PROVE  ~ PodExists(<<r.name, JobID(r.goal)>>)
<1> SUFFICES ASSUME NEW p \in pods, PodName(p) = <<r.name, JobID(r.goal)>> PROVE FALSE
  BY DEF PodExists
<1>1. InScheduled(r) /\ ~ HasPod(r.name, r.goal)
  BY DEF PodContext, PodsInvariant, Busy
<1>2. PICK s \in ToSet(scheduledPlugins) : s.name = p.name /\ s.goal = p.goal
  BY ScheduledEntry DEF PodContext, PodsInvariant, PodsAreManaged
<1>3. s \in Runtime /\ InScheduled(s)
  BY <1>2, ScheduledTypes
<1>4. s.name = r.name
  BY <1>2 DEF PodName
<1>5. r = s
  BY <1>1, <1>3, <1>4, NameDetermines DEF PodContext
<1> QED  BY <1>1, <1>2, <1>5 DEF HasPod

\* A pod is created.
LEMMA PodsCreated ==
  ASSUME PodContext, NEW r \in Runtime, creating[r] > 0, PodCreated(r.name, r.goal),
         creating' = [creating EXCEPT ![r] = @ - 1],
         UNCHANGED <<scheduledPlugins, aborting>>
  PROVE  PodsInvariant'
<1> DEFINE p == [name |-> r.name, goal |-> r.goal, uid |-> uids + 1, view |-> "created"]
           e == [type |-> "Added", pod |-> p]
<1>1. /\ p.name = r.name /\ p.goal = r.goal /\ pods' = pods \cup {p}
      /\ podEvents' = Append(podEvents, e) /\ ~ PodExists(PodName(p))
  BY DEF PodCreated
<1>2. e \in PodEvent /\ e.type # "Deleted" /\ podEvents \in Seq(PodEvent)
  <2>1. uids + 1 \in Nat /\ podEvents \in Seq(PodEvent)
    BY DEF PodContext, QueueContext, TypeOK, KubeTypeOK
  <2>2. r.name \in Name /\ r.goal \in Goal \cup {NoGoal}
    BY DEF Runtime
  <2>3. "created" \in View
    BY DEF View
  <2>4. p \in Pod
    BY <2>1, <2>2, <2>3 DEF Pod
  <2> QED  BY <2>1, <2>4 DEF PodEvent
<1> HIDE DEF p, e
<1>3. \A n, g : Deletions(podEvents', n, g) = Deletions(podEvents, n, g)
  BY <1>1, <1>2, OtherEvent
<1>4. \A q, q1 \in pods' : PodName(q) = PodName(q1) => q = q1
  BY <1>1 DEF PodExists, PodContext, PodsInvariant
<1>5. Busy(r) /\ InScheduled(r)
      /\ (r.goal # NoGoal => creating[r] + aborting[r] = 1
                             /\ Deletions(podEvents, r.name, r.goal) = {})
  BY DEF Busy, PodContext, PodsInvariant
<1>6. /\ \A n, g : IsScheduled(n, g)' <=> IsScheduled(n, g)
      /\ \A s : InScheduled(s)' <=> InScheduled(s)
  BY DEF IsScheduled, InScheduled
<1>7. IsScheduled(r.name, r.goal)
  BY <1>5, ScheduledEntry DEF InScheduled
<1>8. PodsAreManaged'
  BY <1>1, <1>6, <1>7 DEF PodsAreManaged, PodContext, PodsInvariant
<1>9. \A n, g : HasPod(n, g)' => HasPod(n, g) \/ (n = r.name /\ g = r.goal)
  BY <1>1 DEF HasPod
<1>10. ASSUME NEW n \in Name, NEW g \in Goal
       PROVE  /\ \A i, j \in Deletions(podEvents', n, g) : i = j
              /\ Deletions(podEvents', n, g) # {} => IsScheduled(n, g)' /\ ~ HasPod(n, g)'
  <2>1. g # NoGoal
    BY KubernetesAssumption
  <2>2. Deletions(podEvents, n, g) # {} => ~ (n = r.name /\ g = r.goal)
    BY <1>5, <2>1
  <2> QED  BY <1>3, <1>6, <1>9, <2>2 DEF PodContext, PodsInvariant
<1>11. \A s \in Runtime : creating'[s] = IF s = r THEN creating[r] - 1 ELSE creating[s]
  BY DEF PodContext, QueueContext, TypeOK
<1>12. ASSUME NEW s \in Runtime, Busy(s)'
       PROVE  /\ InScheduled(s)'
              /\ s.goal # NoGoal => /\ creating'[s] + aborting'[s] = 1
                                    /\ ~ HasPod(s.name, s.goal)'
                                    /\ Deletions(podEvents', s.name, s.goal) = {}
  <2>1. creating[s] \in Nat /\ aborting[s] \in Nat
    BY DEF PodContext, QueueContext, TypeOK
  <2>2. CASE s = r
    <3>1. s.goal = NoGoal
      BY <1>5, <1>11, <1>12, <2>1, <2>2 DEF Busy
    <3> QED  BY <1>5, <1>6, <2>2, <3>1
  <2>3. CASE s # r
    <3>1. Busy(s)
      BY <1>11, <1>12, <2>3 DEF Busy
    <3>2. /\ InScheduled(s)
          /\ s.goal # NoGoal => /\ creating[s] + aborting[s] = 1
                                /\ ~ HasPod(s.name, s.goal)
                                /\ Deletions(podEvents, s.name, s.goal) = {}
      BY <3>1 DEF Busy, PodContext, PodsInvariant
    <3>3. s.goal # NoGoal => ~ (s.name = r.name /\ s.goal = r.goal)
      BY <1>5, <2>3, <3>2, NameDetermines DEF PodContext
    <3> QED  BY <1>3, <1>6, <1>9, <1>11, <2>3, <3>2, <3>3
  <2> QED  BY <2>2, <2>3
<1> QED  BY <1>4, <1>8, <1>10, <1>12 DEF PodContext, PodsInvariant, Busy

\* A launch goroutine creates its pod or fails.
LEMMA PodsCreatePod ==
  ASSUME PodContext, NEW r \in Runtime, CreatePod(r)
  PROVE  PodsInvariant'
<1>1. /\ creating[r] > 0 /\ creating' = [creating EXCEPT ![r] = @ - 1]
      /\ UNCHANGED scheduledPlugins
  BY DEF CreatePod, queueVars
<1>2. CASE PodCreated(r.name, r.goal) /\ UNCHANGED aborting
  BY <1>1, <1>2, PodsCreated
<1>3. CASE /\ aborting' = aborting \/ aborting' = [aborting EXCEPT ![r] = @ + 1]
           /\ UNCHANGED <<pods, podEvents>>
  <2>1. \A s \in Runtime : /\ creating[s] \in Nat /\ aborting[s] \in Nat
                           /\ creating'[s] = IF s = r THEN creating[r] - 1 ELSE creating[s]
                           /\ s # r => aborting'[s] = aborting[s]
                           /\ aborting'[r] = aborting[r] \/ aborting'[r] = aborting[r] + 1
    BY <1>1, <1>3 DEF PodContext, QueueContext, TypeOK
  <2>2. \A s \in Runtime : Busy(s) /\ s.goal # NoGoal => creating[s] + aborting[s] = 1
    BY DEF Busy, PodContext, PodsInvariant
  <2>3. Busy(r)
    BY <1>1 DEF Busy
  <2>4. \A s \in Runtime : Busy(s)' =>
          Busy(s) /\ (s.goal # NoGoal => creating'[s] + aborting'[s] = 1)
    <3> SUFFICES ASSUME NEW s \in Runtime, Busy(s)'
                 PROVE  Busy(s) /\ (s.goal # NoGoal => creating'[s] + aborting'[s] = 1)
      OBVIOUS
    <3>1. CASE s = r
      BY <1>1, <2>1, <2>2, <2>3, <3>1 DEF Busy
    <3>2. CASE s # r
      BY <2>1, <2>2, <3>2 DEF Busy
    <3> QED  BY <3>1, <3>2
  <2>5. \A n, g : HasPod(n, g)' <=> HasPod(n, g)
    BY <1>3 DEF HasPod
  <2>6. \A n \in Name, g \in Goal :
          /\ OneDeletion(podEvents', n, g)
          /\ Deletions(podEvents', n, g) # {} =>
               ~ HasPod(n, g)' /\ (Deletions(podEvents, n, g) # {} \/ HasPod(n, g))
    BY <1>3, <2>5 DEF OneDeletion, PodContext, PodsInvariant
  <2>7. \A p, q \in pods' : PodName(p) = PodName(q) => p = q
    BY <1>3 DEF PodContext, PodsInvariant
  <2> QED  BY <1>1, <2>4, <2>5, <2>6, <2>7, PodsPass
<1> QED  BY <1>2, <1>3 DEF CreatePod

\* A launch goroutine deletes a pod after a failure.
LEMMA PodsAbortPod ==
  ASSUME PodContext, NEW r \in Runtime, AbortPod(r)
  PROVE  PodsInvariant'
<1>1. /\ aborting[r] > 0 /\ aborting' = [aborting EXCEPT ![r] = @ - 1]
      /\ UNCHANGED <<scheduledPlugins, creating>>
      /\ TerminatePod(<<r.name, JobID(r.goal)>>, podEvents)
  BY DEF AbortPod, queueVars
<1>2. \A s \in Runtime : /\ creating[s] \in Nat /\ aborting[s] \in Nat
                         /\ aborting'[s] = IF s = r THEN aborting[r] - 1 ELSE aborting[s]
  BY <1>1 DEF PodContext, QueueContext, TypeOK
<1>3. \A s \in Runtime : Busy(s) /\ s.goal # NoGoal => creating[s] + aborting[s] = 1
  BY DEF Busy, PodContext, PodsInvariant
<1>4. \A s \in Runtime : Busy(s)' =>
        Busy(s) /\ (s.goal # NoGoal => creating'[s] + aborting'[s] = 1)
  <2> SUFFICES ASSUME NEW s \in Runtime, Busy(s)'
               PROVE  Busy(s) /\ (s.goal # NoGoal => creating'[s] + aborting'[s] = 1)
    OBVIOUS
  <2>1. CASE s = r
    BY <1>1, <1>2, <1>3, <2>1 DEF Busy
  <2>2. CASE s # r
    BY <1>1, <1>2, <1>3, <2>2 DEF Busy
  <2> QED  BY <2>1, <2>2
<1> QED  BY <1>1, <1>4, PendingEvents, PodsTerminated

\* A launch: no pod, no goroutine and no event of the plugin is left over.
LEMMA PodsLaunchNext ==
  ASSUME PodContext, LaunchNext
  PROVE  PodsInvariant'
<1> DEFINE n == Head(toRun).name
<1>1. UNCHANGED <<pods, podEvents, aborting>>
  BY DEF LaunchNext, kubeVars
<1>2. CASE ~ HasName(readyQueue, n)
  BY <1>1, <1>2, PodsStutter DEF LaunchNext
<1>3. CASE HasName(readyQueue, n)
  <2>1. readyQueue \in Seq(Runtime) /\ scheduledPlugins \in Seq(Runtime)
    BY DEF PodContext, QueueContext, TypeOK
  <2>2. Popped(readyQueue, n) \in ToSet(readyQueue)
    BY <1>3, <2>1, AfterPopProperties
  <2>3. PICK r \in Runtime : r = Popped(readyQueue, n) /\ InReady(r)
    BY <2>1, <2>2 DEF ToSet, InReady
  <2>4. /\ scheduledPlugins' = Push(scheduledPlugins, r)
        /\ creating' = [creating EXCEPT ![r] = @ + 1]
    BY <1>3, <2>3 DEF LaunchNext
  <2>5. ToSet(scheduledPlugins') = ToSet(scheduledPlugins) \cup {r}
    BY <2>1, <2>3, <2>4, PushProperties
  <2>6. ~ InScheduled(r)
    BY <2>3 DEF InReady, InScheduled, PodContext, QueueContext, QueueInvariant, NoDuplicates
  <2>7. ~ Busy(r)
    BY <2>3, <2>6 DEF Busy, PodContext, PodsInvariant
  <2>8. r.goal # NoGoal => ~ IsScheduled(r.name, r.goal)
    BY <2>3, <2>6, NotScheduled
  <2>9. r.goal # NoGoal => /\ ~ HasPod(r.name, r.goal)
                           /\ Deletions(podEvents, r.name, r.goal) = {}
    BY <2>3, <2>8 DEF PodContext, PodsInvariant, PodsAreManaged, HasPod, Runtime
  <2>10. /\ \A m, g : IsScheduled(m, g) => IsScheduled(m, g)'
         /\ \A s : InScheduled(s) => InScheduled(s)'
         /\ InScheduled(r)'
    BY <2>5, ScheduledEntry DEF InScheduled
  <2>11. \A m, g : HasPod(m, g)' <=> HasPod(m, g)
    BY <1>1 DEF HasPod
  <2>12. /\ \A s \in Runtime : s # r => creating'[s] = creating[s]
         /\ creating'[r] = creating[r] + 1
         /\ creating[r] = 0 /\ aborting[r] = 0
    <3>1. creating \in [Runtime -> Nat] /\ aborting \in [Runtime -> Nat]
      BY DEF PodContext, QueueContext, TypeOK
    <3>2. creating[r] \in Nat /\ aborting[r] \in Nat
      BY <2>3, <3>1
    <3>3. creating[r] = 0 /\ aborting[r] = 0
      BY <2>7, <3>2 DEF Busy
    <3> QED  BY <2>3, <2>4, <3>1, <3>3
  <2>13. ASSUME NEW s \in Runtime, Busy(s)'
         PROVE  /\ InScheduled(s)'
                /\ s.goal # NoGoal => /\ creating'[s] + aborting'[s] = 1
                                      /\ ~ HasPod(s.name, s.goal)'
                                      /\ Deletions(podEvents', s.name, s.goal) = {}
    <3>1. CASE s = r
      <4>1. creating'[s] + aborting'[s] = 1
        BY <1>1, <2>12, <3>1
      <4> QED  BY <1>1, <2>9, <2>10, <2>11, <3>1, <4>1
    <3>2. CASE s # r
      <4>1. creating'[s] = creating[s] /\ aborting'[s] = aborting[s]
        BY <1>1, <2>12, <3>2
      <4>2. Busy(s)
        BY <2>13, <4>1 DEF Busy
      <4>3. /\ InScheduled(s)
            /\ s.goal # NoGoal => /\ creating[s] + aborting[s] = 1
                                  /\ ~ HasPod(s.name, s.goal)
                                  /\ Deletions(podEvents, s.name, s.goal) = {}
        BY <4>2 DEF Busy, PodContext, PodsInvariant
      <4> QED  BY <1>1, <2>10, <2>11, <4>1, <4>3
    <3> QED  BY <3>1, <3>2
  <2>14. PodsAreManaged'
    BY <1>1, <2>10 DEF PodsAreManaged, PodContext, PodsInvariant
  <2>15. \A m \in Name, g \in Goal :
           /\ \A i, j \in Deletions(podEvents', m, g) : i = j
           /\ Deletions(podEvents', m, g) # {} => IsScheduled(m, g)' /\ ~ HasPod(m, g)'
    BY <1>1, <2>10, <2>11 DEF PodContext, PodsInvariant
  <2> QED  BY <1>1, <2>13, <2>14, <2>15 DEF PodContext, PodsInvariant, Busy
<1> QED  BY <1>2, <1>3

\* The event that a pod is gone is handled: its plugin leaves the scheduled ones,
\* and nothing else does.
LEMMA PodsPodDeleted ==
  ASSUME PodContext, NEW r \in loaded, PodDeleted(r)
  PROVE  PodsInvariant'
<1>1. /\ podEvents # <<>> /\ Head(podEvents).type = "Deleted"
      /\ Head(podEvents).pod.name = r.name /\ Head(podEvents).pod.goal = r.goal
      /\ IsScheduled(r.name, r.goal)
  BY DEF PodDeleted, ReceivePodEvent, Manages, IsExist, IsScheduled
<1>2. /\ scheduledPlugins' = AfterPop(scheduledPlugins, r.name)
      /\ podEvents' = Tail(podEvents)
      /\ UNCHANGED <<pods, creating, aborting>>
  BY DEF PodDeleted, launchVars
<1>3. /\ r \in Runtime /\ r.name \in Name /\ r.goal \in Goal /\ r.goal # NoGoal
      /\ r.goal \in goals
  BY LoadedObject
<1>4. InScheduled(r)
  BY <1>1, <1>3, NotScheduled
<1>5. podEvents \in Seq(PodEvent) /\ scheduledPlugins \in Seq(Runtime)
  BY DEF PodContext, QueueContext, TypeOK, KubeTypeOK
<1>6. \A n \in Name, g \in Goal : OneDeletion(podEvents, n, g)
  BY DEF PodContext, PodsInvariant, OneDeletion
<1>7. Deletions(podEvents, r.name, r.goal) # {} /\ Deletions(podEvents', r.name, r.goal) = {}
  BY <1>1, <1>2, <1>3, <1>5, <1>6, HandledEvent
<1>8. ~ HasPod(r.name, r.goal) /\ ~ Busy(r)
  BY <1>3, <1>7 DEF PodContext, PodsInvariant, Busy
<1>9. \A s \in ToSet(scheduledPlugins) : s # r => s \in ToSet(scheduledPlugins')
  <2> SUFFICES ASSUME NEW s \in ToSet(scheduledPlugins), s # r
               PROVE  s \in ToSet(scheduledPlugins')
    OBVIOUS
  <2>1. s \in Runtime /\ InScheduled(s)
    BY ScheduledTypes
  <2>2. s.name # r.name
    BY <1>3, <1>4, <2>1, NameDetermines DEF PodContext
  <2> QED  BY <1>2, <1>5, <2>2, AfterPopProperties
<1>10. \A n, g : IsScheduled(n, g) /\ ~ (n = r.name /\ g = r.goal) => IsScheduled(n, g)'
  BY <1>9, ScheduledEntry
<1>11. \A n, g : HasPod(n, g)' <=> HasPod(n, g)
  BY <1>2 DEF HasPod
<1>12. PodsAreManaged'
  <2> SUFFICES ASSUME NEW p \in pods PROVE IsScheduled(p.name, p.goal)'
    BY <1>2 DEF PodsAreManaged
  <2>1. HasPod(p.name, p.goal)
    BY DEF HasPod
  <2>2. ~ (p.name = r.name /\ p.goal = r.goal)
    BY <1>8, <2>1
  <2> QED  BY <1>10, <2>2 DEF PodContext, PodsInvariant, PodsAreManaged
<1>13. Pending(podEvents')
  BY <1>1, <1>2, PendingEvents
<1>14. \A n \in Name, g \in Goal :
         /\ \A i, j \in Deletions(podEvents', n, g) : i = j
         /\ Deletions(podEvents', n, g) # {} => IsScheduled(n, g)' /\ ~ HasPod(n, g)'
  <2> SUFFICES ASSUME NEW n \in Name, NEW g \in Goal
               PROVE  /\ \A i, j \in Deletions(podEvents', n, g) : i = j
                      /\ Deletions(podEvents', n, g) # {}
                           => IsScheduled(n, g)' /\ ~ HasPod(n, g)'
    OBVIOUS
  <2>1. \A i, j \in Deletions(podEvents', n, g) : i = j
    BY <1>13 DEF Pending, OneDeletion
  <2>2. ASSUME Deletions(podEvents', n, g) # {} PROVE IsScheduled(n, g)' /\ ~ HasPod(n, g)'
    <3>1. ~ (n = r.name /\ g = r.goal)
      BY <1>7, <2>2
    <3>2. IsScheduled(n, g) /\ ~ HasPod(n, g)
      BY <1>13, <2>2 DEF Pending, PodContext, PodsInvariant
    <3> QED  BY <1>10, <1>11, <3>1, <3>2
  <2> QED  BY <2>1, <2>2
<1>15. ASSUME NEW s \in Runtime, Busy(s)'
       PROVE  /\ InScheduled(s)'
              /\ s.goal # NoGoal => /\ creating'[s] + aborting'[s] = 1
                                    /\ ~ HasPod(s.name, s.goal)'
                                    /\ Deletions(podEvents', s.name, s.goal) = {}
  <2>1. Busy(s) /\ s # r /\ s.name \in Name /\ s.goal \in Goal \cup {NoGoal}
    BY <1>2, <1>8, <1>15 DEF Busy, Runtime
  <2>2. /\ InScheduled(s)
        /\ s.goal # NoGoal => /\ creating[s] + aborting[s] = 1
                              /\ ~ HasPod(s.name, s.goal)
                              /\ Deletions(podEvents, s.name, s.goal) = {}
    BY <2>1 DEF Busy, PodContext, PodsInvariant
  <2>3. InScheduled(s)'
    BY <1>9, <2>1, <2>2 DEF InScheduled
  <2>4. s.goal # NoGoal => Deletions(podEvents', s.name, s.goal) = {}
    BY <1>13, <2>1, <2>2 DEF Pending
  <2> QED  BY <1>2, <1>11, <2>2, <2>3, <2>4
<1> QED  BY <1>2, <1>12, <1>14, <1>15 DEF PodContext, PodsInvariant, Busy

\* Events of changed pods and failure Events.
LEMMA PodsPodModified ==
  ASSUME PodContext, NEW r \in loaded, PodModified(r)
  PROVE  PodsInvariant'
<1>1. podEvents # <<>> /\ UNCHANGED <<scheduledPlugins, creating, aborting>>
  BY DEF PodModified, ReceivePodEvent, queueVars, launchVars
<1>2. \/ podEvents' = Tail(podEvents) /\ UNCHANGED pods
      \/ TerminatePod(PodName(Head(podEvents).pod), Tail(podEvents))
  BY DEF PodModified
<1>3. CASE podEvents' = Tail(podEvents) /\ UNCHANGED pods
  BY <1>1, <1>3, PodsHandled
<1>4. CASE TerminatePod(PodName(Head(podEvents).pod), Tail(podEvents))
  BY <1>1, <1>4, BusyKept, PendingEvents, PodsTerminated
<1> QED  BY <1>2, <1>3, <1>4

LEMMA PodsReceiveKubeEvent ==
  ASSUME PodContext, ReceiveKubeEvent
  PROVE  PodsInvariant'
<1>1. UNCHANGED <<scheduledPlugins, creating, aborting>>
  BY DEF ReceiveKubeEvent, queueVars, launchVars
<1>2. \/ UNCHANGED <<pods, podEvents>>
      \/ TerminatePod(Head(kubeEvents).podName, podEvents)
  BY DEF ReceiveKubeEvent
<1>3. CASE UNCHANGED <<pods, podEvents>>
  BY <1>1, <1>3, PodsStutter
<1>4. CASE TerminatePod(Head(kubeEvents).podName, podEvents)
  BY <1>1, <1>4, BusyKept, PendingEvents, PodsTerminated
<1> QED  BY <1>2, <1>3, <1>4

\* What the cluster does on its own.
LEMMA PodsCluster ==
  ASSUME PodContext, Cluster
  PROVE  PodsInvariant'
<1>1. UNCHANGED <<scheduledPlugins, creating, aborting>>
  BY DEF Cluster, queueVars, launchVars
<1>2. PICK p \in pods : PodProgress(p) \/ PodDeletedByOthers(p) \/ PodWarning(p)
  BY DEF Cluster
<1>3. CASE PodProgress(p)
  <2>1. PICK v \in MayFollow(p.view) :
          /\ pods' = (pods \ {p}) \cup {[p EXCEPT !.view = v]}
          /\ podEvents' = Append(podEvents, [type |-> "Modified", pod |-> [p EXCEPT !.view = v]])
    BY <1>3 DEF PodProgress
  <2> DEFINE q == [p EXCEPT !.view = v]
             e == [type |-> "Modified", pod |-> q]
  <2>2. p \in Pod /\ pods' \subseteq Pod /\ podEvents \in Seq(PodEvent)
    BY DEF PodContext, QueueContext, TypeOK, KubeTypeOK
  <2>3. q.name = p.name /\ q.goal = p.goal /\ PodName(q) = PodName(p) /\ q \in Pod
    BY <2>1, <2>2 DEF Pod, PodName
  <2>4. e \in PodEvent /\ e.type # "Deleted"
    BY <2>3 DEF PodEvent
  <2>5. pods' = (pods \ {p}) \cup {q} /\ podEvents' = Append(podEvents, e)
    BY <2>1
  <2> HIDE DEF q, e
  <2>6. \A n, g : Deletions(podEvents', n, g) = Deletions(podEvents, n, g)
    BY <2>2, <2>4, <2>5, OtherEvent
  <2>7. \A n, g : HasPod(n, g)' => HasPod(n, g)
    BY <2>3, <2>5 DEF HasPod
  <2>8. \A q1, q2 \in pods' : PodName(q1) = PodName(q2) => q1 = q2
    BY <2>3, <2>5 DEF PodContext, PodsInvariant
  <2>9. \A n \in Name, g \in Goal :
          /\ OneDeletion(podEvents', n, g)
          /\ Deletions(podEvents', n, g) # {} =>
               ~ HasPod(n, g)' /\ (Deletions(podEvents, n, g) # {} \/ HasPod(n, g))
    BY <2>6, <2>7 DEF OneDeletion, PodContext, PodsInvariant
  <2> QED  BY <1>1, <2>7, <2>8, <2>9, BusyKept, PodsPass
<1>4. CASE PodDeletedByOthers(p)
  BY <1>1, <1>4, BusyKept, PendingEvents, PodsGone DEF PodDeletedByOthers
<1>5. CASE PodWarning(p)
  BY <1>1, <1>5, PodsStutter DEF PodWarning
<1> QED  BY <1>2, <1>3, <1>4, <1>5

\* A new process starts without pods and without events.
LEMMA CleanRestart ==
  ASSUME TypeOK, NoLeftovers, Restart
  PROVE  pods' = {} /\ podEvents' = <<>>
<1>1. restarts \in Nat /\ restarts < MaxRestarts /\ MaxRestarts \in Nat
  BY NodeAssumption DEF TypeOK, Restart
<1>2. "terminate" \notin Faults
  BY <1>1 DEF NoLeftovers
<1>3. /\ pods' = {}
      /\ \E s \in SetToSeqs({}) :
           podEvents' = [i \in DOMAIN s |-> [type |-> "Added", pod |-> s[i]]]
  BY <1>2 DEF Restart
<1>4. PICK s \in SetToSeqs({}) :
        podEvents' = [i \in DOMAIN s |-> [type |-> "Added", pod |-> s[i]]]
  BY <1>3
<1>5. DOMAIN s = 1..0
  BY FS_EmptySet DEF SetToSeqs
<1>6. podEvents' = <<>>
  BY <1>4, <1>5
<1> QED  BY <1>3, <1>6

LEMMA PodsRestart ==
  ASSUME PodContext, Restart
  PROVE  PodsInvariant'
<1>1. pods' = {} /\ podEvents' = <<>>
  BY CleanRestart DEF PodContext, QueueContext
<1>2. \A r \in Runtime : creating'[r] = 0 /\ aborting'[r] = 0
  BY DEF Restart
<1>3. \A n, g : Deletions(podEvents', n, g) = {}
  BY <1>1 DEF Deletions
<1> QED  BY <1>1, <1>2, <1>3 DEF PodsInvariant, PodsAreManaged, PodContext

LEMMA PodsInit == Init => PodsInvariant
<1> SUFFICES ASSUME Init PROVE PodsInvariant
  OBVIOUS
<1>1. pods = {} /\ podEvents = <<>> /\ GoalsInvariant
  BY GoalsInit DEF Init, KubeInit
<1>2. \A r \in Runtime : creating[r] = 0 /\ aborting[r] = 0
  BY DEF Init
<1>3. \A n, g : Deletions(podEvents, n, g) = {}
  BY <1>1 DEF Deletions
<1> QED  BY <1>1, <1>2, <1>3 DEF PodsInvariant, PodsAreManaged

\* Every step of the node and of its cluster.
LEMMA PodsNext == PodContext /\ [Next]_vars => PodsInvariant'
<1> SUFFICES ASSUME PodContext, [Next]_vars PROVE PodsInvariant'
  OBVIOUS
<1> USE DEF queueVars, launchVars, kubeVars
<1>1. ASSUME NEW G \in GoalLists, CloudSendsGoals(G) PROVE PodsInvariant'
  BY <1>1, PodsStutter DEF CloudSendsGoals
<1>2. CASE ReceiveFromCloud \/ ReceiveConfigMap
  BY <1>2, PodsStutter DEF ReceiveFromCloud, ReceiveConfigMap
<1>3. CASE HandleGoals
  <2>1. ~ CleanDone /\ \A n \in Name : ~ CleanPlugin(n)
    BY DEF CleanDone, CleanPlugin, PodContext, PodsInvariant, GoalsInvariant
  <2>2. ASSUME NEW g \in Goal, BulkGoal(g) PROVE PodsInvariant'
    BY <2>2, PodsStutter DEF BulkGoal
  <2>3. CASE BulkRemove
    BY <2>3, PodsStutter DEF BulkRemove
  <2> QED  BY <1>3, <2>1, <2>2, <2>3 DEF HandleGoals
<1>4. CASE EvaluateRules
  <2>1. ASSUME NEW r \in Runtime, QueuePlugin(r) PROVE PodsInvariant'
    BY <2>1, PodsStutter DEF QueuePlugin
  <2>2. CASE RulesEvaluated \/ IdleTick
    BY <2>2, PodsStutter DEF RulesEvaluated, IdleTick, vars
  <2> QED  BY <1>4, <2>1, <2>2 DEF EvaluateRules
<1>5. CASE TriggerScheduling
  BY <1>5, PodsStutter DEF TriggerScheduling
<1>6. CASE Schedule
  <2>1. CASE StartScheduling
    BY <2>1, PodsStutter DEF StartScheduling
  <2>2. CASE SelectNext
    BY <2>2, PodsStutter DEF SelectNext
  <2>3. CASE SelectDone \/ LaunchDone
    BY <2>3, PodsStutter DEF SelectDone, LaunchDone
  <2> QED  BY <1>6, <2>1, <2>2, <2>3, PodsLaunchNext DEF Schedule
<1>7. CASE Launch
  BY <1>7, PodsCreatePod, PodsAbortPod DEF Launch
<1>8. CASE HandlePodEvent
  <2>1. CASE IgnorePodEvent
    BY <2>1, PodsHandled DEF IgnorePodEvent
  <2>2. ASSUME NEW r \in loaded, PodAdded(r) PROVE PodsInvariant'
    BY <2>2, PodsHandled DEF PodAdded, ReceivePodEvent
  <2> QED  BY <1>8, <2>1, <2>2, PodsPodModified, PodsPodDeleted DEF HandlePodEvent
<1>9. CASE API
  <2>1. ASSUME NEW n \in APINames, APISchedule(n) PROVE PodsInvariant'
    BY <2>1, PodsStutter DEF APISchedule
  <2>2. CASE APITrigger
    BY <2>2, PodsStutter DEF APITrigger
  <2>3. ~ \E g \in APIGoals : APIAddGoal(g)
    BY DEF PodContext, QueueContext, NoPostedGoals
  <2> QED  BY <1>9, <2>1, <2>2, <2>3 DEF API
<1>10. CASE UNCHANGED vars
  BY <1>10, PodsStutter DEF vars
<1> QED
  BY <1>1, <1>2, <1>3, <1>4, <1>5, <1>6, <1>7, <1>8, <1>9, <1>10,
     PodsReceiveKubeEvent, PodsRestart, PodsCluster DEF Next

\* The invariant of the pods holds in every reachable state.
THEOREM PodsInvariantHolds ==
  ASSUME UniqueNames, NoPostedGoals, FixedGoals, NoLeftovers
  PROVE  Spec => []PodsInvariant
<1>1. Init => PodsInvariant
  BY PodsInit
<1>2. /\ TypeOK /\ TypeOK' /\ QueueInvariant /\ PodsInvariant /\ [Next]_vars
      => PodsInvariant'
  BY GoalsNext, PodsNext DEF PodContext, QueueContext, GoalsContext, PodsInvariant
<1> QED  BY <1>1, <1>2, TypeCorrect, QueueInvariantHolds, PTL DEF Spec

\* While the goals stay the same every pod is managed: its plugin is scheduled,
\* so that its end is noticed, whatever the cluster does to the pods and however
\* late their events come.
THEOREM PodsAreManagedHolds ==
  ASSUME UniqueNames, NoPostedGoals, FixedGoals, NoLeftovers
  PROVE  Spec => []PodsAreManaged
<1>1. PodsInvariant => PodsAreManaged
  BY DEF PodsInvariant
<1> QED  BY <1>1, PodsInvariantHolds, PTL

\* Under the GPU-aware policy one pod at most uses the GPU, from the policy's
\* decision to the end of the pod: the scheduled plugins bound the pods.
THEOREM AtMostOneGPUPodHolds ==
  ASSUME UniqueNames, NoPostedGoals, FixedGoals, NoLeftovers, Policy = "gpuaware"
  PROVE  Spec => []AtMostOneGPUPod
<1>1. ASSUME PodsInvariant, GPUExclusive PROVE AtMostOneGPUPod
  <2> SUFFICES ASSUME NEW p \in pods, NEW q \in pods,
                      <<p.name, p.goal>> \in GPUPlugins, <<q.name, q.goal>> \in GPUPlugins
               PROVE  p = q
    BY DEF AtMostOneGPUPod
  <2>1. PICK i \in DOMAIN scheduledPlugins :
          scheduledPlugins[i].name = p.name /\ scheduledPlugins[i].goal = p.goal
    BY <1>1 DEF PodsInvariant, PodsAreManaged, IsScheduled
  <2>2. PICK j \in DOMAIN scheduledPlugins :
          scheduledPlugins[j].name = q.name /\ scheduledPlugins[j].goal = q.goal
    BY <1>1 DEF PodsInvariant, PodsAreManaged, IsScheduled
  <2>3. i = j
    BY <1>1, <2>1, <2>2 DEF GPUExclusive, RequiresGPU
  <2>4. PodName(p) = PodName(q)
    BY <2>1, <2>2, <2>3 DEF PodName
  <2> QED  BY <1>1, <2>4 DEF PodsInvariant
<1> QED  BY <1>1, PodsInvariantHolds, GPUExclusiveHolds, PTL

-----------------------------------------------------------------------------
(* UIDs                                                                    *)

SamePod(p, q) == p.uid = q.uid /\ p.name = q.name /\ p.goal = q.goal

KnownBefore == \A p \in Known' : \E q \in Known : SamePod(p, q)

UIDContext ==
  /\ TypeOK
  /\ TypeOK'
  /\ UIDInvariant

\* A step that makes no pod, remembers no UID and reports no warning.
LEMMA UIDFrame ==
  ASSUME UIDContext, UNCHANGED <<uids, podUID>>, KnownBefore,
         ToSet(kubeEvents') \subseteq ToSet(kubeEvents)
  PROVE  UIDInvariant'
<1>1. \A p \in Known' : p.uid \in 1..uids'
  BY DEF KnownBefore, SamePod, UIDContext, UIDInvariant
<1>2. \A p, q \in Known' : p.uid = q.uid => p.name = q.name /\ p.goal = q.goal
  <2> SUFFICES ASSUME NEW p \in Known', NEW q \in Known', p.uid = q.uid
               PROVE  p.name = q.name /\ p.goal = q.goal
    OBVIOUS
  <2>1. PICK p1 \in Known : SamePod(p, p1)
    BY DEF KnownBefore
  <2>2. PICK q1 \in Known : SamePod(q, q1)
    BY DEF KnownBefore
  <2> QED  BY <2>1, <2>2 DEF SamePod, UIDContext, UIDInvariant
<1>3. \A e \in ToSet(kubeEvents') :
        /\ e.uid \in 1..uids'
        /\ \A p \in Known' : p.uid = e.uid => PodName(p) = e.podName
        /\ \A r \in Runtime : podUID'[r] = e.uid => e.podName = <<r.name, JobID(r.goal)>>
  <2> SUFFICES ASSUME NEW e \in ToSet(kubeEvents)
               PROVE  /\ e.uid \in 1..uids
                      /\ \A p \in Known' : p.uid = e.uid => PodName(p) = e.podName
                      /\ \A r \in Runtime : podUID[r] = e.uid
                           => e.podName = <<r.name, JobID(r.goal)>>
    OBVIOUS
  <2>1. ASSUME NEW p \in Known', p.uid = e.uid PROVE PodName(p) = e.podName
    <3>1. PICK p1 \in Known : SamePod(p, p1)
      BY DEF KnownBefore
    <3> QED  BY <2>1, <3>1 DEF SamePod, PodName, UIDContext, UIDInvariant
  <2> QED  BY <2>1 DEF UIDContext, UIDInvariant
<1>4. \A r \in Runtime :
        /\ podUID'[r] <= uids'
        /\ \A p \in Known' : p.uid = podUID'[r] => p.name = r.name /\ p.goal = r.goal
  <2> SUFFICES ASSUME NEW r \in Runtime
               PROVE  /\ podUID[r] <= uids
                      /\ \A p \in Known' : p.uid = podUID[r]
                           => p.name = r.name /\ p.goal = r.goal
    OBVIOUS
  <2>1. ASSUME NEW p \in Known', p.uid = podUID[r] PROVE p.name = r.name /\ p.goal = r.goal
    <3>1. PICK p1 \in Known : SamePod(p, p1)
      BY DEF KnownBefore
    <3> QED  BY <2>1, <3>1 DEF SamePod, UIDContext, UIDInvariant
  <2> QED  BY <2>1 DEF UIDContext, UIDInvariant
<1> QED  BY <1>1, <1>2, <1>3, <1>4 DEF UIDInvariant

\* Steps that touch neither the pods nor the events, ...
LEMMA UIDStutter ==
  ASSUME UIDContext, UNCHANGED <<pods, podEvents, uids, podUID, kubeEvents>>
  PROVE  UIDInvariant'
BY UIDFrame DEF KnownBefore, Known, SamePod

\* ... that handle an event, ...
LEMMA UIDHandled ==
  ASSUME UIDContext, podEvents # <<>>, podEvents' = Tail(podEvents),
         UNCHANGED <<pods, uids, podUID, kubeEvents>>
  PROVE  UIDInvariant'
<1>1. podEvents \in Seq(PodEvent)
  BY DEF UIDContext, TypeOK, KubeTypeOK
<1>2. Known' \subseteq Known
  BY <1>1, TailProperties DEF Known
<1>3. KnownBefore
  BY <1>2 DEF KnownBefore, SamePod
<1> QED  BY <1>3, UIDFrame

\* ... that make an event about a pod that is there, ...
LEMMA UIDEvent ==
  ASSUME UIDContext, NEW pending \in Seq(PodEvent), ToSet(pending) \subseteq ToSet(podEvents),
         NEW e \in PodEvent, podEvents' = Append(pending, e),
         NEW p \in pods, SamePod(e.pod, p), pods' \subseteq pods \cup {e.pod},
         UNCHANGED <<uids, podUID>>, ToSet(kubeEvents') \subseteq ToSet(kubeEvents)
  PROVE  UIDInvariant'
<1>1. ToSet(podEvents') = ToSet(pending) \cup {e}
  BY PushProperties DEF Push
<1>2. Known' \subseteq Known \cup {e.pod} /\ p \in Known
  BY <1>1 DEF Known
<1>3. KnownBefore
  BY <1>2 DEF KnownBefore, SamePod
<1> QED  BY <1>3, UIDFrame

\* ... or delete a pod.
LEMMA UIDTerminated ==
  ASSUME UIDContext, NEW pending \in Seq(PodEvent), ToSet(pending) \subseteq ToSet(podEvents),
         NEW pn, TerminatePod(pn, pending),
         UNCHANGED <<uids, podUID>>, ToSet(kubeEvents') \subseteq ToSet(kubeEvents)
  PROVE  UIDInvariant'
<1>1. CASE pods' = pods /\ podEvents' = pending
  <2>1. KnownBefore
    BY <1>1 DEF KnownBefore, Known, SamePod
  <2> QED  BY <2>1, UIDFrame
<1>2. ASSUME NEW p \in pods, pods' = pods \ {p},
             podEvents' = Append(pending, [type |-> "Deleted", pod |-> p])
      PROVE  UIDInvariant'
  <2> DEFINE e == [type |-> "Deleted", pod |-> p]
  <2>1. e \in PodEvent /\ SamePod(e.pod, p)
    BY DEF UIDContext, TypeOK, KubeTypeOK, PodEvent, SamePod
  <2>2. podEvents' = Append(pending, e) /\ pods' \subseteq pods \cup {e.pod}
    BY <1>2
  <2> HIDE DEF e
  <2> QED  BY <2>1, <2>2, UIDEvent
<1> QED  BY <1>1, <1>2 DEF TerminatePod

\* A new pod has a new UID.
LEMMA UIDCreated ==
  ASSUME UIDContext, NEW r \in Runtime, PodCreated(r.name, r.goal),
         UNCHANGED <<podUID, kubeEvents>>
  PROVE  UIDInvariant'
<1> DEFINE p == [name |-> r.name, goal |-> r.goal, uid |-> uids + 1, view |-> "created"]
           e == [type |-> "Added", pod |-> p]
<1>1. uids \in Nat /\ uids' = uids + 1 /\ podEvents \in Seq(PodEvent)
  BY DEF PodCreated, UIDContext, TypeOK, KubeTypeOK
<1>2. /\ pods' = pods \cup {p} /\ podEvents' = Append(podEvents, e)
      /\ p.uid = uids + 1 /\ e.pod = p
  BY DEF PodCreated
<1>3. p \in pods' /\ pods' \subseteq Pod
  BY <1>2 DEF UIDContext, TypeOK, KubeTypeOK
<1>4. e \in PodEvent
  BY <1>3 DEF PodEvent
<1> HIDE DEF p, e
<1>5. ToSet(podEvents') = ToSet(podEvents) \cup {e}
  BY <1>1, <1>2, <1>4, PushProperties DEF Push
<1>6. Known' = Known \cup {p}
  BY <1>2, <1>5 DEF Known
<1>7. /\ \A q \in Known : q.uid \in 1..uids
      /\ \A x \in ToSet(kubeEvents) : x.uid \in 1..uids
      /\ \A s \in Runtime : podUID[s] <= uids
  BY DEF UIDContext, UIDInvariant
<1>8. podUID \in [Runtime -> Nat]
  BY DEF UIDContext, TypeOK
<1>9. /\ \A q \in Known : q.uid # p.uid
      /\ \A x \in ToSet(kubeEvents) : x.uid # p.uid
      /\ \A s \in Runtime : podUID[s] # p.uid
  BY <1>1, <1>2, <1>7, <1>8
<1>10. /\ p.uid \in 1..uids'
       /\ \A i \in 1..uids : i \in 1..uids'
       /\ \A i \in Nat : i <= uids => i <= uids'
  BY <1>1, <1>2
<1>11. \A q \in Known' : q.uid \in 1..uids'
  BY <1>6, <1>7, <1>10
<1>12. \A q, t \in Known' : q.uid = t.uid => q.name = t.name /\ q.goal = t.goal
  BY <1>6, <1>9 DEF UIDContext, UIDInvariant
<1>13. \A x \in ToSet(kubeEvents') :
         /\ x.uid \in 1..uids'
         /\ \A q \in Known' : q.uid = x.uid => PodName(q) = x.podName
         /\ \A s \in Runtime : podUID'[s] = x.uid => x.podName = <<s.name, JobID(s.goal)>>
  BY <1>6, <1>7, <1>9, <1>10 DEF UIDContext, UIDInvariant
<1>14. \A s \in Runtime :
         /\ podUID'[s] <= uids'
         /\ \A q \in Known' : q.uid = podUID'[s] => q.name = s.name /\ q.goal = s.goal
  BY <1>6, <1>7, <1>8, <1>9, <1>10 DEF UIDContext, UIDInvariant
<1> QED  BY <1>11, <1>12, <1>13, <1>14 DEF UIDInvariant

\* The object of a pod remembers its UID.
LEMMA UIDPodAdded ==
  ASSUME UIDContext, NEW r \in loaded, PodAdded(r)
  PROVE  UIDInvariant'
<1> DEFINE p == Head(podEvents).pod
<1>1. /\ podEvents # <<>> /\ podEvents' = Tail(podEvents)
      /\ UNCHANGED <<pods, uids, kubeEvents>>
      /\ r.name = p.name /\ r.goal = p.goal
      /\ podUID' = podUID \/ podUID' = [podUID EXCEPT ![r] = p.uid]
  BY DEF PodAdded, ReceivePodEvent, Manages
<1>2. /\ podEvents \in Seq(PodEvent) /\ podUID \in [Runtime -> Nat] /\ r \in Runtime
      /\ uids \in Nat
  BY DEF UIDContext, TypeOK, KubeTypeOK
<1>3. Head(podEvents) \in ToSet(podEvents) /\ ToSet(Tail(podEvents)) \subseteq ToSet(podEvents)
  BY <1>1, <1>2, TailProperties
<1>4. p \in Known /\ Known' \subseteq Known
  BY <1>1, <1>3 DEF Known
<1> HIDE DEF p
<1>5. /\ \A q \in Known : q.uid = p.uid => q.name = p.name /\ q.goal = p.goal
      /\ p.uid \in 1..uids
      /\ \A x \in ToSet(kubeEvents) : p.uid = x.uid => PodName(p) = x.podName
  BY <1>4 DEF UIDContext, UIDInvariant
<1>6. \A s \in Runtime : podUID'[s] = podUID[s] \/ (s = r /\ podUID'[s] = p.uid)
  BY <1>1, <1>2
<1>7. p.uid <= uids
  BY <1>2, <1>5
<1>8. \A s \in Runtime :
        /\ podUID'[s] <= uids'
        /\ \A q \in Known' : q.uid = podUID'[s] => q.name = s.name /\ q.goal = s.goal
  <2> SUFFICES ASSUME NEW s \in Runtime
               PROVE  /\ podUID'[s] <= uids'
                      /\ \A q \in Known' : q.uid = podUID'[s]
                           => q.name = s.name /\ q.goal = s.goal
    OBVIOUS
  <2>1. CASE podUID'[s] = podUID[s]
    BY <1>1, <1>4, <2>1 DEF UIDContext, UIDInvariant
  <2>2. CASE s = r /\ podUID'[s] = p.uid
    BY <1>1, <1>4, <1>5, <1>7, <2>2
  <2> QED  BY <1>6, <2>1, <2>2
<1>9. \A x \in ToSet(kubeEvents') :
        /\ x.uid \in 1..uids'
        /\ \A q \in Known' : q.uid = x.uid => PodName(q) = x.podName
        /\ \A s \in Runtime : podUID'[s] = x.uid => x.podName = <<s.name, JobID(s.goal)>>
  <2> SUFFICES ASSUME NEW x \in ToSet(kubeEvents)
               PROVE  /\ x.uid \in 1..uids
                      /\ \A q \in Known' : q.uid = x.uid => PodName(q) = x.podName
                      /\ \A s \in Runtime : podUID'[s] = x.uid
                           => x.podName = <<s.name, JobID(s.goal)>>
    BY <1>1
  <2>1. x.uid \in 1..uids /\ \A q \in Known' : q.uid = x.uid => PodName(q) = x.podName
    BY <1>4 DEF UIDContext, UIDInvariant
  <2>2. ASSUME NEW s \in Runtime, podUID'[s] = x.uid
        PROVE  x.podName = <<s.name, JobID(s.goal)>>
    <3>1. CASE podUID'[s] = podUID[s]
      BY <2>2, <3>1 DEF UIDContext, UIDInvariant
    <3>2. CASE s = r /\ podUID'[s] = p.uid
      BY <1>1, <1>5, <2>2, <3>2 DEF PodName
    <3> QED  BY <1>6, <3>1, <3>2
  <2> QED  BY <2>1, <2>2
<1>10. /\ \A q \in Known' : q.uid \in 1..uids'
       /\ \A q, t \in Known' : q.uid = t.uid => q.name = t.name /\ q.goal = t.goal
  BY <1>1, <1>4 DEF UIDContext, UIDInvariant
<1> QED  BY <1>8, <1>9, <1>10 DEF UIDInvariant

\* A warning has the UID and the name of its pod.
LEMMA UIDWarning ==
  ASSUME UIDContext, NEW p \in pods, PodWarning(p), UNCHANGED podUID
  PROVE  UIDInvariant'
<1> DEFINE x == [uid |-> p.uid, podName |-> PodName(p)]
<1>1. /\ UNCHANGED <<pods, uids, podEvents>>
      /\ kubeEvents' = Append(kubeEvents, x) /\ x.uid = p.uid /\ x.podName = PodName(p)
  BY DEF PodWarning
<1>2. kubeEvents \in Seq(KubeEvent) /\ p \in Pod
  BY DEF UIDContext, TypeOK, KubeTypeOK
<1>3. p.uid \in Nat /\ p.name \in Name /\ p.goal \in Goal \cup {NoGoal}
  BY <1>2 DEF Pod
<1>4. JobID(p.goal) \in Job \cup {NoJob}
  BY <1>3, KubernetesAssumption DEF JobID
<1>5. x \in KubeEvent
  BY <1>3, <1>4 DEF KubeEvent, PodName
<1> HIDE DEF x
<1>6. ToSet(kubeEvents') = ToSet(kubeEvents) \cup {x}
  BY <1>1, <1>2, <1>5, PushProperties DEF Push
<1>7. Known' = Known /\ p \in Known
  BY <1>1 DEF Known
<1>8. /\ x.uid \in 1..uids
      /\ \A q \in Known : q.uid = x.uid => PodName(q) = x.podName
      /\ \A r \in Runtime : podUID[r] = x.uid => x.podName = <<r.name, JobID(r.goal)>>
  BY <1>1, <1>7 DEF PodName, UIDContext, UIDInvariant
<1> QED  BY <1>1, <1>6, <1>7, <1>8 DEF UIDContext, UIDInvariant

\* A new process remembers no UID.
LEMMA UIDRestart ==
  ASSUME UIDContext, Restart
  PROVE  UIDInvariant'
<1>1. PICK left \in SUBSET pods :
        /\ pods' = left
        /\ \E s \in SetToSeqs(left) :
             podEvents' = [i \in DOMAIN s |-> [type |-> "Added", pod |-> s[i]]]
  BY DEF Restart
<1>2. PICK s \in SetToSeqs(left) :
        podEvents' = [i \in DOMAIN s |-> [type |-> "Added", pod |-> s[i]]]
  BY <1>1
<1>3. \A i \in DOMAIN s : s[i] \in left
  BY DEF SetToSeqs
<1>4. \A e \in ToSet(podEvents') : e.pod \in left
  BY <1>2, <1>3 DEF ToSet
<1>5. Known' \subseteq Known
  BY <1>1, <1>4 DEF Known
<1>6. /\ \A p \in Known : p.uid \in 1..uids
      /\ \A p, q \in Known : p.uid = q.uid => p.name = q.name /\ p.goal = q.goal
  BY DEF UIDContext, UIDInvariant
<1>7. /\ uids' = uids /\ kubeEvents' = <<>>
      /\ \A r \in Runtime : podUID'[r] = 0
  BY DEF Restart
<1>8. 0 <= uids /\ 0 \notin 1..uids
  BY DEF UIDContext, TypeOK, KubeTypeOK
<1> QED  BY <1>5, <1>6, <1>7, <1>8, EmptyQueue DEF UIDInvariant

LEMMA UIDInit == Init => UIDInvariant
BY EmptyQueue DEF Init, KubeInit, UIDInvariant, Known

\* Every step of the node and of its cluster.
LEMMA UIDNext == UIDContext /\ [Next]_vars => UIDInvariant'
<1> SUFFICES ASSUME UIDContext, [Next]_vars PROVE UIDInvariant'
  OBVIOUS
<1> USE DEF kubeVars, runtimeVars
<1>0. podEvents \in Seq(PodEvent) /\ kubeEvents \in Seq(KubeEvent)
  BY DEF UIDContext, TypeOK, KubeTypeOK
<1>1. podEvents # <<>> => /\ Tail(podEvents) \in Seq(PodEvent)
                          /\ ToSet(Tail(podEvents)) \subseteq ToSet(podEvents)
  BY <1>0, TailProperties, HeadTailProperties
<1>2. CASE \/ \E G \in GoalLists : CloudSendsGoals(G)
           \/ ReceiveFromCloud
           \/ ReceiveConfigMap
  BY <1>2, UIDStutter DEF CloudSendsGoals, ReceiveFromCloud, ReceiveConfigMap
<1>3. CASE HandleGoals
  <2>1. ASSUME NEW g \in Goal, BulkGoal(g) PROVE UIDInvariant'
    BY <2>1, UIDStutter DEF BulkGoal
  <2>2. CASE BulkRemove
    BY <2>2, UIDStutter DEF BulkRemove
  <2>3. ASSUME NEW n \in Name, CleanPlugin(n) PROVE UIDInvariant'
    <3>1. UNCHANGED <<uids, podUID, kubeEvents>>
      BY <2>3 DEF CleanPlugin
    <3>2. UNCHANGED <<pods, podEvents>> \/ \E pn : TerminatePod(pn, podEvents)
      BY <2>3 DEF CleanPlugin
    <3> QED  BY <1>0, <3>1, <3>2, UIDStutter, UIDTerminated
  <2>4. CASE CleanDone
    BY <2>4, UIDStutter DEF CleanDone
  <2> QED  BY <1>3, <2>1, <2>2, <2>3, <2>4 DEF HandleGoals
<1>4. CASE EvaluateRules
  <2>1. ASSUME NEW r \in Runtime, QueuePlugin(r) PROVE UIDInvariant'
    BY <2>1, UIDStutter DEF QueuePlugin
  <2>2. CASE RulesEvaluated \/ IdleTick
    BY <2>2, UIDStutter DEF RulesEvaluated, IdleTick, vars
  <2> QED  BY <1>4, <2>1, <2>2 DEF EvaluateRules
<1>5. CASE TriggerScheduling
  BY <1>5, UIDStutter DEF TriggerScheduling
<1>6. CASE Schedule
  <2>1. CASE StartScheduling
    BY <2>1, UIDStutter DEF StartScheduling
  <2>2. CASE SelectNext \/ SelectDone
    BY <2>2, UIDStutter DEF SelectNext, SelectDone
  <2>3. CASE LaunchNext \/ LaunchDone
    BY <2>3, UIDStutter DEF LaunchNext, LaunchDone
  <2> QED  BY <1>6, <2>1, <2>2, <2>3 DEF Schedule
<1>7. CASE Launch
  <2>1. ASSUME NEW r \in Runtime, CreatePod(r) PROVE UIDInvariant'
    <3>1. UNCHANGED <<podUID, kubeEvents>>
          /\ (PodCreated(r.name, r.goal) \/ UNCHANGED <<pods, uids, podEvents>>)
      BY <2>1 DEF CreatePod
    <3> QED  BY <3>1, UIDStutter, UIDCreated
  <2>2. ASSUME NEW r \in Runtime, AbortPod(r) PROVE UIDInvariant'
    BY <1>0, <2>2, UIDTerminated DEF AbortPod
  <2> QED  BY <1>7, <2>1, <2>2 DEF Launch
<1>8. CASE HandlePodEvent
  <2>1. CASE IgnorePodEvent
    BY <2>1, UIDHandled DEF IgnorePodEvent
  <2>2. ASSUME NEW r \in loaded, PodModified(r) PROVE UIDInvariant'
    <3>1. UNCHANGED <<uids, podUID, kubeEvents>> /\ podEvents # <<>>
      BY <2>2 DEF PodModified, ReceivePodEvent
    <3>2. \/ podEvents' = Tail(podEvents) /\ UNCHANGED pods
          \/ \E pn : TerminatePod(pn, Tail(podEvents))
      BY <2>2 DEF PodModified
    <3> QED  BY <1>1, <3>1, <3>2, UIDHandled, UIDTerminated
  <2>3. ASSUME NEW r \in loaded, PodDeleted(r) PROVE UIDInvariant'
    BY <2>3, UIDHandled DEF PodDeleted, ReceivePodEvent
  <2> QED  BY <1>8, <2>1, <2>2, <2>3, UIDPodAdded DEF HandlePodEvent
<1>9. CASE ReceiveKubeEvent
  <2>1. /\ UNCHANGED <<uids, podUID>> /\ kubeEvents # <<>>
        /\ kubeEvents' = Tail(kubeEvents)
        /\ UNCHANGED <<pods, podEvents>> \/ \E pn : TerminatePod(pn, podEvents)
    BY <1>9 DEF ReceiveKubeEvent
  <2>2. ToSet(kubeEvents') \subseteq ToSet(kubeEvents)
    BY <1>0, <2>1, TailProperties
  <2>3. CASE UNCHANGED <<pods, podEvents>>
    <3>1. KnownBefore
      BY <2>3 DEF KnownBefore, Known, SamePod
    <3> QED  BY <2>1, <2>2, <3>1, UIDFrame
  <2> QED  BY <1>0, <2>1, <2>2, <2>3, UIDTerminated
<1>10. CASE API
  <2>1. ASSUME NEW n \in APINames, APISchedule(n) PROVE UIDInvariant'
    BY <2>1, UIDStutter DEF APISchedule
  <2>2. CASE APITrigger
    BY <2>2, UIDStutter DEF APITrigger
  <2>3. ASSUME NEW g \in APIGoals, APIAddGoal(g) PROVE UIDInvariant'
    BY <2>3, UIDStutter DEF APIAddGoal
  <2> QED  BY <1>10, <2>1, <2>2, <2>3 DEF API
<1>11. CASE Cluster
  <2>1. UNCHANGED podUID
    BY <1>11 DEF Cluster
  <2>2. PICK p \in pods : PodProgress(p) \/ PodDeletedByOthers(p) \/ PodWarning(p)
    BY <1>11 DEF Cluster
  <2>3. p \in Pod
    BY DEF UIDContext, TypeOK, KubeTypeOK
  <2>4. CASE PodProgress(p)
    <3>1. PICK v \in MayFollow(p.view) :
            /\ pods' = (pods \ {p}) \cup {[p EXCEPT !.view = v]}
            /\ podEvents' = Append(podEvents, [type |-> "Modified", pod |-> [p EXCEPT !.view = v]])
      BY <2>4 DEF PodProgress
    <3> DEFINE q == [p EXCEPT !.view = v]
               e == [type |-> "Modified", pod |-> q]
    <3>2. q \in pods' /\ pods' \subseteq Pod
      BY <3>1 DEF UIDContext, TypeOK, KubeTypeOK
    <3>3. e \in PodEvent /\ SamePod(e.pod, p)
      BY <2>3, <3>2 DEF PodEvent, Pod, SamePod
    <3>4. podEvents' = Append(podEvents, e) /\ pods' \subseteq pods \cup {e.pod}
      BY <3>1
    <3>5. UNCHANGED <<uids, kubeEvents>>
      BY <2>4 DEF PodProgress
    <3> HIDE DEF e
    <3> QED  BY <1>0, <2>1, <3>3, <3>4, <3>5, UIDEvent
  <2>5. CASE PodDeletedByOthers(p)
    <3>1. TerminatePod(PodName(p), podEvents) /\ UNCHANGED <<uids, kubeEvents>>
      BY <2>5 DEF PodDeletedByOthers, TerminatePod
    <3> QED  BY <1>0, <2>1, <3>1, UIDTerminated
  <2>6. CASE PodWarning(p)
    BY <2>1, <2>6, UIDWarning
  <2> QED  BY <2>2, <2>4, <2>5, <2>6
<1>12. CASE UNCHANGED vars
  BY <1>12, UIDStutter DEF vars
<1> QED
  BY <1>2, <1>3, <1>4, <1>5, <1>6, <1>7, <1>8, <1>9, <1>10, <1>11, <1>12, UIDRestart DEF Next

\* A UID never leads to another plugin's pod, in events and in the runtime objects
\* that remember it: a failure Event finds the plugin whose pod it is about.
THEOREM UIDInvariantHolds == Spec => []UIDInvariant
<1>1. Init => UIDInvariant
  BY UIDInit
<1>2. TypeOK /\ TypeOK' /\ UIDInvariant /\ [Next]_vars => UIDInvariant'
  BY UIDNext DEF UIDContext
<1> QED  BY <1>1, <1>2, TypeCorrect, PTL DEF Spec

-----------------------------------------------------------------------------
(* Reports                                                                 *)

\* What the induction assumes; PodsNext gives the pods after the step.
ReportContext ==
  /\ PodContext
  /\ ReportInvariant
  /\ "delete" \notin Faults

GoneReported ==
  \A r \in loaded : Deletions(podEvents, r.name, r.goal) # {} => r \in reported

\* No new event that a pod is gone, and no outcome is forgotten.
LEMMA ReportFrame ==
  ASSUME ReportContext, loaded' \subseteq loaded, reported \subseteq reported',
         \A n, g : Deletions(podEvents', n, g) # {} => Deletions(podEvents, n, g) # {}
  PROVE  GoneReported'
BY DEF ReportContext, ReportInvariant, GoneReported

LEMMA ReportHandled ==
  ASSUME ReportContext, podEvents # <<>>, podEvents' = Tail(podEvents),
         loaded' \subseteq loaded, reported \subseteq reported'
  PROVE  GoneReported'
<1>1. podEvents \in Seq(PodEvent)
  BY DEF ReportContext, PodContext, QueueContext, TypeOK, KubeTypeOK
<1> QED  BY <1>1, HandledEvent, ReportFrame

\* The event of one object is still waiting: it is scheduled, hence not inactive.
LEMMA GoneNotInactive ==
  ASSUME ReportContext, NEW r \in loaded, Deletions(podEvents, r.name, r.goal) # {}
  PROVE  InScheduled(r) /\ status[r] # Inactive
<1>1. r \in Runtime /\ r.name \in Name /\ r.goal \in Goal /\ r.goal # NoGoal /\ r.goal \in goals
  BY LoadedObject DEF ReportContext
<1>2. IsScheduled(r.name, r.goal)
  BY <1>1 DEF ReportContext, PodContext, PodsInvariant
<1>3. InScheduled(r)
  BY <1>1, <1>2, NotScheduled DEF ReportContext
<1> QED
  BY <1>1, <1>3 DEF ReportContext, PodContext, QueueContext, QueueInvariant, QueuesMatchStatus

\* The pod with the name of a loaded object's pod is of its goal.
LEMMA PodOfObject ==
  ASSUME ReportContext, NEW r \in loaded, NEW p \in pods, PodName(p) = <<r.name, JobID(r.goal)>>
  PROVE  p.name = r.name /\ p.goal = r.goal
<1>1. r \in Runtime /\ r.goal # NoGoal /\ r.goal \in goals
  BY LoadedObject DEF ReportContext
<1>2. PICK s \in ToSet(scheduledPlugins) : s.name = p.name /\ s.goal = p.goal
  BY ScheduledEntry DEF ReportContext, PodContext, PodsInvariant, PodsAreManaged
<1>3. s \in Runtime /\ InScheduled(s)
  BY <1>2, ScheduledTypes DEF ReportContext
<1>4. s.name = r.name /\ p.name = r.name
  BY <1>2 DEF PodName
<1>5. r = s
  BY <1>1, <1>3, <1>4, NameDetermines DEF ReportContext, PodContext
<1> QED  BY <1>2, <1>4, <1>5

\* Whoever deletes a pod has reported the outcome of its plugin.
LEMMA ReportTerminated ==
  ASSUME ReportContext, NEW r \in loaded, r \in reported', reported \subseteq reported',
         loaded' = loaded, NEW pending, Pending(pending),
         TerminatePod(<<r.name, JobID(r.goal)>>, pending)
  PROVE  GoneReported'
<1>1. \A s \in loaded : s.goal \in Goal /\ s.name \in Name
  BY DEF ReportContext, PodContext, QueueContext, TypeOK, QueueInvariant, Runtime
<1>2. \A s \in loaded : Deletions(pending, s.name, s.goal) # {} => s \in reported
  BY <1>1 DEF Pending, ReportContext, ReportInvariant
<1>3. CASE podEvents' = pending
  BY <1>2, <1>3 DEF GoneReported
<1>4. ASSUME NEW p \in pods, PodName(p) = <<r.name, JobID(r.goal)>>,
             podEvents' = Append(pending, [type |-> "Deleted", pod |-> p])
      PROVE  GoneReported'
  <2> DEFINE e == [type |-> "Deleted", pod |-> p]
  <2>1. e \in PodEvent /\ e.type = "Deleted" /\ e.pod = p /\ pending \in Seq(PodEvent)
    BY DEF ReportContext, PodContext, QueueContext, TypeOK, KubeTypeOK, PodEvent, Pending
  <2>2. podEvents' = Append(pending, e)
    BY <1>4
  <2> HIDE DEF e
  <2>3. p.name = r.name /\ p.goal = r.goal
    BY <1>4, PodOfObject
  <2>4. ASSUME NEW s \in loaded, Deletions(podEvents', s.name, s.goal) # {}
        PROVE  s \in reported'
    <3>1. CASE s.name = r.name /\ s.goal = r.goal
      <4>1. s = r
        BY <3>1 DEF ReportContext, PodContext, QueueContext, QueueInvariant
      <4> QED  BY <4>1
    <3>2. CASE ~ (s.name = r.name /\ s.goal = r.goal)
      <4>1. Deletions(podEvents', s.name, s.goal) = Deletions(pending, s.name, s.goal)
        BY <2>1, <2>2, <2>3, <3>2, DeletionEvent
      <4> QED  BY <1>2, <2>4, <4>1
    <3> QED  BY <3>1, <3>2
  <2> QED  BY <2>4 DEF GoneReported
<1> QED  BY <1>3, <1>4 DEF TerminatePod

\* A goal is registered when nothing of it is left.
LEMMA ReportBulkGoal ==
  ASSUME ReportContext, NEW g \in Goal, BulkGoal(g)
  PROVE  GoneReported'
<1>1. UNCHANGED <<podEvents, reported>>
  BY DEF BulkGoal, kubeVars, runtimeVars
<1>2. CASE loaded' = loaded
  BY <1>1, <1>2, ReportFrame
<1>3. CASE Register(g, goals) /\ g \notin goals
  <2>1. \A n \in Name : Deletions(podEvents, n, g) = {}
    <3> SUFFICES ASSUME NEW n \in Name, Deletions(podEvents, n, g) # {} PROVE FALSE
      OBVIOUS
    <3>1. IsScheduled(n, g)
      BY DEF ReportContext, PodContext, PodsInvariant
    <3>2. PICK s \in ToSet(scheduledPlugins) : s.goal = g
      BY <3>1, ScheduledEntry
    <3>3. s \in Runtime /\ InScheduled(s) /\ s.goal # NoGoal
      BY <3>2, ScheduledTypes, KubernetesAssumption DEF ReportContext
    <3> QED
      BY <1>3, <3>2, <3>3
         DEF ReportContext, PodContext, QueueContext, QueueInvariant, QueuesMatchStatus
  <2>2. \A r \in loaded' : r \in loaded \/ (r.goal = g /\ r.name \in Name)
    BY <1>3 DEF Register, Runtime
  <2> QED  BY <1>1, <2>1, <2>2 DEF GoneReported, ReportContext, ReportInvariant
<1> QED  BY <1>2, <1>3 DEF BulkGoal, goalVars

\* A plugin is triggered when no pod of its last run and no event of it is left.
LEMMA ReportQueuePlugin ==
  ASSUME ReportContext, NEW r \in Runtime, QueuePlugin(r)
  PROVE  GoneReported'
<1>1. /\ r \in loaded /\ status[r] = Inactive
      /\ reported' = reported \ {r} /\ UNCHANGED <<podEvents, loaded>>
  BY DEF QueuePlugin, kubeVars, goalVars
<1>2. Deletions(podEvents, r.name, r.goal) = {}
  BY <1>1, GoneNotInactive
<1> QED  BY <1>1, <1>2 DEF GoneReported, ReportContext, ReportInvariant

\* A launch goroutine deletes no pod of a goal.
LEMMA ReportAbortPod ==
  ASSUME ReportContext, NEW r \in Runtime, AbortPod(r)
  PROVE  GoneReported'
<1>1. /\ UNCHANGED <<loaded, reported>> /\ Busy(r)
      /\ TerminatePod(<<r.name, JobID(r.goal)>>, podEvents)
  BY DEF AbortPod, goalVars, runtimeVars, Busy
<1>2. CASE podEvents' = podEvents
  BY <1>1, <1>2, ReportFrame
<1>3. ASSUME NEW p \in pods, PodName(p) = <<r.name, JobID(r.goal)>>,
             podEvents' = Append(podEvents, [type |-> "Deleted", pod |-> p])
      PROVE  GoneReported'
  <2> DEFINE e == [type |-> "Deleted", pod |-> p]
  <2>1. p.goal \in Goal \cup {NoGoal} /\ podEvents \in Seq(PodEvent)
    BY DEF ReportContext, PodContext, QueueContext, TypeOK, KubeTypeOK, Pod
  <2>2. e \in PodEvent /\ e.type = "Deleted" /\ e.pod = p
    BY DEF ReportContext, PodContext, QueueContext, TypeOK, KubeTypeOK, PodEvent
  <2>3. podEvents' = Append(podEvents, e)
    BY <1>3
  <2> HIDE DEF e
  <2>4. r.goal = NoGoal
    BY <1>1, <1>3, BusyHasNoPod DEF PodExists, ReportContext
  <2>5. JobID(p.goal) = NoJob
    BY <1>3, <2>4 DEF PodName, JobID
  <2>6. p.goal = NoGoal
    BY <2>1, <2>5, KubernetesAssumption DEF JobID
  <2>7. \A s \in loaded : s.goal # p.goal
    BY <2>6, KubernetesAssumption DEF ReportContext, PodContext, QueueContext, QueueInvariant
  <2>8. \A s \in loaded :
          Deletions(podEvents', s.name, s.goal) = Deletions(podEvents, s.name, s.goal)
    BY <2>1, <2>2, <2>3, <2>7, DeletionEvent
  <2> QED  BY <1>1, <2>8 DEF GoneReported, ReportContext, ReportInvariant
<1> QED  BY <1>1, <1>2, <1>3 DEF TerminatePod

LEMMA ReportCreatePod ==
  ASSUME ReportContext, NEW r \in Runtime, CreatePod(r)
  PROVE  GoneReported'
<1>1. loaded' = loaded /\ reported \subseteq reported'
  BY DEF CreatePod, goalVars
<1>2. podEvents' = podEvents \/ PodCreated(r.name, r.goal)
  BY DEF CreatePod
<1>3. CASE podEvents' = podEvents
  BY <1>1, <1>3, ReportFrame
<1>4. CASE PodCreated(r.name, r.goal)
  <2> DEFINE p == [name |-> r.name, goal |-> r.goal, uid |-> uids + 1, view |-> "created"]
             e == [type |-> "Added", pod |-> p]
  <2>1. podEvents' = Append(podEvents, e) /\ p \in pods' /\ e.type # "Deleted"
    BY <1>4 DEF PodCreated
  <2>2. pods' \subseteq Pod /\ podEvents \in Seq(PodEvent)
    BY DEF ReportContext, PodContext, QueueContext, TypeOK, KubeTypeOK
  <2>3. e \in PodEvent
    BY <2>1, <2>2 DEF PodEvent
  <2> HIDE DEF e
  <2>4. \A n, g : Deletions(podEvents', n, g) = Deletions(podEvents, n, g)
    BY <2>1, <2>2, <2>3, OtherEvent
  <2> QED  BY <1>1, <2>4, ReportFrame
<1> QED  BY <1>2, <1>3, <1>4

\* Events: a pod is deleted when its completion or failure is published.
LEMMA ReportPodModified ==
  ASSUME ReportContext, NEW r \in loaded, PodModified(r)
  PROVE  GoneReported'
<1>1. /\ podEvents # <<>> /\ loaded' = loaded
      /\ r.name = Head(podEvents).pod.name /\ r.goal = Head(podEvents).pod.goal
  BY DEF PodModified, ReceivePodEvent, Manages, goalVars
<1>2. /\ reported \subseteq reported'
      /\ \/ podEvents' = Tail(podEvents)
         \/ /\ r \in reported'
            /\ TerminatePod(PodName(Head(podEvents).pod), Tail(podEvents))
  BY DEF PodModified, ReportedAfter
<1>3. PodName(Head(podEvents).pod) = <<r.name, JobID(r.goal)>>
  BY <1>1 DEF PodName
<1>4. Pending(Tail(podEvents))
  BY <1>1, PendingEvents DEF ReportContext
<1> QED  BY <1>1, <1>2, <1>3, <1>4, ReportHandled, ReportTerminated

LEMMA ReportReceiveKubeEvent ==
  ASSUME ReportContext, ReceiveKubeEvent
  PROVE  GoneReported'
<1>1. loaded' = loaded /\ kubeEvents \in Seq(KubeEvent) /\ kubeEvents # <<>>
  BY DEF ReceiveKubeEvent, goalVars, ReportContext, PodContext, QueueContext, TypeOK, KubeTypeOK
<1>2. Head(kubeEvents) \in ToSet(kubeEvents)
  BY <1>1, TailProperties
<1>3. CASE UNCHANGED <<reported, podEvents>>
  BY <1>1, <1>3, ReportFrame
<1>4. ASSUME NEW r \in loaded, podUID[r] = Head(kubeEvents).uid, reported' = reported \cup {r},
             TerminatePod(Head(kubeEvents).podName, podEvents)
      PROVE  GoneReported'
  <2>1. r \in Runtime
    BY DEF ReportContext, PodContext, QueueContext, TypeOK
  <2>2. Head(kubeEvents).podName = <<r.name, JobID(r.goal)>>
    BY <1>2, <1>4, <2>1 DEF ReportContext, ReportInvariant, UIDInvariant
  <2>3. Pending(podEvents)
    BY PendingEvents DEF ReportContext
  <2> QED  BY <1>1, <1>4, <2>2, <2>3, ReportTerminated
<1> QED  BY <1>3, <1>4 DEF ReceiveKubeEvent

LEMMA ReportCluster ==
  ASSUME ReportContext, Cluster
  PROVE  GoneReported'
<1>1. UNCHANGED <<loaded, reported>>
  BY DEF Cluster, goalVars, runtimeVars
<1>2. PICK p \in pods : PodProgress(p) \/ PodWarning(p)
  BY DEF Cluster, PodDeletedByOthers, ReportContext
<1>3. CASE PodWarning(p)
  BY <1>1, <1>3, ReportFrame DEF PodWarning
<1>4. CASE PodProgress(p)
  <2>1. PICK v \in MayFollow(p.view) :
          /\ pods' = (pods \ {p}) \cup {[p EXCEPT !.view = v]}
          /\ podEvents' = Append(podEvents, [type |-> "Modified", pod |-> [p EXCEPT !.view = v]])
    BY <1>4 DEF PodProgress
  <2> DEFINE q == [p EXCEPT !.view = v]
             e == [type |-> "Modified", pod |-> q]
  <2>2. q \in pods' /\ pods' \subseteq Pod /\ podEvents \in Seq(PodEvent)
    BY <2>1 DEF ReportContext, PodContext, QueueContext, TypeOK, KubeTypeOK
  <2>3. e \in PodEvent /\ e.type # "Deleted" /\ podEvents' = Append(podEvents, e)
    BY <2>1, <2>2 DEF PodEvent
  <2> HIDE DEF e
  <2>4. \A n, g : Deletions(podEvents', n, g) = Deletions(podEvents, n, g)
    BY <2>2, <2>3, OtherEvent
  <2> QED  BY <1>1, <2>4, ReportFrame
<1> QED  BY <1>2, <1>3, <1>4

\* Every step of the node and of its cluster.
LEMMA ReportNext == ReportContext /\ [Next]_vars => GoneReported'
<1> SUFFICES ASSUME ReportContext, [Next]_vars PROVE GoneReported'
  OBVIOUS
<1> USE DEF kubeVars, goalVars, runtimeVars
<1>1. CASE \/ \E G \in GoalLists : CloudSendsGoals(G)
           \/ ReceiveFromCloud
           \/ ReceiveConfigMap
           \/ TriggerScheduling
  BY <1>1, ReportFrame
     DEF CloudSendsGoals, ReceiveFromCloud, ReceiveConfigMap, TriggerScheduling
<1>2. CASE HandleGoals
  <2>1. ~ CleanDone /\ \A n \in Name : ~ CleanPlugin(n)
    BY DEF CleanDone, CleanPlugin, ReportContext, PodContext, PodsInvariant, GoalsInvariant
  <2>2. CASE BulkRemove
    BY <2>2, ReportFrame DEF BulkRemove
  <2> QED  BY <1>2, <2>1, <2>2, ReportBulkGoal DEF HandleGoals
<1>3. CASE RulesEvaluated \/ IdleTick
  BY <1>3, ReportFrame DEF RulesEvaluated, IdleTick, vars
<1>4. CASE Schedule
  <2>1. CASE StartScheduling
    BY <2>1, ReportFrame DEF StartScheduling
  <2>2. CASE SelectNext \/ SelectDone
    BY <2>2, ReportFrame DEF SelectNext, SelectDone
  <2>3. CASE LaunchNext \/ LaunchDone
    BY <2>3, ReportFrame DEF LaunchNext, LaunchDone
  <2> QED  BY <1>4, <2>1, <2>2, <2>3 DEF Schedule
<1>5. CASE HandlePodEvent
  <2>1. CASE IgnorePodEvent
    BY <2>1, ReportHandled DEF IgnorePodEvent
  <2>2. ASSUME NEW r \in loaded, PodAdded(r) PROVE GoneReported'
    BY <2>2, ReportHandled DEF PodAdded, ReceivePodEvent
  <2>3. ASSUME NEW r \in loaded, PodDeleted(r) PROVE GoneReported'
    BY <2>3, ReportHandled DEF PodDeleted, ReceivePodEvent, ReportedAfter
  <2> QED  BY <1>5, <2>1, <2>2, <2>3, ReportPodModified DEF HandlePodEvent
<1>6. CASE API
  <2>1. ASSUME NEW n \in APINames, APISchedule(n) PROVE GoneReported'
    BY <2>1, ReportFrame DEF APISchedule
  <2>2. CASE APITrigger
    BY <2>2, ReportFrame DEF APITrigger
  <2>3. ~ \E g \in APIGoals : APIAddGoal(g)
    BY DEF ReportContext, PodContext, QueueContext, NoPostedGoals
  <2> QED  BY <1>6, <2>1, <2>2, <2>3 DEF API
<1>7. CASE Restart
  BY <1>7 DEF Restart, GoneReported
<1>8. CASE UNCHANGED vars
  BY <1>8, ReportFrame DEF vars
<1> QED
  BY <1>1, <1>2, <1>3, <1>4, <1>5, <1>6, <1>7, <1>8, ReportQueuePlugin, ReportCreatePod,
     ReportAbortPod, ReportReceiveKubeEvent, ReportCluster DEF Next, EvaluateRules, Launch

\* The invariant of the reports holds in every reachable state.
THEOREM ReportInvariantHolds ==
  ASSUME UniqueNames, NoPostedGoals, FixedGoals, NoLeftovers, "delete" \notin Faults
  PROVE  Spec => []ReportInvariant
<1>1. Init => ReportInvariant
  <2> SUFFICES ASSUME Init PROVE ReportInvariant
    OBVIOUS
  <2>1. loaded = {}
    BY DEF Init
  <2> QED  BY <2>1, PodsInit, UIDInit DEF ReportInvariant
<1>2. /\ TypeOK /\ TypeOK' /\ QueueInvariant /\ PodsInvariant /\ PodsInvariant'
      /\ UIDInvariant' /\ ReportInvariant /\ [Next]_vars
      => ReportInvariant'
  <2> SUFFICES ASSUME TypeOK, TypeOK', QueueInvariant, PodsInvariant, PodsInvariant',
                      UIDInvariant', ReportInvariant, [Next]_vars
               PROVE  ReportInvariant'
    OBVIOUS
  <2>1. ReportContext
    BY DEF ReportContext, PodContext, QueueContext, PodsInvariant
  <2>2. GoneReported'
    BY <2>1, ReportNext
  <2> QED  BY <2>2 DEF ReportInvariant, GoneReported
<1> QED
  BY <1>1, <1>2, TypeCorrect, QueueInvariantHolds, PodsInvariantHolds, UIDInvariantHolds,
     PTL DEF Spec

\* No event but Inactive leads to the state inactive.
LEMMA NotDeactivated ==
  ASSUME TypeOK, NEW s \in Runtime, NEW e, e # Inactive,
         status' = [status EXCEPT ![s] = After(@, e)], NEW r \in Runtime, status'[r] = Inactive
  PROVE  status[r] = Inactive
BY DEF TypeOK, After

\* Only the end of its pod makes an object inactive, or a restart, which forgets it.
LEMMA Deactivated ==
  ASSUME TypeOK, [Next]_vars, NEW r \in loaded, r \in loaded',
         status[r] # Inactive, status'[r] = Inactive
  PROVE  PodDeleted(r)
<1> USE DEF runtimeVars
<1> HIDE DEF TypeOK
<1>1. r \in Runtime
  BY DEF TypeOK
<1>2. ~ UNCHANGED status
  OBVIOUS
<1>3. ~ (\E G \in GoalLists : CloudSendsGoals(G)) /\ ~ ReceiveFromCloud /\ ~ ReceiveConfigMap
  BY <1>2 DEF CloudSendsGoals, ReceiveFromCloud, ReceiveConfigMap
<1>4. ~ HandleGoals
  BY <1>2 DEF HandleGoals, BulkGoal, BulkRemove, CleanPlugin, CleanDone
<1>5. ~ EvaluateRules
  <2>1. ASSUME NEW s \in Runtime, QueuePlugin(s) PROVE FALSE
    <3>1. status' = [status EXCEPT ![s] = Queued] /\ Queued # Inactive
      BY <2>1 DEF QueuePlugin, Queued, Inactive
    <3>2. status \in [Runtime -> PluginState]
      BY DEF TypeOK
    <3> QED  BY <1>1, <3>1, <3>2
  <2>2. ~ RulesEvaluated /\ ~ IdleTick
    BY <1>2 DEF RulesEvaluated, IdleTick, vars
  <2> QED  BY <2>1, <2>2 DEF EvaluateRules
<1>6. ~ TriggerScheduling /\ ~ Schedule
  BY <1>2 DEF TriggerScheduling, Schedule, StartScheduling, SelectNext, SelectDone, LaunchNext,
              LaunchDone
<1>7. ~ Launch
  BY <1>2 DEF Launch, CreatePod, AbortPod
<1>8. ~ API
  BY <1>2 DEF API, APISchedule, APITrigger, APIAddGoal
<1>9. ~ Restart /\ ~ Cluster
  BY <1>2 DEF Restart, Cluster
<1>10. ~ ReceiveKubeEvent
  <2> SUFFICES ASSUME ReceiveKubeEvent PROVE FALSE
    OBVIOUS
  <2>1. PICK s \in loaded : status' = [status EXCEPT ![s] = After(@, Failed)]
    BY <1>2 DEF ReceiveKubeEvent
  <2>2. s \in Runtime /\ Failed # Inactive
    BY DEF TypeOK, Failed, Inactive
  <2> QED  BY <1>1, <2>1, <2>2, NotDeactivated
<1>11. ASSUME HandlePodEvent PROVE PodDeleted(r)
  <2>1. ~ IgnorePodEvent
    BY <1>2 DEF IgnorePodEvent
  <2>2. PICK s \in loaded : PodAdded(s) \/ PodModified(s) \/ PodDeleted(s)
    BY <1>11, <2>1 DEF HandlePodEvent
  <2>3. s \in Runtime
    BY DEF TypeOK
  <2>4. ~ PodAdded(s)
    <3> SUFFICES ASSUME PodAdded(s) PROVE FALSE
      OBVIOUS
    <3>1. status' = [status EXCEPT ![s] = After(@, Scheduled)] /\ Scheduled # Inactive
      BY DEF PodAdded, Scheduled, Inactive
    <3> QED  BY <1>1, <2>3, <3>1, NotDeactivated
  <2>5. ~ PodModified(s)
    <3> SUFFICES ASSUME PodModified(s) PROVE FALSE
      OBVIOUS
    <3>1. PICK e \in EventsOfView(Head(podEvents).pod.view) :
            status' = [status EXCEPT ![s] = After(@, e)]
      BY <1>2 DEF PodModified
    <3>2. e \in {Initializing, Running, Completed, Failed}
      BY DEF EventsOfView
    <3>3. e # Inactive
      BY <3>2 DEF Initializing, Running, Completed, Failed, Inactive
    <3> QED  BY <1>1, <2>3, <3>1, <3>3, NotDeactivated
  <2>6. status' = [status EXCEPT ![s] = After(After(status[s], Failed), Inactive)]
    BY <2>2, <2>4, <2>5 DEF PodDeleted
  <2>7. status \in [Runtime -> PluginState]
    BY DEF TypeOK
  <2>8. s = r
    BY <1>1, <2>3, <2>6, <2>7
  <2> QED  BY <2>2, <2>4, <2>5, <2>8
<1> QED
  BY <1>2, <1>3, <1>4, <1>5, <1>6, <1>7, <1>8, <1>9, <1>10, <1>11 DEF Next, vars

\* A plugin becomes inactive at the end of its pod, and by then the outcome of its
\* run has been published.
THEOREM OutcomeReportedHolds ==
  ASSUME UniqueNames, NoPostedGoals, FixedGoals, NoLeftovers, "delete" \notin Faults
  PROVE  Spec => OutcomeReported
<1> DEFINE A == \A r \in loaded \cap loaded' :
                  status[r] # Inactive /\ status'[r] = Inactive => r \in reported'
<1>1. TypeOK /\ QueueInvariant /\ ReportInvariant /\ [Next]_vars => [A]_vars
  <2> SUFFICES ASSUME TypeOK, QueueInvariant, ReportInvariant, [Next]_vars,
                      NEW r \in loaded, r \in loaded',
                      status[r] # Inactive, status'[r] = Inactive
               PROVE  r \in reported'
    OBVIOUS
  <2>1. PodDeleted(r)
    BY Deactivated
  <2>2. /\ podEvents # <<>> /\ Head(podEvents).type = "Deleted"
        /\ Head(podEvents).pod.name = r.name /\ Head(podEvents).pod.goal = r.goal
        /\ reported \subseteq reported'
    BY <2>1 DEF PodDeleted, ReceivePodEvent, Manages, ReportedAfter
  <2>3. podEvents \in Seq(PodEvent) /\ r.name \in Name /\ r.goal \in Goal
    BY DEF TypeOK, KubeTypeOK, Runtime, QueueInvariant
  <2>4. OneDeletion(podEvents, r.name, r.goal)
    BY <2>3 DEF ReportInvariant, PodsInvariant, OneDeletion
  <2>5. Deletions(podEvents, r.name, r.goal) # {}
    BY <2>2, <2>3, <2>4, HandledEvent
  <2> QED  BY <2>2, <2>5 DEF ReportInvariant
<1> HIDE DEF A
<1>2. Spec => [][A]_vars
  BY <1>1, TypeCorrect, QueueInvariantHolds, ReportInvariantHolds, PTL DEF Spec
<1> QED  BY <1>2 DEF OutcomeReported, A
=============================================================================
