------------------------- MODULE NodeSchedulerProofs -------------------------
(***************************************************************************)
(* Proofs about NodeScheduler: what its operations do to a queue, its      *)
(* types, and the queue discipline, for all goals, plugins, policies,      *)
(* faults and bounds; the queue discipline for those that satisfy          *)
(* UniqueNames and NoPostedGoals.                                          *)
(***************************************************************************)
EXTENDS NodeSchedulerProperties, SequenceTheorems, FiniteSetTheorems,
        WellFoundedInduction, TLAPS

-----------------------------------------------------------------------------
(* The operations of PluginQueue, for queues over any set S                *)

\* Cutting out the i-th entry keeps the others in order.
LEMMA RemoveAtProperties ==
  ASSUME NEW S, NEW q \in Seq(S), NEW i \in 1..Len(q)
  PROVE  /\ RemoveAt(q, i) \in Seq(S)
         /\ Len(RemoveAt(q, i)) = Len(q) - 1
         /\ \A j \in 1..(Len(q) - 1) :
              RemoveAt(q, i)[j] = IF j < i THEN q[j] ELSE q[j + 1]
<1> DEFINE s == SubSeq(q, 1, i - 1)
           t == SubSeq(q, i + 1, Len(q))
<1>1. /\ s \in Seq(S)
      /\ Len(s) = i - 1
      /\ \A j \in 1..(i - 1) : s[j] = q[j]
  <2>1. \A j \in 1..(i - 1) : q[j] \in S
    BY ElementOfSeq
  <2> QED  BY <2>1, SubSeqProperties, LenProperties
<1>2. /\ t \in Seq(S)
      /\ Len(t) = Len(q) - i
      /\ \A j \in 1..(Len(q) - i) : t[j] = q[i + j]
  <2>1. \A j \in (i + 1)..Len(q) : q[j] \in S
    BY ElementOfSeq
  <2>2. /\ t \in Seq(S)
        /\ Len(t) = IF i + 1 <= Len(q) THEN Len(q) - (i + 1) + 1 ELSE 0
        /\ \A j \in 1..(Len(q) - (i + 1) + 1) : t[j] = q[(i + 1) + j - 1]
    BY <2>1, SubSeqProperties, LenProperties
  <2> QED  BY <2>2, LenProperties
<1>3. /\ s \o t \in Seq(S)
      /\ Len(s \o t) = Len(q) - 1
      /\ \A j \in 1..(Len(q) - 1) :
           (s \o t)[j] = IF j < i THEN q[j] ELSE q[j + 1]
  <2>1. /\ s \o t \in Seq(S)
        /\ Len(s \o t) = Len(s) + Len(t)
        /\ \A j \in 1..(Len(s) + Len(t)) :
             (s \o t)[j] = IF j <= Len(s) THEN s[j] ELSE t[j - Len(s)]
    BY <1>1, <1>2, ConcatProperties
  <2> HIDE DEF s, t
  <2> QED  BY <1>1, <1>2, <2>1, LenProperties
<1> QED  BY <1>3 DEF RemoveAt

\* Every non-empty set of positions has a smallest one: of the intervals 1..i
\* that end in the set, one holds no other.
LEMMA SmallestPosition ==
  ASSUME NEW n \in Nat, NEW T \in SUBSET (1..n), T # {}
  PROVE  \E i \in T : \A j \in T : i <= j
<1> DEFINE S == 1..n
           X == {1..i : i \in T}
           R == StrictSubsetOrdering(S)
<1>1. IsFiniteSet(S)
  BY FS_Interval
<1>2. X \subseteq FiniteSubsetsOf(S)
  <2>1. X \subseteq SUBSET S
    OBVIOUS
  <2> QED  BY <1>1, <2>1, FS_FiniteSubsetsOfFinite
<1>3. IsWellFoundedOn(R, FiniteSubsetsOf(S))
  BY FS_StrictSubsetOrderingWellFounded
<1>4. X # {}
  OBVIOUS
<1>5. PICK U \in X : \A V \in X : ~ (<<V, U>> \in R)
  <2> HIDE DEF X, R
  <2> QED  BY <1>2, <1>3, <1>4, WFMin
<1>6. PICK i \in T : U = 1..i
  OBVIOUS
<1>7. ASSUME NEW j \in T, j < i
      PROVE  FALSE
  <2>1. 1..j \subseteq 1..i /\ i \in 1..i /\ i \notin 1..j
    BY <1>7
  <2>2. 1..j \in SUBSET S /\ 1..i \in SUBSET S
    OBVIOUS
  <2>3. <<1..j, 1..i>> \in R
    BY <2>1, <2>2 DEF StrictSubsetOrdering
  <2> QED  BY <1>5, <1>6, <2>3
<1> QED  BY <1>7

\* FirstNamed is the position of the oldest entry of that name.
LEMMA FirstNamedProperties ==
  ASSUME NEW S, NEW q \in Seq(S), NEW n, HasName(q, n)
  PROVE  /\ FirstNamed(q, n) \in 1..Len(q)
         /\ q[FirstNamed(q, n)].name = n
         /\ \A j \in 1..Len(q) : q[j].name = n => FirstNamed(q, n) <= j
<1> DEFINE T == {i \in 1..Len(q) : q[i].name = n}
<1>1. DOMAIN q = 1..Len(q) /\ Len(q) \in Nat
  BY LenProperties
<1>2. T \in SUBSET (1..Len(q)) /\ T # {}
  BY <1>1 DEF HasName
<1>3. \E i \in T : \A j \in T : i <= j
  <2> HIDE DEF T
  <2> QED  BY <1>1, <1>2, SmallestPosition
<1>4. \E i \in DOMAIN q :
        /\ q[i].name = n
        /\ \A j \in DOMAIN q : q[j].name = n => i <= j
  BY <1>1, <1>3
<1> QED  BY <1>1, <1>4 DEF FirstNamed

\* Push adds its argument at the end.
LEMMA PushProperties ==
  ASSUME NEW S, NEW q \in Seq(S), NEW r \in S
  PROVE  /\ Push(q, r) \in Seq(S)
         /\ ToSet(Push(q, r)) = ToSet(q) \cup {r}
         /\ r \notin ToSet(q) /\ IsInjective(q) => IsInjective(Push(q, r))
<1>1. /\ Append(q, r) \in Seq(S)
      /\ Len(Append(q, r)) = Len(q) + 1
      /\ \A i \in 1..Len(q) : Append(q, r)[i] = q[i]
      /\ Append(q, r)[Len(q) + 1] = r
  BY AppendProperties
<1>2. /\ DOMAIN q = 1..Len(q) /\ Len(q) \in Nat
      /\ DOMAIN Append(q, r) = 1..(Len(q) + 1)
  BY <1>1, LenProperties
<1>3. ToSet(Append(q, r)) = ToSet(q) \cup {r}
  BY <1>1, <1>2 DEF ToSet
<1>4. r \notin ToSet(q) /\ IsInjective(q) => IsInjective(Append(q, r))
  BY <1>1, <1>2 DEF ToSet, IsInjective
<1> QED  BY <1>1, <1>3, <1>4 DEF Push

\* Pop removes at most one entry, and that has the name asked for.
LEMMA AfterPopProperties ==
  ASSUME NEW S, NEW q \in Seq(S), NEW n
  PROVE  /\ AfterPop(q, n) \in Seq(S)
         /\ ToSet(AfterPop(q, n)) \subseteq ToSet(q)
         /\ \A r \in ToSet(q) : r.name # n => r \in ToSet(AfterPop(q, n))
         /\ HasName(q, n) => /\ Popped(q, n) \in ToSet(q)
                             /\ Popped(q, n).name = n
                             /\ \A r \in ToSet(q) : r # Popped(q, n)
                                  => r \in ToSet(AfterPop(q, n))
         /\ IsInjective(q) => /\ IsInjective(AfterPop(q, n))
                              /\ HasName(q, n) =>
                                   Popped(q, n) \notin ToSet(AfterPop(q, n))
<1>1. DOMAIN q = 1..Len(q) /\ Len(q) \in Nat
  BY LenProperties
<1>2. CASE ~ HasName(q, n)
  BY <1>2 DEF AfterPop
<1>3. CASE HasName(q, n)
  <2> DEFINE i == FirstNamed(q, n)
             t == RemoveAt(q, i)
  <2>1. i \in 1..Len(q) /\ q[i].name = n
    BY <1>3, FirstNamedProperties
  <2>2. /\ t \in Seq(S)
        /\ Len(t) = Len(q) - 1
        /\ \A j \in 1..(Len(q) - 1) : t[j] = IF j < i THEN q[j] ELSE q[j + 1]
    <3> HIDE DEF i
    <3> QED  BY <2>1, RemoveAtProperties
  <2>3. AfterPop(q, n) = t /\ Popped(q, n) = q[i]
    BY <1>3 DEF AfterPop, Popped
  <2> HIDE DEF i, t
  <2>4. DOMAIN t = 1..(Len(q) - 1)
    BY <2>2, LenProperties
  <2>5. ToSet(t) \subseteq ToSet(q)
    BY <1>1, <2>1, <2>2, <2>4 DEF ToSet
  <2>6. \A r \in ToSet(q) : r # q[i] => r \in ToSet(t)
    <3> SUFFICES ASSUME NEW k \in 1..Len(q), q[k] # q[i]
                 PROVE  \E j \in 1..(Len(q) - 1) : t[j] = q[k]
      BY <1>1, <2>4 DEF ToSet
    <3>1. CASE k < i
      BY <1>1, <2>1, <2>2, <3>1
    <3>2. CASE k > i
      <4>1. k - 1 \in 1..(Len(q) - 1) /\ ~ (k - 1 < i) /\ (k - 1) + 1 = k
        BY <1>1, <2>1, <3>2
      <4> QED  BY <2>2, <4>1
    <3> QED  BY <1>1, <2>1, <3>1, <3>2
  <2>7. ASSUME IsInjective(q)
        PROVE  IsInjective(t) /\ q[i] \notin ToSet(t)
    <3>1. \A k, l \in 1..Len(q) : q[k] = q[l] => k = l
      BY <1>1, <2>7 DEF IsInjective
    <3>2. \A k, l \in 1..(Len(q) - 1) : t[k] = t[l] => k = l
      <4>1. TAKE k, l \in 1..(Len(q) - 1)
      <4>2. HAVE t[k] = t[l]
      <4>3. /\ t[k] = q[IF k < i THEN k ELSE k + 1]
            /\ t[l] = q[IF l < i THEN l ELSE l + 1]
        BY <2>2
      <4>4. /\ (IF k < i THEN k ELSE k + 1) \in 1..Len(q)
            /\ (IF l < i THEN l ELSE l + 1) \in 1..Len(q)
        BY <1>1, <2>1
      <4>5. (IF k < i THEN k ELSE k + 1) = (IF l < i THEN l ELSE l + 1)
        BY <3>1, <4>2, <4>3, <4>4
      <4> QED  BY <1>1, <2>1, <4>5
    <3>3. \A k \in 1..(Len(q) - 1) : t[k] # q[i]
      <4>1. TAKE k \in 1..(Len(q) - 1)
      <4>2. t[k] = q[IF k < i THEN k ELSE k + 1]
        BY <2>2
      <4>3. /\ (IF k < i THEN k ELSE k + 1) \in 1..Len(q)
            /\ (IF k < i THEN k ELSE k + 1) # i
        BY <1>1, <2>1
      <4> QED  BY <2>1, <3>1, <4>2, <4>3
    <3> QED  BY <2>4, <3>2, <3>3 DEF IsInjective, ToSet
  <2>8. q[i] \in ToSet(q)
    BY <1>1, <2>1 DEF ToSet
  <2> QED  BY <1>3, <2>1, <2>2, <2>3, <2>5, <2>6, <2>7, <2>8
<1> QED  BY <1>2, <1>3

-----------------------------------------------------------------------------
(* Types                                                                   *)

\* The event e leads to a state of the state machine or leaves it alone.
LEMMA AfterType ==
  ASSUME NEW s \in PluginState, NEW e \in PluginState
  PROVE  After(s, e) \in PluginState
BY DEF After

\* The head and the tail of a queue.
LEMMA HeadTailType ==
  ASSUME NEW S, NEW q \in Seq(S), q # <<>>
  PROVE  Head(q) \in S /\ Tail(q) \in Seq(S)
BY HeadTailProperties

\* A queue with one more entry.
LEMMA AppendType ==
  ASSUME NEW S, NEW q \in Seq(S), NEW r \in S
  PROVE  Append(q, r) \in Seq(S)
BY AppendProperties

\* The initial state has the types.
LEMMA TypeInit == Init => TypeOK
<1> SUFFICES ASSUME Init PROVE TypeOK
  OBVIOUS
<1>1. KubeTypeOK
  BY EmptySeq, FS_EmptySet DEF Init, KubeInit, KubeTypeOK
<1>2. NotCleaning \in [goal : Goal \cup {NoGoal}, names : SUBSET Name,
                       next : Goal \cup {NoGoal}]
  BY DEF NotCleaning
<1>3. 0 \in 0..MaxGen /\ 0 \in 0..ChannelCap
  BY NodeAssumption
<1>4. Inactive \in PluginState /\ "select" \in PC
  BY DEF PluginState, PC
<1>5. <<>> \in Seq(Runtime) /\ <<>> \in Seq(SUBSET Goal)
  BY EmptySeq
<1> QED  BY <1>1, <1>2, <1>3, <1>4, <1>5 DEF Init, TypeOK

\* The API calls and the steps of the cluster keep the types of its state.  A
\* create call that succeeds.
LEMMA TypePodCreated ==
  ASSUME KubeTypeOK, NEW n \in Name, NEW g \in Goal \cup {NoGoal}, PodCreated(n, g)
  PROVE  /\ pods' \subseteq Pod /\ IsFiniteSet(pods')
         /\ uids' \in Nat
         /\ podEvents' \in Seq(PodEvent)
<1> DEFINE p == [name |-> n, goal |-> g, uid |-> uids + 1, view |-> "created"]
<1>1. p \in Pod
  BY DEF KubeTypeOK, Pod, View
<1>2. [type |-> "Added", pod |-> p] \in PodEvent
  BY <1>1 DEF PodEvent
<1>3. Append(podEvents, [type |-> "Added", pod |-> p]) \in Seq(PodEvent)
  BY <1>2, AppendType DEF KubeTypeOK
<1>4. IsFiniteSet(pods \cup {p})
  BY FS_AddElement DEF KubeTypeOK
<1> QED  BY <1>1, <1>3, <1>4 DEF KubeTypeOK, PodCreated

\* A delete call, whether it finds the pod, misses it or fails.
LEMMA TypeTerminatePod ==
  ASSUME pods \subseteq Pod, IsFiniteSet(pods),
         NEW pending \in Seq(PodEvent), NEW pn, TerminatePod(pn, pending)
  PROVE  /\ pods' \subseteq Pod /\ IsFiniteSet(pods')
         /\ podEvents' \in Seq(PodEvent)
<1>1. \A p \in Pod : [type |-> "Deleted", pod |-> p] \in PodEvent
  BY DEF PodEvent
<1>2. \A p \in Pod : Append(pending, [type |-> "Deleted", pod |-> p]) \in Seq(PodEvent)
  BY <1>1, AppendType
<1>3. \A p : IsFiniteSet(pods \ {p})
  BY FS_RemoveElement
<1> QED  BY <1>2, <1>3 DEF TerminatePod

\* A pod moves on to a later view.
LEMMA TypePodProgress ==
  ASSUME KubeTypeOK, NEW p \in pods, PodProgress(p)
  PROVE  KubeTypeOK'
<1>1. PICK v \in MayFollow(p.view) :
        LET q == [p EXCEPT !.view = v]
        IN  /\ pods' = (pods \ {p}) \cup {q}
            /\ podEvents' = Append(podEvents, [type |-> "Modified", pod |-> q])
  BY DEF PodProgress
<1> DEFINE q == [p EXCEPT !.view = v]
<1>2. p \in Pod
  BY DEF KubeTypeOK
<1>3. v \in View
  BY <1>2 DEF MayFollow, Follows, Pod, View
<1>4. q \in Pod
  BY <1>2, <1>3 DEF Pod
<1>5. [type |-> "Modified", pod |-> q] \in PodEvent
  BY <1>4 DEF PodEvent
<1>6. podEvents' \in Seq(PodEvent)
  <2>1. podEvents' = Append(podEvents, [type |-> "Modified", pod |-> q])
    BY <1>1
  <2> HIDE DEF q
  <2> QED  BY <1>5, <2>1, AppendType DEF KubeTypeOK
<1>7. pods' \subseteq Pod /\ IsFiniteSet(pods')
  <2>1. pods' = (pods \ {p}) \cup {q}
    BY <1>1
  <2> HIDE DEF q
  <2>2. IsFiniteSet(pods \ {p})
    BY FS_RemoveElement DEF KubeTypeOK
  <2>3. IsFiniteSet((pods \ {p}) \cup {q})
    BY <2>2, FS_AddElement
  <2> QED  BY <1>4, <2>1, <2>3 DEF KubeTypeOK
<1> QED  BY <1>6, <1>7 DEF KubeTypeOK, PodProgress

\* Somebody else deletes a pod.
LEMMA TypePodDeletedByOthers ==
  ASSUME KubeTypeOK, NEW p \in pods, PodDeletedByOthers(p)
  PROVE  KubeTypeOK'
<1>1. [type |-> "Deleted", pod |-> p] \in PodEvent
  BY DEF KubeTypeOK, PodEvent
<1>2. Append(podEvents, [type |-> "Deleted", pod |-> p]) \in Seq(PodEvent)
  BY <1>1, AppendType DEF KubeTypeOK
<1>3. IsFiniteSet(pods \ {p})
  BY FS_RemoveElement DEF KubeTypeOK
<1> QED  BY <1>2, <1>3 DEF KubeTypeOK, PodDeletedByOthers

\* A failure Event is reported.
LEMMA TypePodWarning ==
  ASSUME KubeTypeOK, NEW p \in pods, PodWarning(p)
  PROVE  KubeTypeOK'
<1>1. p \in Pod
  BY DEF KubeTypeOK
<1>2. PodName(p) \in Name \X (Job \cup {NoJob})
  BY <1>1, KubernetesAssumption DEF Pod, PodName, JobID
<1>3. [uid |-> p.uid, podName |-> PodName(p)] \in KubeEvent
  BY <1>1, <1>2 DEF Pod, KubeEvent
<1>4. Append(kubeEvents, [uid |-> p.uid, podName |-> PodName(p)]) \in Seq(KubeEvent)
  BY <1>3, AppendType DEF KubeTypeOK
<1> QED  BY <1>4 DEF KubeTypeOK, PodWarning

\* One lemma for each action of NodeScheduler: it keeps the types.  A list from
\* the cloud is a set of goals.
LEMMA TypeCloudSendsGoals ==
  ASSUME TypeOK, NEW G \in GoalLists, CloudSendsGoals(G)
  PROVE  TypeOK'
<1>1. Append(fromCloud, G) \in Seq(SUBSET Goal)
  <2>1. G \in SUBSET Goal
    BY NodeAssumption
  <2> QED  BY <2>1, AppendType DEF TypeOK
<1>2. KubeTypeOK'
  BY DEF TypeOK, KubeTypeOK, CloudSendsGoals, kubeVars
<1> QED
  BY <1>1, <1>2 DEF TypeOK, CloudSendsGoals, goalVars, runtimeVars, queueVars,
     ruleVars, policyVars, bulkVars, launchVars

\* A received list is written to the config map, or lost.
LEMMA TypeReceiveFromCloud ==
  ASSUME TypeOK, ReceiveFromCloud
  PROVE  TypeOK'
<1>1. Head(fromCloud) \in SUBSET Goal /\ Tail(fromCloud) \in Seq(SUBSET Goal)
  BY HeadTailType DEF TypeOK, ReceiveFromCloud
<1>2. Append(cmEvents, Head(fromCloud)) \in Seq(SUBSET Goal)
  BY <1>1, AppendType DEF TypeOK, KubeTypeOK
<1>3. /\ configMap' \in {<<>>} \cup {<<G>> : G \in SUBSET Goal}
      /\ cmEvents' \in Seq(SUBSET Goal)
  BY <1>1, <1>2 DEF TypeOK, KubeTypeOK, ReceiveFromCloud, ConfigMapWritten
<1> QED
  BY <1>1, <1>3 DEF TypeOK, KubeTypeOK, ReceiveFromCloud, goalVars, runtimeVars,
     queueVars, ruleVars, policyVars, bulkVars, launchVars, boundVars

\* A new version of the config map starts the bulk handler.
LEMMA TypeReceiveConfigMap ==
  ASSUME TypeOK, ReceiveConfigMap
  PROVE  TypeOK'
<1>1. Head(cmEvents) \in SUBSET Goal /\ Tail(cmEvents) \in Seq(SUBSET Goal)
  BY HeadTailType DEF TypeOK, KubeTypeOK, ReceiveConfigMap
<1>2. "bulk" \in PC
  BY DEF PC
<1> QED
  BY <1>1, <1>2 DEF TypeOK, KubeTypeOK, ReceiveConfigMap, goalVars, runtimeVars,
     queueVars, chanVars, ruleVars, policyVars, launchVars, boundVars

\* A registration loads runtime objects of the next generation.
LEMMA TypeRegister ==
  ASSUME TypeOK, NEW g \in Goal, NEW G \in SUBSET Goal, Register(g, G)
  PROVE  /\ goals' \subseteq Goal
         /\ generation' \in [Goal \cup {NoGoal} -> 0..MaxGen]
         /\ loaded' \subseteq Runtime
BY NodeAssumption DEF TypeOK, Register

\* One goal of the list is handled.
LEMMA TypeBulkGoal ==
  ASSUME TypeOK, NEW g \in Goal, BulkGoal(g)
  PROVE  TypeOK'
<1>1. /\ goals' \subseteq Goal
      /\ generation' \in [Goal \cup {NoGoal} -> 0..MaxGen]
      /\ loaded' \subseteq Runtime
  BY TypeRegister DEF TypeOK, BulkGoal, goalVars
<1>2. /\ pc' \in PC
      /\ bulk' \subseteq Goal
      /\ cleaning' \in [goal : Goal \cup {NoGoal}, names : SUBSET Name,
                        next : Goal \cup {NoGoal}]
  BY NodeAssumption DEF TypeOK, BulkGoal, PC
<1> QED
  BY <1>1, <1>2 DEF TypeOK, KubeTypeOK, BulkGoal, kubeVars, runtimeVars,
     queueVars, chanVars, ruleVars, policyVars, launchVars, boundVars

\* A goal that the list does not hold is cleaned up, or the list is done.
LEMMA TypeBulkRemove ==
  ASSUME TypeOK, BulkRemove
  PROVE  TypeOK'
<1>1. /\ pc' \in PC
      /\ keep' \subseteq Goal
      /\ cleaning' \in [goal : Goal \cup {NoGoal}, names : SUBSET Name,
                        next : Goal \cup {NoGoal}]
  BY NodeAssumption DEF TypeOK, BulkRemove, PC
<1> QED
  BY <1>1 DEF TypeOK, KubeTypeOK, BulkRemove, kubeVars, goalVars, runtimeVars,
     queueVars, chanVars, ruleVars, policyVars, launchVars, boundVars

\* Clean-up takes one plugin out of the queues.
LEMMA TypeCleanPlugin ==
  ASSUME TypeOK, NEW n \in Name, CleanPlugin(n)
  PROVE  TypeOK'
<1>1. cleaning' \in [goal : Goal \cup {NoGoal}, names : SUBSET Name,
                     next : Goal \cup {NoGoal}]
  BY DEF TypeOK, CleanPlugin
<1>2. /\ AfterPop(readyQueue, n) \in Seq(Runtime)
      /\ AfterPop(scheduledPlugins, n) \in Seq(Runtime)
  BY AfterPopProperties DEF TypeOK
<1>3. podEvents \in Seq(PodEvent) /\ pods \subseteq Pod /\ IsFiniteSet(pods)
  BY DEF TypeOK, KubeTypeOK
<1>4. pods' \subseteq Pod /\ IsFiniteSet(pods') /\ podEvents' \in Seq(PodEvent)
  BY <1>3, TypeTerminatePod DEF CleanPlugin
<1>5. /\ readyQueue' \in Seq(Runtime)
      /\ scheduledPlugins' \in Seq(Runtime)
      /\ loaded' \subseteq Runtime
      /\ reported' \subseteq Runtime
  BY <1>2 DEF TypeOK, CleanPlugin
<1> QED
  BY <1>1, <1>4, <1>5 DEF TypeOK, KubeTypeOK, CleanPlugin, chanVars, ruleVars,
     policyVars, launchVars, boundVars

\* Clean-up drops the goal and registers the one that replaces it.
LEMMA TypeCleanDone ==
  ASSUME TypeOK, CleanDone
  PROVE  TypeOK'
<1>1. /\ goals' \subseteq Goal
      /\ generation' \in [Goal \cup {NoGoal} -> 0..MaxGen]
      /\ loaded' \subseteq Runtime
  <2>1. CASE cleaning.next = NoGoal
    BY <2>1 DEF TypeOK, CleanDone
  <2>2. CASE cleaning.next # NoGoal
    <3>1. cleaning.next \in Goal /\ goals \ {cleaning.goal} \in SUBSET Goal
      BY <2>2 DEF TypeOK
    <3>2. Register(cleaning.next, goals \ {cleaning.goal})
      BY <2>2 DEF CleanDone
    <3> QED  BY <3>1, <3>2, TypeRegister
  <2> QED  BY <2>1, <2>2
<1>2. /\ "bulk" \in PC
      /\ NotCleaning \in [goal : Goal \cup {NoGoal}, names : SUBSET Name,
                          next : Goal \cup {NoGoal}]
  BY DEF PC, NotCleaning
<1> QED
  BY <1>1, <1>2 DEF TypeOK, KubeTypeOK, CleanDone, kubeVars, runtimeVars,
     queueVars, chanVars, ruleVars, policyVars, launchVars, boundVars

\* A valid rule pushes a runtime object to the ready queue.
LEMMA TypeQueuePlugin ==
  ASSUME TypeOK, NEW r \in Runtime, QueuePlugin(r)
  PROVE  TypeOK'
<1>1. Push(readyQueue, r) \in Seq(Runtime)
  BY PushProperties DEF TypeOK
<1>2. /\ Queued \in PluginState /\ "rules" \in PC
      /\ r.goal \in Goal \cup {NoGoal}
  BY DEF PluginState, PC, Runtime
<1>3. /\ status' \in [Runtime -> PluginState]
      /\ evalGoals' \subseteq Goal
      /\ evalGoal' \in Goal \cup {NoGoal}
      /\ reported' \subseteq Runtime
      /\ runs' \in Nat
  BY <1>2 DEF TypeOK, QueuePlugin
<1> QED
  BY <1>1, <1>2, <1>3 DEF TypeOK, KubeTypeOK, QueuePlugin, kubeVars, goalVars,
     chanVars, policyVars, bulkVars, launchVars

\* The tick ends.
LEMMA TypeRulesEvaluated ==
  ASSUME TypeOK, RulesEvaluated
  PROVE  TypeOK'
<1>1. "sending" \in PC
  BY DEF PC
<1> QED
  BY <1>1 DEF TypeOK, KubeTypeOK, RulesEvaluated, kubeVars, goalVars, runtimeVars,
     queueVars, chanVars, policyVars, bulkVars, launchVars, boundVars

\* The main goroutine sends only while its channel has room.
LEMMA TypeTriggerScheduling ==
  ASSUME TypeOK, TriggerScheduling
  PROVE  TypeOK'
<1>1. "select" \in PC /\ needScheduling' \in 0..ChannelCap
  BY NodeAssumption DEF TypeOK, TriggerScheduling, SendNeedScheduling, PC
<1> QED
  BY <1>1 DEF TypeOK, KubeTypeOK, TriggerScheduling, kubeVars, goalVars,
     runtimeVars, queueVars, ruleVars, policyVars, bulkVars, launchVars, boundVars

\* The policy starts; the round-robin policy takes the head of the ready queue.
LEMMA TypeStartScheduling ==
  ASSUME TypeOK, StartScheduling
  PROVE  TypeOK'
<1>1. needScheduling' \in 0..ChannelCap /\ pc' \in PC
  BY NodeAssumption DEF TypeOK, StartScheduling, PC
<1>2. readyQueue # <<>> => /\ <<Head(readyQueue)>> \in Seq(Runtime)
                           /\ Tail(readyQueue) \in Seq(Runtime)
  BY HeadTailType DEF TypeOK
<1>3. /\ toRun' \in Seq(Runtime)
      /\ readyQueue' \in Seq(Runtime)
      /\ readyIndex' \in Nat
  <2>1. readyIndex' \in {readyIndex, 0}
    BY DEF StartScheduling
  <2>2. \/ UNCHANGED <<toRun, readyQueue>>
        \/ /\ readyQueue # <<>>
           /\ toRun' = <<Head(readyQueue)>>
           /\ readyQueue' = Tail(readyQueue)
    BY DEF StartScheduling
  <2>3. CASE UNCHANGED <<toRun, readyQueue>>
    BY <2>1, <2>3 DEF TypeOK
  <2>4. CASE readyQueue # <<>> /\ toRun' = <<Head(readyQueue)>>
                              /\ readyQueue' = Tail(readyQueue)
    BY <1>2, <2>1, <2>4 DEF TypeOK
  <2> QED  BY <2>2, <2>3, <2>4
<1>4. gpuTaken' \in BOOLEAN
  BY DEF TypeOK, StartScheduling
<1> QED
  BY <1>1, <1>3, <1>4 DEF TypeOK, KubeTypeOK, StartScheduling, kubeVars, goalVars,
     runtimeVars, ruleVars, bulkVars, launchVars, boundVars

\* The policy selects or skips one entry of the ready queue.
LEMMA TypeSelectNext ==
  ASSUME TypeOK, SelectNext
  PROVE  TypeOK'
<1>1. readyQueue[readyIndex + 1] \in Runtime
  <2>1. readyIndex + 1 \in 1..Len(readyQueue)
    BY LenProperties DEF TypeOK, SelectNext
  <2> QED  BY <2>1, ElementOfSeq DEF TypeOK
<1>2. Append(toRun, readyQueue[readyIndex + 1]) \in Seq(Runtime)
  BY <1>1, AppendType DEF TypeOK
<1>3. toRun' \in Seq(Runtime) /\ readyIndex' \in Nat
  <2>1. \/ toRun' = toRun
        \/ toRun' = Append(toRun, readyQueue[readyIndex + 1])
    BY DEF SelectNext, policyVars
  <2>2. toRun' \in Seq(Runtime)
    BY <1>2, <2>1 DEF TypeOK
  <2>3. readyIndex' \in Nat
    BY DEF TypeOK, SelectNext
  <2> QED  BY <2>2, <2>3
<1>4. gpuTaken' \in BOOLEAN
  BY DEF TypeOK, SelectNext, policyVars
<1> QED
  BY <1>3, <1>4 DEF TypeOK, KubeTypeOK, SelectNext, kubeVars, goalVars,
     runtimeVars, chanVars, ruleVars, bulkVars, launchVars, boundVars

\* The policy ends.
LEMMA TypeSelectDone ==
  ASSUME TypeOK, SelectDone
  PROVE  TypeOK'
<1>1. "launching" \in PC
  BY DEF PC
<1> QED
  BY <1>1 DEF TypeOK, KubeTypeOK, SelectDone, kubeVars, goalVars, runtimeVars,
     chanVars, ruleVars, bulkVars, launchVars, boundVars

\* The entry that Pop finds by name is a runtime object.
LEMMA TypeLaunchNext ==
  ASSUME TypeOK, LaunchNext
  PROVE  TypeOK'
<1> DEFINE n == Head(toRun).name
           r == Popped(readyQueue, n)
<1>1. Tail(toRun) \in Seq(Runtime) /\ pc' \in PC
  BY HeadTailType DEF TypeOK, LaunchNext, PC
<1>2. CASE ~ HasName(readyQueue, n)
  BY <1>1, <1>2 DEF TypeOK, KubeTypeOK, LaunchNext, kubeVars, goalVars,
     runtimeVars, chanVars, ruleVars, bulkVars, launchVars, boundVars
<1>3. CASE HasName(readyQueue, n)
  <2>1. r \in Runtime
    BY <1>3, AfterPopProperties, ElementOfSeq, LenProperties DEF TypeOK, ToSet
  <2>2. AfterPop(readyQueue, n) \in Seq(Runtime)
    BY AfterPopProperties DEF TypeOK
  <2>3. Push(scheduledPlugins, r) \in Seq(Runtime)
    BY <2>1, PushProperties DEF TypeOK
  <2>4. /\ readyQueue' = AfterPop(readyQueue, n)
        /\ scheduledPlugins' = Push(scheduledPlugins, r)
        /\ creating' = [creating EXCEPT ![r] = @ + 1]
    BY <1>3 DEF LaunchNext
  <2>5. creating' \in [Runtime -> Nat]
    BY <2>1, <2>4 DEF TypeOK
  <2> HIDE DEF n, r
  <2> QED
    BY <1>1, <2>2, <2>3, <2>4, <2>5 DEF TypeOK, KubeTypeOK, LaunchNext, kubeVars,
       goalVars, runtimeVars, chanVars, ruleVars, bulkVars, boundVars
<1> QED  BY <1>2, <1>3

\* All selected plugins are launched.
LEMMA TypeLaunchDone ==
  ASSUME TypeOK, LaunchDone
  PROVE  TypeOK'
<1>1. "select" \in PC
  BY DEF PC
<1> QED
  BY <1>1 DEF TypeOK, KubeTypeOK, LaunchDone, kubeVars, goalVars, runtimeVars,
     queueVars, chanVars, ruleVars, policyVars, bulkVars, launchVars, boundVars

\* A launch goroutine creates its pod or fails.
LEMMA TypeCreatePod ==
  ASSUME TypeOK, NEW r \in Runtime, CreatePod(r)
  PROVE  TypeOK'
<1>1. /\ creating' \in [Runtime -> Nat]
      /\ aborting' \in [Runtime -> Nat]
      /\ reported' \subseteq Runtime
  <2>1. creating' = [creating EXCEPT ![r] = @ - 1] /\ creating[r] > 0
    BY DEF CreatePod
  <2>2. aborting' = aborting \/ aborting' = [aborting EXCEPT ![r] = @ + 1]
    BY DEF CreatePod
  <2>3. reported' = reported \/ reported' = reported \cup {r}
    BY DEF CreatePod
  <2>4. creating' \in [Runtime -> Nat]
    BY <2>1 DEF TypeOK
  <2>5. aborting' \in [Runtime -> Nat]
    <3>1. aborting \in [Runtime -> Nat]
      BY DEF TypeOK
    <3>2. [aborting EXCEPT ![r] = @ + 1] \in [Runtime -> Nat]
      BY <3>1
    <3> QED  BY <2>2, <3>1, <3>2
  <2>6. reported' \subseteq Runtime
    BY <2>3 DEF TypeOK
  <2> QED  BY <2>4, <2>5, <2>6
<1>2. r.name \in Name /\ r.goal \in Goal \cup {NoGoal}
  BY DEF Runtime
<1>3. /\ pods' \subseteq Pod /\ IsFiniteSet(pods')
      /\ uids' \in Nat
      /\ podEvents' \in Seq(PodEvent)
  <2>1. CASE PodCreated(r.name, r.goal)
    BY <1>2, <2>1, TypePodCreated DEF TypeOK
  <2>2. CASE UNCHANGED <<pods, uids, podEvents>>
    BY <2>2 DEF TypeOK, KubeTypeOK
  <2> QED  BY <2>1, <2>2 DEF CreatePod
<1> QED
  BY <1>1, <1>3 DEF TypeOK, KubeTypeOK, CreatePod, goalVars, queueVars, chanVars,
     ruleVars, policyVars, bulkVars, boundVars

\* A launch goroutine deletes a pod after a failure.
LEMMA TypeAbortPod ==
  ASSUME TypeOK, NEW r \in Runtime, AbortPod(r)
  PROVE  TypeOK'
<1>1. aborting' \in [Runtime -> Nat]
  BY DEF TypeOK, AbortPod
<1>2. pods' \subseteq Pod /\ IsFiniteSet(pods') /\ podEvents' \in Seq(PodEvent)
  BY TypeTerminatePod DEF TypeOK, KubeTypeOK, AbortPod
<1> QED
  BY <1>1, <1>2 DEF TypeOK, KubeTypeOK, AbortPod, goalVars, runtimeVars,
     queueVars, chanVars, ruleVars, policyVars, bulkVars, boundVars

\* A pod event that concerns no scheduled plugin is dropped.
LEMMA TypeIgnorePodEvent ==
  ASSUME TypeOK, IgnorePodEvent
  PROVE  TypeOK'
<1>1. Tail(podEvents) \in Seq(PodEvent)
  BY HeadTailType DEF TypeOK, KubeTypeOK, IgnorePodEvent
<1> QED
  BY <1>1 DEF TypeOK, KubeTypeOK, IgnorePodEvent, goalVars, runtimeVars,
     queueVars, chanVars, ruleVars, policyVars, bulkVars, launchVars, boundVars

\* The event at the head of the pod informer's queue.
LEMMA TypeReceivePodEvent ==
  ASSUME TypeOK, NEW type, ReceivePodEvent(type)
  PROVE  /\ Tail(podEvents) \in Seq(PodEvent)
         /\ Head(podEvents).pod \in Pod
<1>1. Head(podEvents) \in PodEvent /\ Tail(podEvents) \in Seq(PodEvent)
  BY HeadTailType DEF TypeOK, KubeTypeOK, ReceivePodEvent
<1> QED  BY <1>1 DEF PodEvent

\* An Added event moves the state machine and stores the UID.
LEMMA TypePodAdded ==
  ASSUME TypeOK, NEW r \in loaded, PodAdded(r)
  PROVE  TypeOK'
<1> DEFINE p == Head(podEvents).pod
<1>1. r \in Runtime /\ Scheduled \in PluginState
  BY DEF TypeOK, PluginState
<1>2. Tail(podEvents) \in Seq(PodEvent) /\ p.uid \in Nat
  BY TypeReceivePodEvent DEF PodAdded, Pod
<1>3. status' \in [Runtime -> PluginState]
  <2>1. After(status[r], Scheduled) \in PluginState
    BY <1>1, AfterType DEF TypeOK
  <2> QED  BY <1>1, <2>1 DEF TypeOK, PodAdded
<1>4. podUID' \in [Runtime -> Nat]
  <2>1. podUID \in [Runtime -> Nat]
    BY DEF TypeOK
  <2>2. podUID' = podUID \/ podUID' = [podUID EXCEPT ![r] = p.uid]
    BY DEF PodAdded
  <2> QED  BY <1>1, <1>2, <2>1, <2>2
<1> QED
  BY <1>2, <1>3, <1>4 DEF TypeOK, KubeTypeOK, PodAdded, queueVars, chanVars,
     ruleVars, policyVars, goalVars, bulkVars, launchVars, boundVars

\* An outcome is published of a runtime object.
LEMMA TypeReportedAfter ==
  ASSUME TypeOK, NEW r \in Runtime, NEW e
  PROVE  ReportedAfter(r, e) \subseteq Runtime
BY DEF TypeOK, ReportedAfter

\* A Modified event moves the state machine and may delete the pod.
LEMMA TypePodModified ==
  ASSUME TypeOK, NEW r \in loaded, PodModified(r)
  PROVE  TypeOK'
<1> DEFINE p == Head(podEvents).pod
<1>1. r \in Runtime
  BY DEF TypeOK
<1>2. Tail(podEvents) \in Seq(PodEvent)
  BY TypeReceivePodEvent DEF PodModified
<1>3. CASE UNCHANGED <<status, reported, pods>> /\ podEvents' = Tail(podEvents)
  BY <1>2, <1>3 DEF TypeOK, KubeTypeOK, PodModified, queueVars, chanVars,
     ruleVars, policyVars, goalVars, bulkVars, launchVars, boundVars
<1>4. ASSUME NEW e \in EventsOfView(p.view),
             status' = [status EXCEPT ![r] = After(@, e)],
             reported' = ReportedAfter(r, e),
             \/ TerminatePod(PodName(p), Tail(podEvents))
             \/ podEvents' = Tail(podEvents) /\ UNCHANGED pods
      PROVE  TypeOK'
  <2>1. status' \in [Runtime -> PluginState]
    <3>1. e \in PluginState
      BY DEF EventsOfView, PluginState
    <3>2. After(status[r], e) \in PluginState
      BY <1>1, <3>1, AfterType DEF TypeOK
    <3> QED  BY <1>1, <1>4, <3>2 DEF TypeOK
  <2>2. reported' \subseteq Runtime
    BY <1>1, <1>4, TypeReportedAfter
  <2>3. pods' \subseteq Pod /\ IsFiniteSet(pods') /\ podEvents' \in Seq(PodEvent)
    BY <1>2, <1>4, TypeTerminatePod DEF TypeOK, KubeTypeOK
  <2> QED
    BY <2>1, <2>2, <2>3 DEF TypeOK, KubeTypeOK, PodModified, queueVars, chanVars,
       ruleVars, policyVars, goalVars, bulkVars, launchVars, boundVars
<1> QED  BY <1>3, <1>4 DEF PodModified

\* A Deleted event frees the slot.
LEMMA TypePodDeleted ==
  ASSUME TypeOK, NEW r \in loaded, PodDeleted(r)
  PROVE  TypeOK'
<1>1. r \in Runtime
  BY DEF TypeOK
<1>2. Tail(podEvents) \in Seq(PodEvent)
  BY TypeReceivePodEvent DEF PodDeleted
<1>3. status' \in [Runtime -> PluginState]
  <2>1. Failed \in PluginState /\ Inactive \in PluginState
    BY DEF PluginState
  <2>2. After(status[r], Failed) \in PluginState
    BY <1>1, <2>1, AfterType DEF TypeOK
  <2>3. After(After(status[r], Failed), Inactive) \in PluginState
    BY <2>1, <2>2, AfterType
  <2> QED  BY <1>1, <2>3 DEF TypeOK, PodDeleted
<1>4. AfterPop(scheduledPlugins, r.name) \in Seq(Runtime)
  BY AfterPopProperties DEF TypeOK
<1>5. ReportedAfter(r, Failed) \subseteq Runtime
  BY <1>1, TypeReportedAfter
<1>6. pc' \in PC
  BY DEF TypeOK, PodDeleted, PC
<1> QED
  BY <1>2, <1>3, <1>4, <1>5, <1>6 DEF TypeOK, KubeTypeOK, PodDeleted, goalVars,
     chanVars, ruleVars, policyVars, bulkVars, launchVars, boundVars

\* A failure Event fails the plugin whose pod had its UID.
LEMMA TypeReceiveKubeEvent ==
  ASSUME TypeOK, ReceiveKubeEvent
  PROVE  TypeOK'
<1> DEFINE e == Head(kubeEvents)
<1>1. Tail(kubeEvents) \in Seq(KubeEvent)
  BY HeadTailType DEF TypeOK, KubeTypeOK, ReceiveKubeEvent
<1>2. CASE UNCHANGED <<status, reported, pods, podEvents>>
  BY <1>1, <1>2 DEF TypeOK, KubeTypeOK, ReceiveKubeEvent, goalVars, queueVars,
     chanVars, ruleVars, policyVars, bulkVars, launchVars, boundVars
<1>3. ASSUME NEW r \in loaded,
             status' = [status EXCEPT ![r] = After(@, Failed)],
             reported' = reported \cup {r},
             TerminatePod(e.podName, podEvents)
      PROVE  TypeOK'
  <2>1. r \in Runtime /\ Failed \in PluginState
    BY DEF TypeOK, PluginState
  <2>2. After(status[r], Failed) \in PluginState
    BY <2>1, AfterType DEF TypeOK
  <2>3. status' \in [Runtime -> PluginState] /\ reported' \subseteq Runtime
    BY <1>3, <2>1, <2>2 DEF TypeOK
  <2>4. pods' \subseteq Pod /\ IsFiniteSet(pods') /\ podEvents' \in Seq(PodEvent)
    BY <1>3, TypeTerminatePod DEF TypeOK, KubeTypeOK
  <2> QED
    BY <1>1, <2>3, <2>4 DEF TypeOK, KubeTypeOK, ReceiveKubeEvent, goalVars,
       queueVars, chanVars, ruleVars, policyVars, bulkVars, launchVars, boundVars
<1> QED  BY <1>2, <1>3 DEF ReceiveKubeEvent

\* A submitted plugin is one more runtime object, outside the goal manager.
LEMMA TypeAPISchedule ==
  ASSUME TypeOK, NEW n \in APINames, APISchedule(n)
  PROVE  TypeOK'
<1> DEFINE r == [name |-> n, goal |-> NoGoal, gen |-> generation[NoGoal] + 1]
<1>1. generation[NoGoal] \in 0..MaxGen /\ generation[NoGoal] < MaxGen
  BY DEF TypeOK, APISchedule
<1>2. generation[NoGoal] + 1 \in 1..MaxGen
  BY <1>1, NodeAssumption
<1>3. r \in Runtime
  BY <1>2, NodeAssumption DEF Runtime
<1>4. generation' \in [Goal \cup {NoGoal} -> 0..MaxGen]
  BY <1>2 DEF TypeOK, APISchedule
<1>5. readyQueue' \in Seq(Runtime)
  <2>1. readyQueue' = Push(readyQueue, r)
    BY DEF APISchedule
  <2> HIDE DEF r
  <2> QED  BY <1>3, <2>1, PushProperties DEF TypeOK
<1>6. readyIndex' \in Nat /\ apiSending' \in Nat
  BY DEF TypeOK, APISchedule
<1> QED
  BY <1>4, <1>5, <1>6 DEF TypeOK, KubeTypeOK, APISchedule, kubeVars, runtimeVars,
     chanVars, ruleVars, policyVars, bulkVars, launchVars, boundVars

\* An HTTP goroutine sends only while the channel has room.
LEMMA TypeAPITrigger ==
  ASSUME TypeOK, APITrigger
  PROVE  TypeOK'
<1>1. needScheduling' \in 0..ChannelCap /\ apiSending' \in Nat
  BY NodeAssumption DEF TypeOK, APITrigger, SendNeedScheduling
<1> QED
  BY <1>1 DEF TypeOK, KubeTypeOK, APITrigger, kubeVars, goalVars, runtimeVars,
     queueVars, ruleVars, policyVars, bulkVars, launchVars, boundVars

\* A posted goal enters the goal manager.
LEMMA TypeAPIAddGoal ==
  ASSUME TypeOK, NEW g \in APIGoals, APIAddGoal(g)
  PROVE  TypeOK'
<1>1. g \in Goal
  BY NodeAssumption
<1>2. /\ goals' \subseteq Goal /\ updates' \in Nat
      /\ evalGoals' \subseteq Goal /\ keep' \subseteq Goal
  BY <1>1 DEF TypeOK, APIAddGoal
<1>3. KubeTypeOK'
  BY DEF TypeOK, KubeTypeOK, APIAddGoal, kubeVars
<1> QED
  BY <1>2, <1>3 DEF TypeOK, APIAddGoal, runtimeVars, queueVars, chanVars,
     policyVars, launchVars

\* A restarted process finds the config map, or none, in its informer's list.
LEMMA TypeRestart ==
  ASSUME TypeOK, Restart
  PROVE  TypeOK'
<1>1. configMap \in Seq(SUBSET Goal)
  <2>1. \A G \in SUBSET Goal : <<G>> \in Seq(SUBSET Goal)
    OBVIOUS
  <2>2. <<>> \in Seq(SUBSET Goal)
    BY EmptySeq
  <2> QED  BY <2>1, <2>2 DEF TypeOK, KubeTypeOK
<1>2. 0 \in 0..ChannelCap /\ Inactive \in PluginState /\ "select" \in PC
  BY NodeAssumption DEF PluginState, PC
<1>3. NotCleaning \in [goal : Goal \cup {NoGoal}, names : SUBSET Name,
                       next : Goal \cup {NoGoal}]
  BY DEF NotCleaning
<1>4. KubeTypeOK'
  <2> DEFINE Listed(s) == [i \in DOMAIN s |-> [type |-> "Added", pod |-> s[i]]]
  <2>0. PICK left \in SUBSET pods :
          pods' = left /\ \E s \in SetToSeqs(left) : podEvents' = Listed(s)
    BY DEF Restart
  <2>1. PICK s \in SetToSeqs(left) : podEvents' = Listed(s)
    BY <2>0
  <2>2. /\ pods' \subseteq Pod /\ IsFiniteSet(pods')
        /\ left \subseteq Pod /\ Cardinality(left) \in Nat
    BY <2>0, FS_Subset, FS_CardinalityType DEF TypeOK, KubeTypeOK
  <2>3. s \in [1..Cardinality(left) -> left]
    BY DEF SetToSeqs
  <2>4. podEvents' \in Seq(PodEvent)
    <3>1. \A p \in Pod : [type |-> "Added", pod |-> p] \in PodEvent
      BY DEF PodEvent
    <3>2. podEvents' \in [1..Cardinality(left) -> PodEvent]
      BY <2>1, <2>2, <2>3, <3>1
    <3> QED  BY <2>2, <3>2
  <2>5. kubeEvents' \in Seq(KubeEvent)
    BY EmptySeq DEF Restart
  <2> QED  BY <1>1, <2>2, <2>4, <2>5 DEF TypeOK, KubeTypeOK, Restart
<1>5. /\ goals' \subseteq Goal /\ loaded' \subseteq Runtime
      /\ generation' \in [Goal \cup {NoGoal} -> 0..MaxGen]
      /\ evalGoals' \subseteq Goal /\ bulk' \subseteq Goal /\ keep' \subseteq Goal
      /\ reported' \subseteq Runtime
  BY DEF TypeOK, Restart
<1>6. /\ status' \in [Runtime -> PluginState]
      /\ podUID' \in [Runtime -> Nat]
      /\ creating' \in [Runtime -> Nat]
      /\ aborting' \in [Runtime -> Nat]
  BY <1>2 DEF Restart
<1>7. /\ readyQueue' \in Seq(Runtime) /\ scheduledPlugins' \in Seq(Runtime)
      /\ toRun' \in Seq(Runtime) /\ fromCloud' \in Seq(SUBSET Goal)
  BY EmptySeq DEF Restart
<1>8. /\ readyIndex' \in Nat /\ needScheduling' \in 0..ChannelCap
      /\ pc' \in PC /\ evalGoal' \in Goal \cup {NoGoal} /\ gpuTaken' \in BOOLEAN
      /\ apiSending' \in Nat
  BY <1>2 DEF Restart
<1>10. runs' \in Nat /\ updates' \in Nat /\ restarts' \in Nat
  BY DEF TypeOK, Restart
<1>9. cleaning' \in [goal : Goal \cup {NoGoal}, names : SUBSET Name,
                     next : Goal \cup {NoGoal}]
  BY <1>3 DEF Restart
<1> QED  BY <1>4, <1>5, <1>6, <1>7, <1>8, <1>9, <1>10 DEF TypeOK

\* The steps of the cluster leave the scheduler alone.
LEMMA TypeCluster ==
  ASSUME TypeOK, Cluster
  PROVE  TypeOK'
<1>1. KubeTypeOK'
  <2>1. KubeTypeOK
    BY DEF TypeOK
  <2> QED
    BY <2>1, TypePodProgress, TypePodDeletedByOthers, TypePodWarning DEF Cluster
<1> QED
  BY <1>1 DEF TypeOK, Cluster, goalVars, runtimeVars, queueVars, chanVars,
     ruleVars, policyVars, bulkVars, launchVars, boundVars

\* A step that changes nothing.
LEMMA TypeStutter ==
  ASSUME TypeOK, UNCHANGED vars
  PROVE  TypeOK'
BY DEF TypeOK, KubeTypeOK, vars, kubeVars, goalVars, runtimeVars, queueVars,
   chanVars, ruleVars, policyVars, bulkVars, launchVars, boundVars

\* Every step of the node and of its cluster keeps the types.
LEMMA TypeNext == TypeOK /\ [Next]_vars => TypeOK'
<1> SUFFICES ASSUME TypeOK, [Next]_vars PROVE TypeOK'
  OBVIOUS
<1>1. CASE \E G \in GoalLists : CloudSendsGoals(G)
  BY <1>1, TypeCloudSendsGoals
<1>2. CASE ReceiveFromCloud
  BY <1>2, TypeReceiveFromCloud
<1>3. CASE ReceiveConfigMap
  BY <1>3, TypeReceiveConfigMap
<1>4. CASE HandleGoals
  BY <1>4, TypeBulkGoal, TypeBulkRemove, TypeCleanPlugin, TypeCleanDone
     DEF HandleGoals
<1>5. CASE EvaluateRules
  BY <1>5, TypeQueuePlugin, TypeRulesEvaluated, TypeStutter
     DEF EvaluateRules, IdleTick
<1>6. CASE TriggerScheduling
  BY <1>6, TypeTriggerScheduling
<1>7. CASE Schedule
  BY <1>7, TypeStartScheduling, TypeSelectNext, TypeSelectDone, TypeLaunchNext,
     TypeLaunchDone DEF Schedule
<1>8. CASE Launch
  BY <1>8, TypeCreatePod, TypeAbortPod DEF Launch
<1>9. CASE HandlePodEvent
  BY <1>9, TypeIgnorePodEvent, TypePodAdded, TypePodModified, TypePodDeleted
     DEF HandlePodEvent
<1>10. CASE ReceiveKubeEvent
  BY <1>10, TypeReceiveKubeEvent
<1>11. CASE API
  BY <1>11, TypeAPISchedule, TypeAPITrigger, TypeAPIAddGoal DEF API
<1>12. CASE Restart
  BY <1>12, TypeRestart
<1>13. CASE Cluster
  BY <1>13, TypeCluster
<1>14. CASE UNCHANGED vars
  BY <1>14, TypeStutter
<1> QED
  BY <1>1, <1>2, <1>3, <1>4, <1>5, <1>6, <1>7, <1>8, <1>9, <1>10, <1>11, <1>12,
     <1>13, <1>14 DEF Next

\* Every variable of the node and of its cluster stays in its type, for all
\* goals, plugins, policies, faults and bounds: in particular what the queues
\* and the lists of the handlers hold are runtime objects, also where Pop finds
\* an entry by name, and chanNeedScheduling never holds more than its capacity.
THEOREM TypeCorrect == Spec => []TypeOK
<1>1. Init => TypeOK
  BY TypeInit
<1>2. TypeOK /\ [Next]_vars => TypeOK'
  BY TypeNext
<1> QED  BY <1>1, <1>2, PTL DEF Spec

-----------------------------------------------------------------------------
(* The queue discipline.  The proofs see a queue as the set of its entries *)
(* and the fact that no entry is in it twice.                              *)

\* What the induction assumes: the invariant, the types on both sides of a step,
\* and the hypotheses.
QueueContext ==
  /\ TypeOK
  /\ TypeOK'
  /\ QueueInvariant
  /\ UniqueNames
  /\ NoPostedGoals

\* A runtime object is identified by its plugin, goal and registration.
LEMMA RuntimeIdentity ==
  ASSUME NEW r \in Runtime, NEW s \in Runtime,
         r.name = s.name, r.goal = s.goal, r.gen = s.gen
  PROVE  r = s
<1>1. /\ r \in [name : Name, goal : Goal \cup {NoGoal}, gen : 1..MaxGen]
      /\ s \in [name : Name, goal : Goal \cup {NoGoal}, gen : 1..MaxGen]
  BY DEF Runtime
<1> QED  BY <1>1

\* The tail of a queue has the entries of the queue but for its head, when none
\* is in it twice.
LEMMA TailProperties ==
  ASSUME NEW S, NEW q \in Seq(S), q # <<>>
  PROVE  /\ Head(q) \in ToSet(q)
         /\ ToSet(Tail(q)) \subseteq ToSet(q)
         /\ IsInjective(q) => IsInjective(Tail(q)) /\ Head(q) \notin ToSet(Tail(q))
<1>1. /\ Len(q) \in Nat /\ Len(q) >= 1 /\ DOMAIN q = 1..Len(q)
      /\ Head(q) = q[1]
  BY LenProperties, EmptySeq
<1>2. /\ Tail(q) \in Seq(S) /\ Len(Tail(q)) = Len(q) - 1
      /\ \A i \in 1..(Len(q) - 1) : Tail(q)[i] = q[i + 1]
  BY HeadTailProperties
<1>3. DOMAIN Tail(q) = 1..(Len(q) - 1)
  BY <1>2, LenProperties
<1> QED  BY <1>1, <1>2, <1>3 DEF ToSet, IsInjective

\* A step that leaves the goals alone, adds nothing to the queues and takes
\* nothing out of the loaded objects that is still queued.  It deactivates no
\* scheduled object and changes the state of no object in the ready queue.
LEMMA QueueShrinks ==
  ASSUME QueueContext,
         UNCHANGED <<goals, generation>>,
         loaded' \subseteq loaded,
         IsInjective(readyQueue)', IsInjective(scheduledPlugins)',
         \A r \in Runtime :
           /\ InReady(r)' => InReady(r) /\ status'[r] = status[r]
           /\ InScheduled(r)' => /\ InScheduled(r)
                                 /\ status[r] # Inactive => status'[r] # Inactive
           /\ r.goal # NoGoal /\ (InReady(r)' \/ InScheduled(r)') => r \in loaded',
         pc' = "rules" => pc = "rules" /\ UNCHANGED <<evalGoals, evalGoal>>,
         pc' = "cleaning" =>
           /\ pc = "cleaning"
           /\ cleaning'.goal = cleaning.goal /\ cleaning'.next = cleaning.next
           /\ \A r \in Runtime : (InReady(r)' \/ InScheduled(r)') /\ r.goal = cleaning.goal
                                 /\ r.name \in cleaning.names => r.name \in cleaning'.names
  PROVE  QueueInvariant'
<1>1. NoDuplicates'
  <2>1. \A r \in ToSet(readyQueue)' : r \in Runtime
    BY DEF QueueContext, TypeOK, ToSet
  <2> QED  BY <2>1 DEF QueueContext, QueueInvariant, NoDuplicates, InReady, InScheduled
<1>2. QueuesMatchStatus'
  BY DEF QueueContext, QueueInvariant, QueuesMatchStatus
<1>3. OneGoalPerJob'
  BY DEF QueueContext, QueueInvariant, OneGoalPerJob
<1>4. /\ \A r \in loaded' : r.goal \in Goal
      /\ \A r, s \in loaded' : r.name = s.name /\ r.goal = s.goal => r = s
  BY DEF QueueContext, QueueInvariant
<1>5. \A r \in Runtime : (InReady(r)' \/ InScheduled(r)') /\ r.goal = NoGoal
                         => r.gen <= generation'[NoGoal]
  BY DEF QueueContext, QueueInvariant
<1>6. pc' = "rules" => evalGoals' \subseteq goals' /\ evalGoal' \in goals'
  BY DEF QueueContext, QueueInvariant
<1>7. pc' = "cleaning" =>
        /\ cleaning'.goal \in goals'
        /\ cleaning'.next # NoGoal => JobOf[cleaning'.next] = JobOf[cleaning'.goal]
        /\ \A r \in Runtime : (InReady(r)' \/ InScheduled(r)') /\ r.goal = cleaning'.goal
                                => r.name \in cleaning'.names
  BY DEF QueueContext, QueueInvariant
<1> QED  BY <1>1, <1>2, <1>3, <1>4, <1>5, <1>6, <1>7 DEF QueueInvariant

\* A step that touches neither goals, objects nor queues, and of the states only
\* those of scheduled objects, which it does not deactivate.
LEMMA QueueFrame ==
  ASSUME QueueContext,
         UNCHANGED <<goals, generation, loaded, readyQueue, scheduledPlugins>>,
         \A r \in Runtime : /\ status[r] # Inactive => status'[r] # Inactive
                            /\ InReady(r) => status'[r] = status[r],
         pc' = "rules" => pc = "rules" /\ UNCHANGED <<evalGoals, evalGoal>>,
         pc' = "cleaning" => pc = "cleaning" /\ UNCHANGED cleaning
  PROVE  QueueInvariant'
<1>1. IsInjective(readyQueue)' /\ IsInjective(scheduledPlugins)'
  BY DEF QueueContext, QueueInvariant, NoDuplicates
<1>2. \A r \in Runtime : /\ InReady(r)' = InReady(r)
                         /\ InScheduled(r)' = InScheduled(r)
  BY DEF InReady, InScheduled
<1>3. \A r \in Runtime : r.goal # NoGoal /\ (InReady(r) \/ InScheduled(r)) => r \in loaded
  BY DEF QueueContext, QueueInvariant, QueuesMatchStatus
<1> QED  BY <1>1, <1>2, <1>3, QueueShrinks

\* ... in particular when no state changes either.
LEMMA QueueStutter ==
  ASSUME QueueContext,
         UNCHANGED <<goals, generation, loaded, status, readyQueue, scheduledPlugins>>,
         pc' = "rules" => pc = "rules" /\ UNCHANGED <<evalGoals, evalGoal>>,
         pc' = "cleaning" => pc = "cleaning" /\ UNCHANGED cleaning
  PROVE  QueueInvariant'
BY QueueFrame

\* Under UniqueNames the name of a queued plugin of a goal tells which object it
\* is: no other entry of the two queues has that name.
LEMMA NameDetermines ==
  ASSUME QueueContext, NEW r \in Runtime, NEW s \in Runtime,
         InReady(r) \/ InScheduled(r) \/ (r \in loaded /\ r.goal \in goals),
         InReady(s) \/ InScheduled(s),
         r.name = s.name, r.goal # NoGoal
  PROVE  r = s
<1>1. r \in loaded /\ r.goal \in goals /\ r.goal \in Goal
  BY DEF QueueContext, QueueInvariant, QueuesMatchStatus, TypeOK
<1>2. r.name \in PluginsOf[r.goal]
  BY <1>1 DEF Runtime
<1>3. s.goal # NoGoal
  <2>1. CASE s.goal = NoGoal
    <3>1. s.name \in APINames
      BY <2>1 DEF Runtime
    <3> QED  BY <1>1, <1>2, <3>1 DEF QueueContext, UniqueNames
  <2> QED  BY <2>1
<1>4. s \in loaded /\ s.goal \in goals /\ s.goal \in Goal
  BY <1>3 DEF QueueContext, QueueInvariant, QueuesMatchStatus, TypeOK
<1>5. s.name \in PluginsOf[s.goal]
  BY <1>3, <1>4 DEF Runtime
<1>6. JobOf[r.goal] = JobOf[s.goal]
  BY <1>1, <1>2, <1>4, <1>5 DEF QueueContext, UniqueNames
<1>7. r.goal = s.goal
  BY <1>1, <1>4, <1>6 DEF QueueContext, QueueInvariant, OneGoalPerJob
<1> QED  BY <1>1, <1>4, <1>7 DEF QueueContext, QueueInvariant

-----------------------------------------------------------------------------
(* Goals                                                                   *)

\* Registering a goal of a job without one, in a goal manager whose other goals
\* G keep their objects.
LEMMA QueueRegister ==
  ASSUME QueueContext, NEW g \in Goal, NEW G \in SUBSET goals, Register(g, G),
         \A h \in G : JobOf[h] # JobOf[g],
         \A r \in Runtime : (InReady(r) \/ InScheduled(r)) /\ r.goal # NoGoal
                            => r.goal \in G,
         UNCHANGED <<status, readyQueue, scheduledPlugins>>,
         pc' \notin {"rules", "cleaning"}
  PROVE  QueueInvariant'
<1>1. NoDuplicates'
  BY DEF QueueContext, QueueInvariant, NoDuplicates
<1>2. QueuesMatchStatus'
  <2> SUFFICES ASSUME NEW r \in Runtime, r.goal # NoGoal, InReady(r) \/ InScheduled(r)
               PROVE  r \in loaded' /\ r.goal \in goals'
    BY DEF QueueContext, QueueInvariant, QueuesMatchStatus, InReady, InScheduled
  <2>1. r \in loaded /\ r.goal \in G
    BY DEF QueueContext, QueueInvariant, QueuesMatchStatus
  <2>2. r.goal # g
    BY <2>1
  <2> QED  BY <2>1, <2>2 DEF Register
<1>3. OneGoalPerJob'
  BY DEF QueueContext, QueueInvariant, OneGoalPerJob, Register
<1>4. \A r \in loaded' : r.goal \in Goal
  BY DEF QueueContext, QueueInvariant, Register
<1>5. \A r, s \in loaded' : r.name = s.name /\ r.goal = s.goal => r = s
  <2>1. TAKE r, s \in loaded'
  <2>2. HAVE r.name = s.name /\ r.goal = s.goal
  <2>3. CASE r.goal = g
    <3>1. /\ r \in Runtime /\ r.gen = generation[g] + 1
          /\ s \in Runtime /\ s.gen = generation[g] + 1
      BY <2>2, <2>3 DEF Register
    <3> QED  BY <2>2, <3>1, RuntimeIdentity
  <2>4. CASE r.goal # g
    BY <2>2, <2>4 DEF Register, QueueContext, QueueInvariant
  <2> QED  BY <2>3, <2>4
<1>6. generation'[NoGoal] = generation[NoGoal]
  BY KubernetesAssumption DEF Register, QueueContext, TypeOK
<1>7. \A r \in Runtime : (InReady(r)' \/ InScheduled(r)') /\ r.goal = NoGoal
                         => r.gen <= generation'[NoGoal]
  BY <1>6 DEF QueueContext, QueueInvariant, InReady, InScheduled
<1> QED  BY <1>1, <1>2, <1>3, <1>4, <1>5, <1>7 DEF QueueInvariant, InReady, InScheduled

\* Clean-up of the goal e begins, to be followed by the goal n or by none.
LEMMA QueueCleaningBegins ==
  ASSUME QueueContext, NEW e \in goals, NEW n \in Goal \cup {NoGoal},
         n # NoGoal => JobOf[n] = JobOf[e],
         cleaning' = [goal |-> e, names |-> PluginsOf[e], next |-> n],
         pc' = "cleaning",
         UNCHANGED <<goals, generation, loaded, status, readyQueue, scheduledPlugins>>
  PROVE  QueueInvariant'
<1>1. NoDuplicates' /\ QueuesMatchStatus' /\ OneGoalPerJob'
  BY DEF QueueContext, QueueInvariant, NoDuplicates, QueuesMatchStatus, OneGoalPerJob,
         InReady, InScheduled
<1>2. e # NoGoal
  BY KubernetesAssumption DEF QueueContext, TypeOK
<1>3. \A r \in Runtime : r.goal = e => r.name \in PluginsOf[e]
  BY <1>2 DEF Runtime
<1> QED  BY <1>1, <1>3 DEF QueueContext, QueueInvariant, InReady, InScheduled

\* One goal of a list: it is there, it is new, or it replaces another one.
LEMMA QueueBulkGoal ==
  ASSUME QueueContext, NEW g \in Goal, BulkGoal(g)
  PROVE  QueueInvariant'
<1> DEFINE existing == {e \in goals : JobOf[e] = JobOf[g]}
<1>1. /\ pc = "bulk"
      /\ UNCHANGED <<status, readyQueue, scheduledPlugins, evalGoals, evalGoal>>
  BY DEF BulkGoal, runtimeVars, queueVars, ruleVars
<1>2. CASE UNCHANGED <<goalVars, pc, cleaning>>
  BY <1>1, <1>2, QueueStutter DEF goalVars
<1>3. CASE existing = {} /\ Register(g, goals) /\ UNCHANGED <<pc, cleaning>>
  <2>1. \A r \in Runtime : (InReady(r) \/ InScheduled(r)) /\ r.goal # NoGoal
                           => r.goal \in goals
    BY DEF QueueContext, QueueInvariant, QueuesMatchStatus
  <2>2. \A h \in goals : JobOf[h] # JobOf[g]
    BY <1>3
  <2> QED  BY <1>1, <1>3, <2>1, <2>2, QueueRegister
<1>4. ASSUME NEW e \in existing \ {g},
             cleaning' = [goal |-> e, names |-> PluginsOf[e], next |-> g],
             pc' = "cleaning", UNCHANGED goalVars
      PROVE  QueueInvariant'
  <2>1. e \in goals /\ JobOf[g] = JobOf[e]
    OBVIOUS
  <2>2. UNCHANGED <<goals, generation, loaded>>
    BY <1>4 DEF goalVars
  <2> QED  BY <1>1, <1>4, <2>1, <2>2, QueueCleaningBegins
<1> QED  BY <1>2, <1>3, <1>4 DEF BulkGoal

\* After the list: clean-up of a goal it does not hold, or nothing.
LEMMA QueueBulkRemove ==
  ASSUME QueueContext, BulkRemove
  PROVE  QueueInvariant'
<1>1. UNCHANGED <<goals, generation, loaded, status, readyQueue, scheduledPlugins>>
  BY DEF BulkRemove, goalVars, runtimeVars, queueVars
<1>2. CASE pc' = "select"
  BY <1>1, <1>2, QueueStutter
<1>3. ASSUME NEW e \in goals \ keep, pc' = "cleaning",
             cleaning' = [goal |-> e, names |-> PluginsOf[e], next |-> NoGoal]
      PROVE  QueueInvariant'
  BY <1>1, <1>3, QueueCleaningBegins
<1> QED  BY <1>2, <1>3 DEF BulkRemove

\* What Pop does to both queues: nothing else disappears, and what comes out is
\* in neither queue any more.
LEMMA QueuesAfterPop ==
  ASSUME QueueContext, NEW n \in Name
  PROVE  /\ IsInjective(AfterPop(readyQueue, n))
         /\ IsInjective(AfterPop(scheduledPlugins, n))
         /\ \A r \in Runtime :
              /\ r \in ToSet(AfterPop(readyQueue, n)) => InReady(r)
              /\ r \in ToSet(AfterPop(scheduledPlugins, n)) => InScheduled(r)
              /\ r.name = n /\ r.goal # NoGoal =>
                   /\ r \notin ToSet(AfterPop(readyQueue, n))
                   /\ r \notin ToSet(AfterPop(scheduledPlugins, n))
<1>1. readyQueue \in Seq(Runtime) /\ scheduledPlugins \in Seq(Runtime)
  BY DEF QueueContext, TypeOK
<1>2. IsInjective(readyQueue) /\ IsInjective(scheduledPlugins)
  BY DEF QueueContext, QueueInvariant, NoDuplicates
<1>3. ASSUME NEW q \in {readyQueue, scheduledPlugins}, NEW r \in Runtime,
             r \in ToSet(AfterPop(q, n)), r.name = n, r.goal # NoGoal
      PROVE  FALSE
  <2>1. q \in Seq(Runtime) /\ IsInjective(q) /\ ToSet(q) \subseteq Runtime
    BY <1>1, <1>2 DEF ToSet
  <2>2. r \in ToSet(q)
    BY <1>3, <2>1, AfterPopProperties
  <2>3. HasName(q, n)
    BY <1>3, <2>2 DEF HasName, ToSet
  <2>4. /\ Popped(q, n) \in ToSet(q) /\ Popped(q, n).name = n
        /\ Popped(q, n) \notin ToSet(AfterPop(q, n))
    BY <2>1, <2>3, AfterPopProperties
  <2>5. /\ InReady(r) \/ InScheduled(r)
        /\ InReady(Popped(q, n)) \/ InScheduled(Popped(q, n))
        /\ Popped(q, n) \in Runtime
    BY <2>1, <2>2, <2>4 DEF InReady, InScheduled
  <2>6. r = Popped(q, n)
    BY <1>3, <2>4, <2>5, NameDetermines
  <2> QED  BY <1>3, <2>4, <2>6
<1>4. /\ IsInjective(AfterPop(readyQueue, n))
      /\ IsInjective(AfterPop(scheduledPlugins, n))
      /\ ToSet(AfterPop(readyQueue, n)) \subseteq ToSet(readyQueue)
      /\ ToSet(AfterPop(scheduledPlugins, n)) \subseteq ToSet(scheduledPlugins)
  BY <1>1, <1>2, AfterPopProperties
<1> QED  BY <1>3, <1>4 DEF InReady, InScheduled

\* Clean-up of one plugin takes it out of both queues, and its object out of the
\* loaded ones only when it came out of the scheduled plugins.
LEMMA QueueCleanPlugin ==
  ASSUME QueueContext, NEW n \in Name, CleanPlugin(n)
  PROVE  QueueInvariant'
<1>1. /\ pc = "cleaning" /\ UNCHANGED <<pc, goals, generation, status>>
      /\ cleaning'.goal = cleaning.goal /\ cleaning'.next = cleaning.next
      /\ cleaning'.names = cleaning.names \ {n}
  BY DEF CleanPlugin, QueueContext, TypeOK
<1>2. /\ cleaning.goal \in goals /\ cleaning.goal \in Goal /\ cleaning.goal # NoGoal
  BY <1>1, KubernetesAssumption DEF QueueContext, QueueInvariant, TypeOK
<1>3. IsInjective(readyQueue) /\ IsInjective(scheduledPlugins)
  BY DEF QueueContext, QueueInvariant, NoDuplicates
<1>4. \A r \in Runtime : r.goal # NoGoal /\ (InReady(r) \/ InScheduled(r)) => r \in loaded
  BY DEF QueueContext, QueueInvariant, QueuesMatchStatus
<1>5. CASE ~ \E r \in loaded : r.name = n /\ r.goal = cleaning.goal
  <2>1. UNCHANGED <<readyQueue, scheduledPlugins, loaded>>
    BY <1>5 DEF CleanPlugin
  <2>2. \A r \in Runtime : InReady(r)' = InReady(r) /\ InScheduled(r)' = InScheduled(r)
    BY <2>1 DEF InReady, InScheduled
  <2>3. \A r \in Runtime : (InReady(r) \/ InScheduled(r)) /\ r.goal = cleaning.goal
                           => r.name # n
    BY <1>2, <1>4, <1>5
  <2> QED  BY <1>1, <1>3, <1>4, <2>1, <2>2, <2>3, QueueShrinks
<1>6. ASSUME NEW s \in loaded, s.name = n, s.goal = cleaning.goal,
             readyQueue' = AfterPop(readyQueue, n),
             scheduledPlugins' = AfterPop(scheduledPlugins, n),
             loaded' = loaded \/ loaded' = loaded \ {s}
      PROVE  QueueInvariant'
  <2>1. IsInjective(readyQueue)' /\ IsInjective(scheduledPlugins)'
    BY <1>6, QueuesAfterPop
  <2>2. \A r \in Runtime :
          /\ InReady(r)' => InReady(r)
          /\ InScheduled(r)' => InScheduled(r)
          /\ r.name = n /\ r.goal # NoGoal => ~ InReady(r)' /\ ~ InScheduled(r)'
    BY <1>6, QueuesAfterPop DEF InReady, InScheduled
  <2>3. \A r \in Runtime : r.goal # NoGoal /\ (InReady(r)' \/ InScheduled(r)')
                           => r \in loaded'
    BY <1>4, <1>6, <2>2
  <2>4. \A r \in Runtime :
          (InReady(r)' \/ InScheduled(r)') /\ r.goal = cleaning.goal => r.name # n
    BY <1>2, <2>2
  <2>5. loaded' \subseteq loaded
    BY <1>6
  <2> QED  BY <1>1, <2>1, <2>2, <2>3, <2>4, <2>5, QueueShrinks
<1>7. \/ ~ \E r \in loaded : r.name = n /\ r.goal = cleaning.goal
      \/ \E s \in loaded :
           /\ s.name = n /\ s.goal = cleaning.goal
           /\ readyQueue' = AfterPop(readyQueue, n)
           /\ scheduledPlugins' = AfterPop(scheduledPlugins, n)
           /\ loaded' = loaded \/ loaded' = loaded \ {s}
  BY DEF CleanPlugin
<1> QED  BY <1>5, <1>6, <1>7

\* After clean-up no plugin of the goal is queued: the goal can go, and the one
\* that replaces it is the only goal of its job.
LEMMA QueueCleanDone ==
  ASSUME QueueContext, CleanDone
  PROVE  QueueInvariant'
<1> DEFINE left == goals \ {cleaning.goal}
<1>1. /\ pc = "cleaning" /\ pc' = "bulk"
      /\ UNCHANGED <<status, readyQueue, scheduledPlugins>>
  BY DEF CleanDone, runtimeVars, queueVars
<1>2. \A r \in Runtime : (InReady(r) \/ InScheduled(r)) /\ r.goal # NoGoal
                         => r \in loaded /\ r.goal \in left
  BY <1>1 DEF CleanDone, QueueContext, QueueInvariant, QueuesMatchStatus
<1>3. CASE cleaning.next = NoGoal
  <2>1. goals' = left /\ UNCHANGED <<generation, loaded>>
    BY <1>3 DEF CleanDone
  <2>2. \A r \in Runtime : InReady(r)' = InReady(r) /\ InScheduled(r)' = InScheduled(r)
    BY <1>1 DEF InReady, InScheduled
  <2>3. NoDuplicates' /\ OneGoalPerJob'
    BY <1>1, <2>1 DEF QueueContext, QueueInvariant, NoDuplicates, OneGoalPerJob
  <2>4. QueuesMatchStatus'
    BY <1>1, <1>2, <2>1, <2>2 DEF QueueContext, QueueInvariant, QueuesMatchStatus
  <2> QED  BY <1>1, <2>1, <2>2, <2>3, <2>4 DEF QueueContext, QueueInvariant
<1>4. CASE cleaning.next # NoGoal
  <2>1. Register(cleaning.next, left)
    BY <1>4 DEF CleanDone
  <2>2. cleaning.next \in Goal /\ left \in SUBSET goals
    BY <1>4 DEF QueueContext, TypeOK
  <2>3. \A h \in left : JobOf[h] # JobOf[cleaning.next]
    BY <1>1, <1>4 DEF QueueContext, QueueInvariant, OneGoalPerJob
  <2> HIDE DEF left
  <2> QED  BY <1>1, <1>2, <2>1, <2>2, <2>3, QueueRegister
<1> QED  BY <1>3, <1>4

-----------------------------------------------------------------------------
(* Triggering, selecting and launching                                     *)

\* A rule queues an inactive object, which is in no queue.
LEMMA QueueQueuePlugin ==
  ASSUME QueueContext, NEW r \in Runtime, QueuePlugin(r)
  PROVE  QueueInvariant'
<1>1. /\ r \in loaded /\ status[r] = Inactive /\ r.goal \in Goal /\ r.goal # NoGoal
      /\ readyQueue' = Push(readyQueue, r)
      /\ status' = [status EXCEPT ![r] = Queued]
      /\ pc' = "rules" /\ evalGoal' = r.goal
      /\ UNCHANGED <<goals, generation, loaded, scheduledPlugins>>
  BY KubernetesAssumption DEF QueuePlugin, QueueContext, QueueInvariant, goalVars
<1>2. ~ InReady(r) /\ ~ InScheduled(r)
  <2>1. Inactive # Queued
    BY DEF Inactive, Queued
  <2> QED  BY <1>1, <2>1 DEF QueueContext, QueueInvariant, QueuesMatchStatus
<1>3. r.goal \in goals /\ evalGoals' \subseteq goals
  BY DEF QueuePlugin, QueueContext, QueueInvariant
<1>4. /\ IsInjective(readyQueue') /\ ToSet(readyQueue') = ToSet(readyQueue) \cup {r}
  <2>1. /\ readyQueue \in Seq(Runtime) /\ IsInjective(readyQueue)
        /\ r \notin ToSet(readyQueue)
    BY <1>2 DEF QueueContext, QueueInvariant, NoDuplicates, TypeOK, InReady
  <2> QED  BY <1>1, <2>1, PushProperties
<1>5. \A s \in Runtime : /\ InReady(s)' = (InReady(s) \/ s = r)
                         /\ InScheduled(s)' = InScheduled(s)
                         /\ status'[s] = IF s = r THEN Queued ELSE status[s]
  BY <1>1, <1>4 DEF InReady, InScheduled, QueueContext, TypeOK
<1>6. NoDuplicates'
  BY <1>1, <1>2, <1>4 DEF QueueContext, QueueInvariant, NoDuplicates, InScheduled
<1>7. QueuesMatchStatus'
  BY <1>1, <1>2, <1>3, <1>5 DEF QueueContext, QueueInvariant, QueuesMatchStatus
<1>8. OneGoalPerJob'
  BY <1>1 DEF QueueContext, QueueInvariant, OneGoalPerJob
<1>9. pc' # "cleaning"
  BY <1>1
<1> QED
  BY <1>1, <1>3, <1>5, <1>6, <1>7, <1>8, <1>9 DEF QueueContext, QueueInvariant

\* The round-robin policy takes the oldest plugin out of the ready queue; the
\* others leave the queues alone.
LEMMA QueueStartScheduling ==
  ASSUME QueueContext, StartScheduling
  PROVE  QueueInvariant'
<1>1. /\ UNCHANGED <<goals, generation, loaded, status, scheduledPlugins>>
      /\ pc' \notin {"rules", "cleaning"}
  BY DEF StartScheduling, goalVars, runtimeVars
<1>2. CASE UNCHANGED readyQueue
  BY <1>1, <1>2, QueueStutter
<1>3. CASE readyQueue # <<>> /\ readyQueue' = Tail(readyQueue)
  <2>1. /\ IsInjective(readyQueue') /\ ToSet(readyQueue') \subseteq ToSet(readyQueue)
    BY <1>3, TailProperties DEF QueueContext, QueueInvariant, NoDuplicates, TypeOK
  <2>2. IsInjective(scheduledPlugins)'
    BY <1>1 DEF QueueContext, QueueInvariant, NoDuplicates
  <2>3. \A r \in Runtime : /\ InReady(r)' => InReady(r)
                           /\ InScheduled(r)' = InScheduled(r)
    BY <1>1, <2>1 DEF InReady, InScheduled
  <2>4. \A r \in Runtime : r.goal # NoGoal /\ (InReady(r) \/ InScheduled(r)) => r \in loaded
    BY DEF QueueContext, QueueInvariant, QueuesMatchStatus
  <2> QED  BY <1>1, <2>1, <2>2, <2>3, <2>4, QueueShrinks
<1> QED  BY <1>2, <1>3 DEF StartScheduling

\* A launch moves the entry that Pop finds from the one queue to the other.
LEMMA QueueLaunchNext ==
  ASSUME QueueContext, LaunchNext
  PROVE  QueueInvariant'
<1> DEFINE n == Head(toRun).name
           p == Popped(readyQueue, n)
<1>1. /\ UNCHANGED <<goals, generation, loaded, status>>
      /\ pc = "launching" /\ pc' \in {"launching", "crashed"}
  BY DEF LaunchNext, goalVars, runtimeVars
<1>2. CASE ~ HasName(readyQueue, n)
  <2>1. UNCHANGED <<readyQueue, scheduledPlugins>>
    BY <1>2 DEF LaunchNext
  <2> QED  BY <1>1, <2>1, QueueStutter
<1>3. CASE HasName(readyQueue, n)
  <2>1. /\ readyQueue' = AfterPop(readyQueue, n)
        /\ scheduledPlugins' = Push(scheduledPlugins, p)
    BY <1>3 DEF LaunchNext
  <2>2. /\ readyQueue \in Seq(Runtime) /\ scheduledPlugins \in Seq(Runtime)
        /\ IsInjective(readyQueue) /\ IsInjective(scheduledPlugins)
        /\ ToSet(readyQueue) \cap ToSet(scheduledPlugins) = {}
    BY DEF QueueContext, QueueInvariant, NoDuplicates, TypeOK
  <2>3. /\ p \in ToSet(readyQueue)
        /\ ToSet(readyQueue') \subseteq ToSet(readyQueue) \ {p}
        /\ IsInjective(readyQueue')
    BY <1>3, <2>1, <2>2, AfterPopProperties
  <2>4. p \in Runtime
    BY <2>2, <2>3 DEF ToSet
  <2>5. /\ ToSet(scheduledPlugins') = ToSet(scheduledPlugins) \cup {p}
        /\ IsInjective(scheduledPlugins')
    BY <2>1, <2>2, <2>3, <2>4, PushProperties
  <2> HIDE DEF p, n
  <2>6. \A s \in Runtime : /\ InReady(s)' => InReady(s)
                           /\ InScheduled(s)' = (InScheduled(s) \/ s = p)
    BY <2>3, <2>5 DEF InReady, InScheduled
  <2>7. NoDuplicates'
    BY <2>2, <2>3, <2>5 DEF NoDuplicates
  <2>8. Queued # Inactive /\ InReady(p)
    BY <2>3 DEF InReady, Queued, Inactive
  <2>9. QueuesMatchStatus'
    BY <1>1, <2>4, <2>6, <2>8 DEF QueueContext, QueueInvariant, QueuesMatchStatus
  <2>10. OneGoalPerJob'
    BY <1>1 DEF QueueContext, QueueInvariant, OneGoalPerJob
  <2>11. \A s \in Runtime : (InReady(s)' \/ InScheduled(s)') /\ s.goal = NoGoal
                            => s.gen <= generation'[NoGoal]
    BY <1>1, <2>6, <2>8 DEF QueueContext, QueueInvariant
  <2> QED
    BY <1>1, <2>7, <2>9, <2>10, <2>11 DEF QueueContext, QueueInvariant
<1> QED  BY <1>2, <1>3

-----------------------------------------------------------------------------
(* Events from the cluster                                                 *)

\* A managed object is the one that is scheduled, and no other entry has its name.
LEMMA ManagedIsScheduled ==
  ASSUME QueueContext, NEW r \in loaded, NEW p, Manages(r, p)
  PROVE  r \in Runtime /\ r.goal # NoGoal /\ InScheduled(r) /\ ~ InReady(r)
<1>1. r \in Runtime /\ r.goal \in Goal /\ r.goal # NoGoal
  BY KubernetesAssumption DEF QueueContext, QueueInvariant, TypeOK
<1>2. scheduledPlugins \in Seq(Runtime)
  BY DEF QueueContext, TypeOK
<1>3. PICK i \in DOMAIN scheduledPlugins :
        scheduledPlugins[i].name = r.name /\ scheduledPlugins[i].goal = r.goal
  BY DEF Manages, IsExist
<1>4. InScheduled(scheduledPlugins[i]) /\ scheduledPlugins[i] \in Runtime
  BY <1>2, <1>3, LenProperties DEF InScheduled, ToSet
<1>5. scheduledPlugins[i] \in loaded
  BY <1>1, <1>3, <1>4 DEF QueueContext, QueueInvariant, QueuesMatchStatus
<1>6. scheduledPlugins[i] = r
  BY <1>3, <1>5 DEF QueueContext, QueueInvariant
<1> QED
  BY <1>1, <1>4, <1>6 DEF QueueContext, QueueInvariant, NoDuplicates, InReady, InScheduled

\* An event other than Inactive, tried on the object r, leads from an active state
\* to an active state; Failed is refused in the ready queue, and the other events
\* concern scheduled objects only.
LEMMA QueueStatusStep ==
  ASSUME QueueContext, NEW r \in Runtime, NEW e \in PluginState, e # Inactive,
         status' = [status EXCEPT ![r] = After(@, e)],
         InReady(r) => e = Failed,
         UNCHANGED <<goals, generation, loaded, readyQueue, scheduledPlugins>>,
         pc = "select", pc' = "select"
  PROVE  QueueInvariant'
<1>1. status[r] # Inactive => After(status[r], e) # Inactive
  BY DEF After
<1>2. ~ Accepts(Queued, Failed)
  BY DEF Accepts, Src, PluginState, Inactive, Queued, Scheduled, Initializing, Running,
         Completed, Failed
<1>3. r.goal # NoGoal /\ InReady(r) => After(status[r], e) = status[r]
  BY <1>2 DEF After, QueueContext, QueueInvariant, QueuesMatchStatus
<1>4. \A s \in Runtime : status'[s] = IF s = r THEN After(status[r], e) ELSE status[s]
  BY DEF QueueContext, TypeOK
<1>5. NoDuplicates' /\ OneGoalPerJob'
  BY DEF QueueContext, QueueInvariant, NoDuplicates, OneGoalPerJob
<1>6. \A s \in Runtime : InReady(s)' = InReady(s) /\ InScheduled(s)' = InScheduled(s)
  BY DEF InReady, InScheduled
<1>7. QueuesMatchStatus'
  BY <1>1, <1>3, <1>4, <1>6 DEF QueueContext, QueueInvariant, QueuesMatchStatus
<1> QED  BY <1>5, <1>6, <1>7 DEF QueueContext, QueueInvariant

\* The pod of a scheduled plugin is there.
LEMMA QueuePodAdded ==
  ASSUME QueueContext, NEW r \in loaded, PodAdded(r)
  PROVE  QueueInvariant'
<1>1. r \in Runtime /\ ~ InReady(r)
  BY ManagedIsScheduled DEF PodAdded
<1>2. Scheduled \in PluginState /\ Scheduled # Inactive
  BY DEF PluginState, Scheduled, Inactive
<1>3. /\ status' = [status EXCEPT ![r] = After(@, Scheduled)]
      /\ UNCHANGED <<goals, generation, loaded, readyQueue, scheduledPlugins>>
      /\ pc = "select" /\ pc' = "select"
  BY DEF PodAdded, ReceivePodEvent, goalVars, queueVars
<1> QED  BY <1>1, <1>2, <1>3, QueueStatusStep

\* The pod of a scheduled plugin has changed.
LEMMA QueuePodModified ==
  ASSUME QueueContext, NEW r \in loaded, PodModified(r)
  PROVE  QueueInvariant'
<1>1. r \in Runtime /\ ~ InReady(r)
  BY ManagedIsScheduled DEF PodModified
<1>2. /\ UNCHANGED <<goals, generation, loaded, readyQueue, scheduledPlugins>>
      /\ pc = "select" /\ pc' = "select"
  BY DEF PodModified, ReceivePodEvent, goalVars, queueVars
<1>3. CASE UNCHANGED status
  BY <1>2, <1>3, QueueStutter
<1>4. ASSUME NEW v, NEW e \in EventsOfView(v),
             status' = [status EXCEPT ![r] = After(@, e)]
      PROVE  QueueInvariant'
  <2>1. e \in PluginState /\ e # Inactive
    BY DEF EventsOfView, PluginState, Inactive, Queued, Scheduled, Initializing, Running,
           Completed, Failed
  <2> QED  BY <1>1, <1>2, <1>4, <2>1, QueueStatusStep
<1> QED  BY <1>3, <1>4 DEF PodModified

\* The pod of a scheduled plugin is gone: the entry that leaves the scheduled
\* plugins is that of the object that becomes inactive.
LEMMA QueuePodDeleted ==
  ASSUME QueueContext, NEW r \in loaded, PodDeleted(r)
  PROVE  QueueInvariant'
<1>1. r \in Runtime /\ r.goal # NoGoal /\ InScheduled(r) /\ ~ InReady(r)
  BY ManagedIsScheduled DEF PodDeleted
<1>2. /\ UNCHANGED <<goals, generation, loaded, readyQueue>>
      /\ scheduledPlugins' = AfterPop(scheduledPlugins, r.name)
      /\ pc' \notin {"rules", "cleaning"}
  BY DEF PodDeleted, ReceivePodEvent, goalVars
<1>3. \A s \in Runtime : s # r => status'[s] = status[s]
  BY <1>1 DEF PodDeleted, QueueContext, TypeOK
<1>4. r.name \in Name
  BY <1>1 DEF Runtime
<1>5. IsInjective(readyQueue)' /\ IsInjective(scheduledPlugins)'
  BY <1>2, <1>4, QueuesAfterPop DEF QueueContext, QueueInvariant, NoDuplicates
<1>6. \A s \in Runtime : /\ InReady(s)' = InReady(s)
                         /\ InScheduled(s)' => InScheduled(s) /\ s # r
  BY <1>1, <1>2, <1>4, QueuesAfterPop DEF InReady, InScheduled
<1>7. \A s \in Runtime : s.goal # NoGoal /\ (InReady(s) \/ InScheduled(s)) => s \in loaded
  BY DEF QueueContext, QueueInvariant, QueuesMatchStatus
<1> QED  BY <1>1, <1>2, <1>3, <1>5, <1>6, <1>7, QueueShrinks

\* A failure Event finds its plugin by the pod's UID, perhaps in the ready queue.
LEMMA QueueReceiveKubeEvent ==
  ASSUME QueueContext, ReceiveKubeEvent
  PROVE  QueueInvariant'
<1>1. /\ UNCHANGED <<goals, generation, loaded, readyQueue, scheduledPlugins>>
      /\ pc = "select" /\ pc' = "select"
  BY DEF ReceiveKubeEvent, goalVars, queueVars
<1>2. CASE UNCHANGED status
  BY <1>1, <1>2, QueueStutter
<1>3. ASSUME NEW r \in loaded, status' = [status EXCEPT ![r] = After(@, Failed)]
      PROVE  QueueInvariant'
  <2>1. r \in Runtime /\ Failed \in PluginState /\ Failed # Inactive
    BY DEF QueueContext, TypeOK, PluginState, Failed, Inactive
  <2> QED  BY <1>1, <1>3, <2>1, QueueStatusStep
<1> QED  BY <1>2, <1>3 DEF ReceiveKubeEvent

-----------------------------------------------------------------------------
(* Requests and restarts                                                   *)

\* A submitted plugin has a number no queued one has.
LEMMA QueueAPISchedule ==
  ASSUME QueueContext, NEW n \in APINames, APISchedule(n)
  PROVE  QueueInvariant'
<1> DEFINE r == [name |-> n, goal |-> NoGoal, gen |-> generation[NoGoal] + 1]
<1>1. /\ UNCHANGED <<goals, loaded, status, scheduledPlugins, pc, evalGoals, evalGoal,
                     cleaning>>
      /\ readyQueue' = Push(readyQueue, r)
      /\ generation' = [generation EXCEPT ![NoGoal] = @ + 1]
  BY DEF APISchedule, runtimeVars, ruleVars, bulkVars
<1>2. /\ generation[NoGoal] \in Nat
      /\ generation'[NoGoal] = generation[NoGoal] + 1
  BY <1>1, NodeAssumption DEF QueueContext, TypeOK
<1>3. r \in Runtime
  BY <1>2, NodeAssumption DEF APISchedule, Runtime
<1>4. r.goal = NoGoal /\ r.gen = generation[NoGoal] + 1
  OBVIOUS
<1> HIDE DEF r
<1>5. ~ InReady(r) /\ ~ InScheduled(r)
  BY <1>2, <1>3, <1>4 DEF QueueContext, QueueInvariant
<1>6. IsInjective(readyQueue') /\ ToSet(readyQueue') = ToSet(readyQueue) \cup {r}
  <2>1. /\ readyQueue \in Seq(Runtime) /\ IsInjective(readyQueue)
        /\ r \notin ToSet(readyQueue)
    BY <1>5 DEF QueueContext, QueueInvariant, NoDuplicates, TypeOK, InReady
  <2> QED  BY <1>1, <1>3, <2>1, PushProperties
<1>7. \A s \in Runtime : /\ InReady(s)' = (InReady(s) \/ s = r)
                         /\ InScheduled(s)' = InScheduled(s)
  BY <1>1, <1>6 DEF InReady, InScheduled
<1>8. NoDuplicates'
  BY <1>1, <1>5, <1>6 DEF QueueContext, QueueInvariant, NoDuplicates, InScheduled
<1>9. QueuesMatchStatus' /\ OneGoalPerJob'
  BY <1>1, <1>4, <1>7 DEF QueueContext, QueueInvariant, QueuesMatchStatus, OneGoalPerJob
<1>10. \A s \in Runtime : (InReady(s)' \/ InScheduled(s)') /\ s.goal = NoGoal
                          => s.gen <= generation'[NoGoal]
  <2>1. TAKE s \in Runtime
  <2>2. HAVE (InReady(s)' \/ InScheduled(s)') /\ s.goal = NoGoal
  <2>3. s.gen \in Nat
    BY NodeAssumption DEF Runtime
  <2>4. CASE s = r
    BY <1>2, <1>4, <2>4
  <2>5. CASE s # r
    <3>1. s.gen <= generation[NoGoal]
      BY <1>7, <2>2, <2>5 DEF QueueContext, QueueInvariant
    <3> QED  BY <1>2, <2>3, <3>1
  <2> QED  BY <2>4, <2>5
<1>11. pc' = "rules" => evalGoals' \subseteq goals' /\ evalGoal' \in goals'
  BY <1>1 DEF QueueContext, QueueInvariant
<1>12. pc' = "cleaning" =>
         /\ cleaning'.goal \in goals'
         /\ cleaning'.next # NoGoal => JobOf[cleaning'.next] = JobOf[cleaning'.goal]
         /\ \A s \in Runtime : (InReady(s)' \/ InScheduled(s)') /\ s.goal = cleaning'.goal
                                 => s.name \in cleaning'.names
  <2>1. cleaning.goal \in goals => cleaning.goal # NoGoal
    BY KubernetesAssumption DEF QueueContext, TypeOK
  <2> QED  BY <1>1, <1>4, <1>7, <2>1 DEF QueueContext, QueueInvariant
<1> QED
  BY <1>1, <1>8, <1>9, <1>10, <1>11, <1>12 DEF QueueContext, QueueInvariant

\* An empty queue has no entry, so none twice.
LEMMA EmptyQueue == ToSet(<<>>) = {} /\ IsInjective(<<>>)
BY DEF ToSet, IsInjective

\* A restarted process has no goals, no objects and empty queues.
LEMMA QueueRestart ==
  ASSUME QueueContext, Restart
  PROVE  QueueInvariant'
<1>1. /\ goals' = {} /\ loaded' = {} /\ readyQueue' = <<>> /\ scheduledPlugins' = <<>>
      /\ pc' = "select"
  BY DEF Restart
<1>2. ToSet(readyQueue') = {} /\ ToSet(scheduledPlugins') = {}
  BY <1>1, EmptyQueue
<1>3. \A r \in Runtime : ~ InReady(r)' /\ ~ InScheduled(r)'
  BY <1>2 DEF InReady, InScheduled
<1>4. NoDuplicates' /\ QueuesMatchStatus' /\ OneGoalPerJob'
  BY <1>1, <1>2, <1>3, EmptyQueue DEF NoDuplicates, QueuesMatchStatus, OneGoalPerJob
<1> QED  BY <1>1, <1>3, <1>4 DEF QueueInvariant

-----------------------------------------------------------------------------
(* The theorems                                                            *)

\* The initial state has no goals, no objects and empty queues.
LEMMA QueueInit == Init => QueueInvariant
<1> SUFFICES ASSUME Init PROVE QueueInvariant
  OBVIOUS
<1>1. /\ goals = {} /\ loaded = {} /\ readyQueue = <<>> /\ scheduledPlugins = <<>>
      /\ pc = "select"
  BY DEF Init
<1>2. ToSet(readyQueue) = {} /\ ToSet(scheduledPlugins) = {}
  BY <1>1, EmptyQueue
<1>3. \A r \in Runtime : ~ InReady(r) /\ ~ InScheduled(r)
  BY <1>2 DEF InReady, InScheduled
<1>4. NoDuplicates /\ QueuesMatchStatus /\ OneGoalPerJob
  BY <1>1, <1>2, <1>3, EmptyQueue DEF NoDuplicates, QueuesMatchStatus, OneGoalPerJob
<1> QED  BY <1>1, <1>3, <1>4 DEF QueueInvariant

\* Every step of the node and of its cluster keeps the queue discipline.
LEMMA QueueNext == QueueContext /\ [Next]_vars => QueueInvariant'
<1> SUFFICES ASSUME QueueContext, [Next]_vars PROVE QueueInvariant'
  OBVIOUS
<1>1. ASSUME NEW G \in GoalLists, CloudSendsGoals(G) PROVE QueueInvariant'
  BY <1>1, QueueStutter DEF CloudSendsGoals, goalVars, runtimeVars, queueVars, ruleVars,
     bulkVars
<1>2. CASE ReceiveFromCloud
  BY <1>2, QueueStutter DEF ReceiveFromCloud, goalVars, runtimeVars, queueVars, ruleVars,
     bulkVars
<1>3. CASE ReceiveConfigMap
  BY <1>3, QueueStutter DEF ReceiveConfigMap, goalVars, runtimeVars, queueVars
<1>4. CASE HandleGoals
  BY <1>4, QueueBulkGoal, QueueBulkRemove, QueueCleanPlugin, QueueCleanDone
     DEF HandleGoals
<1>5. CASE EvaluateRules
  <2>1. ASSUME NEW r \in Runtime, QueuePlugin(r) PROVE QueueInvariant'
    BY <2>1, QueueQueuePlugin
  <2>2. CASE RulesEvaluated
    BY <2>2, QueueStutter DEF RulesEvaluated, goalVars, runtimeVars, queueVars
  <2>3. CASE IdleTick
    BY <2>3, QueueStutter DEF IdleTick, vars, goalVars, runtimeVars, queueVars, ruleVars,
       bulkVars
  <2> QED  BY <1>5, <2>1, <2>2, <2>3 DEF EvaluateRules
<1>6. CASE TriggerScheduling
  BY <1>6, QueueStutter DEF TriggerScheduling, goalVars, runtimeVars, queueVars
<1>7. CASE Schedule
  <2>1. CASE StartScheduling
    BY <2>1, QueueStartScheduling
  <2>2. CASE SelectNext
    BY <2>2, QueueStutter DEF SelectNext, goalVars, runtimeVars
  <2>3. CASE SelectDone
    BY <2>3, QueueStutter DEF SelectDone, goalVars, runtimeVars
  <2>4. CASE LaunchNext
    BY <2>4, QueueLaunchNext
  <2>5. CASE LaunchDone
    BY <2>5, QueueStutter DEF LaunchDone, goalVars, runtimeVars, queueVars
  <2> QED  BY <1>7, <2>1, <2>2, <2>3, <2>4, <2>5 DEF Schedule
<1>8. CASE Launch
  <2>1. ASSUME NEW r \in Runtime, CreatePod(r) PROVE QueueInvariant'
    BY <2>1, QueueStutter DEF CreatePod, goalVars, queueVars, ruleVars, bulkVars
  <2>2. ASSUME NEW r \in Runtime, AbortPod(r) PROVE QueueInvariant'
    BY <2>2, QueueStutter DEF AbortPod, goalVars, runtimeVars, queueVars, ruleVars,
       bulkVars
  <2> QED  BY <1>8, <2>1, <2>2 DEF Launch
<1>9. CASE HandlePodEvent
  <2>1. CASE IgnorePodEvent
    BY <2>1, QueueStutter DEF IgnorePodEvent, goalVars, runtimeVars, queueVars, ruleVars,
       bulkVars
  <2> QED
    BY <1>9, <2>1, QueuePodAdded, QueuePodModified, QueuePodDeleted DEF HandlePodEvent
<1>10. CASE ReceiveKubeEvent
  BY <1>10, QueueReceiveKubeEvent
<1>11. CASE API
  <2>1. CASE APITrigger
    BY <2>1, QueueStutter DEF APITrigger, goalVars, runtimeVars, queueVars, ruleVars,
       bulkVars
  <2>2. ~ \E g \in APIGoals : APIAddGoal(g)
    BY DEF QueueContext, NoPostedGoals
  <2> QED  BY <1>11, <2>1, <2>2, QueueAPISchedule DEF API
<1>12. CASE Restart
  BY <1>12, QueueRestart
<1>13. CASE Cluster
  BY <1>13, QueueStutter DEF Cluster, goalVars, runtimeVars, queueVars, ruleVars, bulkVars
<1>14. CASE UNCHANGED vars
  BY <1>14, QueueStutter DEF vars, goalVars, runtimeVars, queueVars, ruleVars, bulkVars
<1> QED
  BY <1>1, <1>2, <1>3, <1>4, <1>5, <1>6, <1>7, <1>8, <1>9, <1>10, <1>11, <1>12, <1>13,
     <1>14 DEF Next

\* The queue discipline holds in every reachable state.
THEOREM QueueInvariantHolds ==
  ASSUME UniqueNames, NoPostedGoals
  PROVE  Spec => []QueueInvariant
<1>1. Init => QueueInvariant
  BY QueueInit
<1>2. TypeOK /\ TypeOK' /\ QueueInvariant /\ [Next]_vars => QueueInvariant'
  BY QueueNext DEF QueueContext
<1> QED  BY <1>1, <1>2, TypeCorrect, PTL DEF Spec

\* No runtime object is ever twice in the queues: whatever the interleaving of
\* rules, goal updates, launches, pod events and restarts, a plugin is launched
\* once for each trigger.
THEOREM NoDuplicatesHolds ==
  ASSUME UniqueNames, NoPostedGoals
  PROVE  Spec => []NoDuplicates
<1>1. QueueInvariant => NoDuplicates
  BY DEF QueueInvariant
<1> QED  BY <1>1, QueueInvariantHolds, PTL

\* What is queued is loaded, serves a goal of the node and has the state its queue
\* stands for.
THEOREM QueuesMatchStatusHolds ==
  ASSUME UniqueNames, NoPostedGoals
  PROVE  Spec => []QueuesMatchStatus
<1>1. QueueInvariant => QueuesMatchStatus
  BY DEF QueueInvariant
<1> QED  BY <1>1, QueueInvariantHolds, PTL

-----------------------------------------------------------------------------
(* No active plugin is lost                                                *)

\* What the induction assumes: in addition, the policy is not the round-robin
\* one, which takes a plugin out of the ready queue and so makes the launch that
\* follows crash.
ActiveContext ==
  /\ QueueContext
  /\ ActiveInvariant
  /\ Policy # "roundrobin"

\* No event but Queued activates an inactive plugin.
LEMMA InactiveStays ==
  ASSUME NEW e \in PluginState, e # Queued
  PROVE  After(Inactive, e) = Inactive
BY DEF After, Accepts, Src, PluginState, Inactive, Queued, Scheduled, Initializing, Running,
       Completed, Failed

\* A step that registers no goal and loads no object, activates no plugin and
\* takes an active one out of the queues only if its goal is being cleaned up.
LEMMA ActiveFrame ==
  ASSUME ActiveContext,
         UNCHANGED <<goals, generation>>,
         loaded' \subseteq loaded,
         \A r \in Runtime : status[r] = Inactive => status'[r] = Inactive,
         \A r \in loaded' : r.goal \in goals /\ r.goal # cleaning'.goal
                            /\ status'[r] # Inactive /\ (InReady(r) \/ InScheduled(r))
                              => InReady(r)' \/ InScheduled(r)',
         cleaning.goal = NoGoal \/ cleaning'.goal = cleaning.goal,
         pc' # "cleaning" => cleaning' = NotCleaning
  PROVE  ActiveInvariant'
<1>1. ActivePluginHeld'
  <2> SUFFICES ASSUME NEW r \in loaded', r.goal \in goals, r.goal # cleaning'.goal,
                      status'[r] # Inactive
               PROVE  InReady(r)' \/ InScheduled(r)'
    BY DEF ActivePluginHeld
  <2>1. r \in loaded /\ r \in Runtime /\ r.goal # NoGoal
    BY KubernetesAssumption DEF ActiveContext, QueueContext, TypeOK
  <2>2. InReady(r) \/ InScheduled(r)
    BY <2>1 DEF ActiveContext, ActiveInvariant, ActivePluginHeld
  <2> QED  BY <2>2
<1> QED  BY <1>1 DEF ActiveContext, ActiveInvariant

\* ... in particular one that touches neither objects nor queues.
LEMMA ActiveStutter ==
  ASSUME ActiveContext,
         UNCHANGED <<goals, generation, loaded, status, readyQueue, scheduledPlugins,
                     cleaning>>,
         pc' = pc \/ pc # "cleaning"
  PROVE  ActiveInvariant'
<1>1. \A r : InReady(r)' = InReady(r) /\ InScheduled(r)' = InScheduled(r)
  BY DEF InReady, InScheduled
<1>2. pc' # "cleaning" => cleaning' = NotCleaning
  BY DEF ActiveContext, ActiveInvariant
<1> QED  BY <1>1, <1>2, ActiveFrame

\* One that only changes the state of the object r, by an event other than Queued.
LEMMA ActiveStatusStep ==
  ASSUME ActiveContext, NEW r \in Runtime, NEW e \in PluginState, e # Queued,
         status' = [status EXCEPT ![r] = After(@, e)],
         UNCHANGED <<goals, generation, loaded, readyQueue, scheduledPlugins, cleaning>>,
         pc' = pc
  PROVE  ActiveInvariant'
<1>1. \A s : InReady(s)' = InReady(s) /\ InScheduled(s)' = InScheduled(s)
  BY DEF InReady, InScheduled
<1>2. pc' # "cleaning" => cleaning' = NotCleaning
  BY DEF ActiveContext, ActiveInvariant
<1>3. \A s \in Runtime : status'[s] = IF s = r THEN After(status[r], e) ELSE status[s]
  BY DEF ActiveContext, QueueContext, TypeOK
<1>4. \A s \in Runtime : status[s] = Inactive => status'[s] = Inactive
  BY <1>3, InactiveStays
<1> QED  BY <1>1, <1>2, <1>4, ActiveFrame

\* A goal is registered: its objects are new and hence inactive.
LEMMA ActiveRegister ==
  ASSUME ActiveContext, NEW g \in Goal, NEW G \in SUBSET goals, Register(g, G),
         cleaning.goal = NoGoal \/ cleaning.goal \notin G,
         UNCHANGED <<status, readyQueue, scheduledPlugins>>,
         cleaning' = NotCleaning
  PROVE  ActiveInvariant'
<1>1. /\ goals' = G \cup {g}
      /\ loaded' = {r \in loaded : r.goal # g}
                     \cup {r \in Runtime : r.goal = g /\ r.gen = generation[g] + 1}
      /\ \A h \in Goal \cup {NoGoal} :
           generation'[h] = IF h = g THEN generation[g] + 1 ELSE generation[h]
      /\ \A h \in Goal \cup {NoGoal} : generation[h] \in Nat
  <2>1. generation \in [Goal \cup {NoGoal} -> 0..MaxGen] /\ MaxGen \in Nat
    BY NodeAssumption DEF ActiveContext, QueueContext, TypeOK
  <2>2. generation' = [generation EXCEPT ![g] = @ + 1]
    BY DEF Register
  <2>3. \A h \in Goal \cup {NoGoal} :
          generation'[h] = IF h = g THEN generation[g] + 1 ELSE generation[h]
    BY <2>1, <2>2
  <2> QED  BY <2>1, <2>3 DEF Register
<1>2. \A r \in Runtime : r.goal \in Goal \cup {NoGoal} /\ r.gen \in Nat
  BY NodeAssumption DEF Runtime
<1>3. \A r \in Runtime : r.gen > generation[r.goal] => status[r] = Inactive
  BY DEF ActiveContext, ActiveInvariant
<1>4. loaded \subseteq Runtime
  BY DEF ActiveContext, QueueContext, TypeOK
<1>5. \A r \in Runtime : r.gen > generation'[r.goal] => status'[r] = Inactive
  BY <1>1, <1>2, <1>3
<1>6. \A r \in loaded' : r.gen <= generation'[r.goal]
  BY <1>1, <1>2, <1>4 DEF ActiveContext, ActiveInvariant
<1>7. ActivePluginHeld'
  <2> SUFFICES ASSUME NEW r \in loaded', r.goal \in goals', status'[r] # Inactive
               PROVE  InReady(r)' \/ InScheduled(r)'
    BY DEF ActivePluginHeld
  <2>1. CASE r.goal = g
    <3>1. r \in Runtime /\ r.gen > generation[r.goal]
      BY <1>1, <2>1
    <3> QED  BY <1>3, <3>1
  <2>2. CASE r.goal # g
    <3>1. r \in loaded /\ r.goal \in G /\ r.goal \in goals /\ r.goal # NoGoal
      BY <1>1, <2>2, KubernetesAssumption DEF ActiveContext, QueueContext, TypeOK
    <3>2. r.goal # cleaning.goal
      BY <3>1
    <3>3. InReady(r) \/ InScheduled(r)
      BY <3>1, <3>2 DEF ActiveContext, ActiveInvariant, ActivePluginHeld
    <3> QED  BY <3>3 DEF InReady, InScheduled
  <2> QED  BY <2>1, <2>2
<1> QED  BY <1>5, <1>6, <1>7 DEF ActiveInvariant

\* One goal of a list.
LEMMA ActiveBulkGoal ==
  ASSUME ActiveContext, NEW g \in Goal, BulkGoal(g)
  PROVE  ActiveInvariant'
<1>1. /\ pc = "bulk" /\ cleaning = NotCleaning /\ cleaning.goal = NoGoal
      /\ UNCHANGED <<status, readyQueue, scheduledPlugins>>
  BY DEF BulkGoal, runtimeVars, queueVars, ActiveContext, ActiveInvariant, NotCleaning
<1>2. CASE UNCHANGED <<goalVars, pc, cleaning>>
  BY <1>1, <1>2, ActiveStutter DEF goalVars
<1>3. CASE Register(g, goals) /\ UNCHANGED <<pc, cleaning>>
  BY <1>1, <1>3, ActiveRegister
<1>4. CASE pc' = "cleaning" /\ UNCHANGED goalVars
  <2>1. \A r : InReady(r)' = InReady(r) /\ InScheduled(r)' = InScheduled(r)
    BY <1>1 DEF InReady, InScheduled
  <2> QED  BY <1>1, <1>4, <2>1, ActiveFrame DEF goalVars
<1> QED  BY <1>2, <1>3, <1>4 DEF BulkGoal

\* After the list.
LEMMA ActiveBulkRemove ==
  ASSUME ActiveContext, BulkRemove
  PROVE  ActiveInvariant'
<1>1. /\ pc = "bulk" /\ cleaning = NotCleaning /\ cleaning.goal = NoGoal
      /\ UNCHANGED <<goals, generation, loaded, status, readyQueue, scheduledPlugins>>
  BY DEF BulkRemove, goalVars, runtimeVars, queueVars, ActiveContext, ActiveInvariant,
         NotCleaning
<1>2. \A r : InReady(r)' = InReady(r) /\ InScheduled(r)' = InScheduled(r)
  BY <1>1 DEF InReady, InScheduled
<1>3. pc' # "cleaning" => cleaning' = NotCleaning
  BY <1>1 DEF BulkRemove
<1> QED  BY <1>1, <1>2, <1>3, ActiveFrame

\* Clean-up takes nothing out of the queues but objects of its goal.
LEMMA ActiveCleanPlugin ==
  ASSUME ActiveContext, NEW n \in Name, CleanPlugin(n)
  PROVE  ActiveInvariant'
<1>1. /\ pc = "cleaning" /\ UNCHANGED <<pc, goals, generation, status>>
      /\ cleaning'.goal = cleaning.goal
  BY DEF CleanPlugin, ActiveContext, QueueContext, TypeOK
<1>2. loaded' \subseteq loaded
  BY DEF CleanPlugin
<1>3. ASSUME NEW r \in loaded', r.goal # cleaning.goal, InReady(r) \/ InScheduled(r)
      PROVE  InReady(r)' \/ InScheduled(r)'
  <2>1. CASE UNCHANGED <<readyQueue, scheduledPlugins>>
    BY <1>3, <2>1 DEF InReady, InScheduled
  <2>2. ASSUME NEW s \in loaded, s.name = n, s.goal = cleaning.goal,
               readyQueue' = AfterPop(readyQueue, n),
               scheduledPlugins' = AfterPop(scheduledPlugins, n)
        PROVE  InReady(r)' \/ InScheduled(r)'
    <3>1. /\ r \in Runtime /\ s \in Runtime /\ s.goal \in goals /\ s.goal # NoGoal
      BY <1>1, <1>2, <2>2, KubernetesAssumption
      DEF ActiveContext, QueueContext, QueueInvariant, TypeOK
    <3>2. r.name # n
      BY <1>3, <2>2, <3>1, NameDetermines DEF ActiveContext
    <3>3. readyQueue \in Seq(Runtime) /\ scheduledPlugins \in Seq(Runtime)
      BY DEF ActiveContext, QueueContext, TypeOK
    <3>4. /\ r \in ToSet(readyQueue) => r \in ToSet(AfterPop(readyQueue, n))
          /\ r \in ToSet(scheduledPlugins) => r \in ToSet(AfterPop(scheduledPlugins, n))
      BY <3>2, <3>3, AfterPopProperties
    <3> QED  BY <1>3, <2>2, <3>4 DEF InReady, InScheduled
  <2> QED  BY <2>1, <2>2 DEF CleanPlugin
<1> QED  BY <1>1, <1>2, <1>3, ActiveFrame

\* The goal is dropped, or replaced.
LEMMA ActiveCleanDone ==
  ASSUME ActiveContext, CleanDone
  PROVE  ActiveInvariant'
<1> DEFINE left == goals \ {cleaning.goal}
<1>1. /\ cleaning' = NotCleaning /\ UNCHANGED <<status, readyQueue, scheduledPlugins>>
  BY DEF CleanDone, runtimeVars, queueVars
<1>2. CASE cleaning.next = NoGoal
  <2>1. goals' = left /\ UNCHANGED <<generation, loaded>>
    BY <1>2 DEF CleanDone
  <2>2. \A r : InReady(r)' = InReady(r) /\ InScheduled(r)' = InScheduled(r)
    BY <1>1 DEF InReady, InScheduled
  <2>3. ActivePluginHeld'
    BY <1>1, <2>1, <2>2 DEF ActiveContext, ActiveInvariant, ActivePluginHeld
  <2> QED  BY <1>1, <2>1, <2>3 DEF ActiveContext, ActiveInvariant
<1>3. CASE cleaning.next # NoGoal
  <2>1. Register(cleaning.next, left)
    BY <1>3 DEF CleanDone
  <2>2. cleaning.next \in Goal /\ left \in SUBSET goals /\ cleaning.goal \notin left
    BY <1>3 DEF ActiveContext, QueueContext, TypeOK
  <2> HIDE DEF left
  <2> QED  BY <1>1, <2>1, <2>2, ActiveRegister
<1> QED  BY <1>2, <1>3

\* A triggered plugin is pushed.
LEMMA ActiveQueuePlugin ==
  ASSUME ActiveContext, NEW r \in Runtime, QueuePlugin(r)
  PROVE  ActiveInvariant'
<1>1. /\ r \in loaded /\ pc # "cleaning" /\ readyQueue' = Push(readyQueue, r)
      /\ UNCHANGED <<goals, generation, loaded, scheduledPlugins, cleaning>>
      /\ status' = [status EXCEPT ![r] = Queued]
  BY DEF QueuePlugin, goalVars, bulkVars
<1>2. readyQueue \in Seq(Runtime)
  BY DEF ActiveContext, QueueContext, TypeOK
<1>3. \A s : InReady(s)' = (InReady(s) \/ s = r) /\ InScheduled(s)' = InScheduled(s)
  BY <1>1, <1>2, PushProperties DEF InReady, InScheduled
<1>4. \A s \in Runtime : s # r => status'[s] = status[s]
  BY <1>1 DEF ActiveContext, QueueContext, TypeOK
<1>5. r.gen \in Nat /\ generation[r.goal] \in Nat /\ r.gen <= generation[r.goal]
  <2>1. r.gen \in 1..MaxGen /\ r.goal \in Goal \cup {NoGoal}
    BY DEF Runtime
  <2>2. generation[r.goal] \in 0..MaxGen
    BY <2>1 DEF ActiveContext, QueueContext, TypeOK
  <2>3. r.gen <= generation[r.goal]
    BY <1>1 DEF ActiveContext, ActiveInvariant
  <2> QED  BY <2>1, <2>2, <2>3, NodeAssumption
<1>6. \A s \in Runtime : s.gen > generation'[s.goal] => status'[s] = Inactive
  BY <1>1, <1>4, <1>5 DEF ActiveContext, ActiveInvariant
<1>7. loaded \subseteq Runtime
  BY DEF ActiveContext, QueueContext, TypeOK
<1>8. ActivePluginHeld'
  BY <1>1, <1>3, <1>4, <1>7 DEF ActiveContext, ActiveInvariant, ActivePluginHeld
<1> QED  BY <1>1, <1>6, <1>8 DEF ActiveContext, ActiveInvariant

\* A launch moves an entry from the one queue to the other.
LEMMA ActiveLaunchNext ==
  ASSUME ActiveContext, LaunchNext
  PROVE  ActiveInvariant'
<1> DEFINE n == Head(toRun).name
           p == Popped(readyQueue, n)
<1>1. /\ pc = "launching" /\ pc' \in {"launching", "crashed"}
      /\ UNCHANGED <<goals, generation, loaded, status, cleaning>>
  BY DEF LaunchNext, goalVars, runtimeVars, bulkVars
<1>2. CASE ~ HasName(readyQueue, n)
  <2>1. UNCHANGED <<readyQueue, scheduledPlugins>>
    BY <1>2 DEF LaunchNext
  <2> QED  BY <1>1, <2>1, ActiveStutter
<1>3. CASE HasName(readyQueue, n)
  <2>1. readyQueue \in Seq(Runtime) /\ scheduledPlugins \in Seq(Runtime)
    BY DEF ActiveContext, QueueContext, TypeOK
  <2>2. /\ readyQueue' = AfterPop(readyQueue, n)
        /\ scheduledPlugins' = Push(scheduledPlugins, p)
    BY <1>3 DEF LaunchNext
  <2>3. /\ p \in ToSet(readyQueue)
        /\ \A s \in ToSet(readyQueue) : s # p => s \in ToSet(readyQueue')
    BY <1>3, <2>1, <2>2, AfterPopProperties
  <2>4. p \in Runtime
    BY <2>1, <2>3 DEF ToSet
  <2>5. ToSet(scheduledPlugins') = ToSet(scheduledPlugins) \cup {p}
    BY <2>1, <2>2, <2>4, PushProperties
  <2> HIDE DEF p, n
  <2>6. \A s : InReady(s) \/ InScheduled(s) => InReady(s)' \/ InScheduled(s)'
    BY <2>3, <2>5 DEF InReady, InScheduled
  <2>7. pc' # "cleaning" => cleaning' = NotCleaning
    BY <1>1 DEF ActiveContext, ActiveInvariant
  <2> QED  BY <1>1, <2>6, <2>7, ActiveFrame
<1> QED  BY <1>2, <1>3

\* The plugin whose pod is gone leaves the scheduled plugins and is inactive.
LEMMA ActivePodDeleted ==
  ASSUME ActiveContext, NEW r \in loaded, PodDeleted(r)
  PROVE  ActiveInvariant'
<1>1. r \in Runtime /\ r.goal # NoGoal /\ InScheduled(r)
  BY ManagedIsScheduled DEF PodDeleted, ActiveContext
<1>2. /\ UNCHANGED <<goals, generation, loaded, readyQueue, cleaning>>
      /\ scheduledPlugins' = AfterPop(scheduledPlugins, r.name)
      /\ pc = "select" /\ pc' # "cleaning"
      /\ status' = [status EXCEPT ![r] = After(After(status[r], Failed), Inactive)]
  BY DEF PodDeleted, ReceivePodEvent, goalVars, bulkVars
<1>3. After(After(status[r], Failed), Inactive) = Inactive
  <2>1. After(status[r], Failed) \in PluginState
    <3>1. Failed \in PluginState
      BY DEF PluginState
    <3>2. status[r] \in PluginState
      BY <1>1 DEF ActiveContext, QueueContext, TypeOK
    <3> QED  BY <3>1, <3>2, AfterType
  <2>2. \A s \in PluginState : After(s, Inactive) = Inactive
    BY DEF After, Accepts, Src, PluginState, Inactive, Queued, Scheduled, Initializing,
           Running, Completed, Failed
  <2> QED  BY <2>1, <2>2
<1>4. \A s \in Runtime : status'[s] = IF s = r THEN Inactive ELSE status[s]
  BY <1>2, <1>3 DEF ActiveContext, QueueContext, TypeOK
<1>5. \A s \in Runtime : status[s] = Inactive => status'[s] = Inactive
  BY <1>4
<1>6. ASSUME NEW s \in Runtime, s # r, InReady(s) \/ InScheduled(s)
      PROVE  InReady(s)' \/ InScheduled(s)'
  <2>1. s.name # r.name
    BY <1>1, <1>6, NameDetermines DEF ActiveContext
  <2>2. scheduledPlugins \in Seq(Runtime)
    BY DEF ActiveContext, QueueContext, TypeOK
  <2>3. s \in ToSet(scheduledPlugins) => s \in ToSet(AfterPop(scheduledPlugins, r.name))
    BY <2>1, <2>2, AfterPopProperties
  <2> QED  BY <1>2, <1>6, <2>3 DEF InReady, InScheduled
<1>7. cleaning' = NotCleaning
  BY <1>2 DEF ActiveContext, ActiveInvariant
<1>8. loaded' \subseteq Runtime
  BY DEF ActiveContext, QueueContext, TypeOK
<1> QED  BY <1>2, <1>4, <1>5, <1>6, <1>7, <1>8, ActiveFrame

\* A submitted plugin is pushed; its object is inactive and stays so.
LEMMA ActiveAPISchedule ==
  ASSUME ActiveContext, NEW n \in APINames, APISchedule(n)
  PROVE  ActiveInvariant'
<1> DEFINE x == [name |-> n, goal |-> NoGoal, gen |-> generation[NoGoal] + 1]
<1>1. /\ UNCHANGED <<goals, loaded, status, scheduledPlugins, cleaning, pc>>
      /\ readyQueue' = Push(readyQueue, x)
      /\ generation' = [generation EXCEPT ![NoGoal] = @ + 1]
      /\ generation[NoGoal] < MaxGen
  BY DEF APISchedule, runtimeVars, bulkVars
<1>2. generation \in [Goal \cup {NoGoal} -> 0..MaxGen] /\ MaxGen \in Nat
  BY NodeAssumption DEF ActiveContext, QueueContext, TypeOK
<1>3. x \in Runtime
  BY <1>1, <1>2, NodeAssumption DEF Runtime
<1> HIDE DEF x
<1>4. readyQueue \in Seq(Runtime)
  BY DEF ActiveContext, QueueContext, TypeOK
<1>5. ToSet(readyQueue') = ToSet(readyQueue) \cup {x}
  BY <1>1, <1>3, <1>4, PushProperties
<1>6. \A s : /\ InReady(s) => InReady(s)'
             /\ InScheduled(s) => InScheduled(s)'
  BY <1>1, <1>5 DEF InReady, InScheduled
<1>7. \A h \in Goal \cup {NoGoal} :
        generation[h] \in Nat /\ generation'[h] \in Nat /\ generation[h] <= generation'[h]
  BY <1>1, <1>2
<1>8. \A r \in Runtime : r.goal \in Goal \cup {NoGoal} /\ r.gen \in Nat
  BY NodeAssumption DEF Runtime
<1>9. loaded \subseteq Runtime
  BY DEF ActiveContext, QueueContext, TypeOK
<1>10. /\ \A r \in loaded' : r.gen <= generation'[r.goal]
       /\ \A r \in Runtime : r.gen > generation'[r.goal] => status'[r] = Inactive
  BY <1>1, <1>7, <1>8, <1>9 DEF ActiveContext, ActiveInvariant
<1>11. ActivePluginHeld'
  BY <1>1, <1>6 DEF ActiveContext, ActiveInvariant, ActivePluginHeld
<1> QED  BY <1>1, <1>10, <1>11 DEF ActiveContext, ActiveInvariant

\* Initially, and after a restart, nothing is loaded or active.
LEMMA ActiveInit == Init => ActiveInvariant
BY DEF Init, ActiveInvariant, ActivePluginHeld

LEMMA ActiveRestart ==
  ASSUME Restart
  PROVE  ActiveInvariant'
BY DEF Restart, ActiveInvariant, ActivePluginHeld

\* Every step of the node and of its cluster keeps the invariant.
LEMMA ActiveNext == ActiveContext /\ [Next]_vars => ActiveInvariant'
<1> SUFFICES ASSUME ActiveContext, [Next]_vars PROVE ActiveInvariant'
  OBVIOUS
<1> USE DEF goalVars, runtimeVars, queueVars, bulkVars
<1>1. ASSUME NEW G \in GoalLists, CloudSendsGoals(G) PROVE ActiveInvariant'
  BY <1>1, ActiveStutter DEF CloudSendsGoals
<1>2. CASE ReceiveFromCloud
  BY <1>2, ActiveStutter DEF ReceiveFromCloud
<1>3. CASE ReceiveConfigMap
  BY <1>3, ActiveStutter DEF ReceiveConfigMap
<1>4. CASE HandleGoals
  BY <1>4, ActiveBulkGoal, ActiveBulkRemove, ActiveCleanPlugin, ActiveCleanDone DEF HandleGoals
<1>5. CASE EvaluateRules
  <2>1. CASE RulesEvaluated
    BY <2>1, ActiveStutter DEF RulesEvaluated
  <2>2. CASE IdleTick
    BY <2>2, ActiveStutter DEF IdleTick, vars
  <2> QED  BY <1>5, <2>1, <2>2, ActiveQueuePlugin DEF EvaluateRules
<1>6. CASE TriggerScheduling
  BY <1>6, ActiveStutter DEF TriggerScheduling
<1>7. CASE Schedule
  <2>1. CASE StartScheduling
    <3>1. /\ UNCHANGED <<goals, generation, loaded, status, readyQueue, scheduledPlugins,
                         cleaning>>
          /\ pc # "cleaning"
      BY <2>1 DEF StartScheduling, ActiveContext
    <3> QED  BY <3>1, ActiveStutter
  <2>2. CASE SelectNext
    BY <2>2, ActiveStutter DEF SelectNext
  <2>3. CASE SelectDone
    BY <2>3, ActiveStutter DEF SelectDone
  <2>4. CASE LaunchDone
    BY <2>4, ActiveStutter DEF LaunchDone
  <2> QED  BY <1>7, <2>1, <2>2, <2>3, <2>4, ActiveLaunchNext DEF Schedule
<1>8. CASE Launch
  <2>1. ASSUME NEW r \in Runtime, CreatePod(r) PROVE ActiveInvariant'
    BY <2>1, ActiveStutter DEF CreatePod
  <2>2. ASSUME NEW r \in Runtime, AbortPod(r) PROVE ActiveInvariant'
    BY <2>2, ActiveStutter DEF AbortPod
  <2> QED  BY <1>8, <2>1, <2>2 DEF Launch
<1>9. CASE HandlePodEvent
  <2>1. CASE IgnorePodEvent
    BY <2>1, ActiveStutter DEF IgnorePodEvent
  <2>2. loaded \subseteq Runtime
    BY DEF ActiveContext, QueueContext, TypeOK
  <2>3. ASSUME NEW r \in loaded, PodAdded(r) PROVE ActiveInvariant'
    <3>1. Scheduled \in PluginState /\ Scheduled # Queued
      BY DEF PluginState, Scheduled, Queued
    <3> QED  BY <2>2, <2>3, <3>1, ActiveStatusStep DEF PodAdded
  <2>4. ASSUME NEW r \in loaded, PodModified(r) PROVE ActiveInvariant'
    <3>1. UNCHANGED <<goals, generation, loaded, readyQueue, scheduledPlugins, cleaning, pc>>
      BY <2>4 DEF PodModified
    <3>2. CASE UNCHANGED status
      BY <3>1, <3>2, ActiveStutter
    <3>3. ASSUME NEW v, NEW e \in EventsOfView(v),
                 status' = [status EXCEPT ![r] = After(@, e)]
          PROVE  ActiveInvariant'
      <4>1. e \in {Initializing, Running, Completed, Failed}
        BY <3>3 DEF EventsOfView
      <4>2. e \in PluginState /\ e # Queued
        BY <4>1 DEF PluginState, Initializing, Running, Completed, Failed, Queued
      <4> QED  BY <2>2, <3>1, <3>3, <4>2, ActiveStatusStep
    <3> QED  BY <2>4, <3>2, <3>3 DEF PodModified
  <2> QED  BY <1>9, <2>1, <2>3, <2>4, ActivePodDeleted DEF HandlePodEvent
<1>10. CASE ReceiveKubeEvent
  <2>1. UNCHANGED <<goals, generation, loaded, readyQueue, scheduledPlugins, cleaning, pc>>
    BY <1>10 DEF ReceiveKubeEvent
  <2>2. CASE UNCHANGED status
    BY <2>1, <2>2, ActiveStutter
  <2>3. ASSUME NEW r \in loaded, status' = [status EXCEPT ![r] = After(@, Failed)]
        PROVE  ActiveInvariant'
    <3>1. r \in Runtime /\ Failed \in PluginState /\ Failed # Queued
      BY DEF ActiveContext, QueueContext, TypeOK, PluginState, Failed, Queued
    <3> QED  BY <2>1, <2>3, <3>1, ActiveStatusStep
  <2> QED  BY <1>10, <2>2, <2>3 DEF ReceiveKubeEvent
<1>11. CASE API
  <2>1. CASE APITrigger
    BY <2>1, ActiveStutter DEF APITrigger
  <2>2. ~ \E g \in APIGoals : APIAddGoal(g)
    BY DEF ActiveContext, QueueContext, NoPostedGoals
  <2> QED  BY <1>11, <2>1, <2>2, ActiveAPISchedule DEF API
<1>12. CASE Restart
  BY <1>12, ActiveRestart
<1>13. CASE Cluster
  BY <1>13, ActiveStutter DEF Cluster
<1>14. CASE UNCHANGED vars
  BY <1>14, ActiveStutter DEF vars
<1> QED
  BY <1>1, <1>2, <1>3, <1>4, <1>5, <1>6, <1>7, <1>8, <1>9, <1>10, <1>11, <1>12, <1>13,
     <1>14 DEF Next

\* The bookkeeping that keeps an active plugin in a queue, unless the policy is the
\* round-robin one: what is loaded was registered, what was not yet registered has
\* never been active, and cleaning names a goal only while it is cleaned up.
THEOREM ActiveInvariantHolds ==
  ASSUME UniqueNames, NoPostedGoals, Policy # "roundrobin"
  PROVE  Spec => []ActiveInvariant
<1>1. Init => ActiveInvariant
  BY ActiveInit
<1>2. TypeOK /\ TypeOK' /\ QueueInvariant /\ ActiveInvariant /\ [Next]_vars
        => ActiveInvariant'
  BY ActiveNext DEF ActiveContext, QueueContext
<1> QED  BY <1>1, <1>2, TypeCorrect, QueueInvariantHolds, PTL DEF Spec

\* No active plugin is lost by rules, goal updates, launches, late pod events and
\* restarts (nodescheduler.go, line 169), unless the policy is the round-robin one.
THEOREM ActivePluginHeldHolds ==
  ASSUME UniqueNames, NoPostedGoals, Policy # "roundrobin"
  PROVE  Spec => []ActivePluginHeld
<1>1. ActiveInvariant => ActivePluginHeld
  BY DEF ActiveInvariant
<1> QED  BY <1>1, ActiveInvariantHolds, PTL
=============================================================================
