--------------------------- MODULE PluginCtlProofs ---------------------------
(***************************************************************************)
(* Proofs about PluginCtl, for all sets of invocations, deployments,       *)
(* secrets and faults.                                                     *)
(***************************************************************************)
EXTENDS PluginCtlProperties, SequenceTheorems, TLAPS

-----------------------------------------------------------------------------
(* Types                                                                   *)

\* What is watched.
LEMMA TellType ==
  ASSUME TypeOK, NEW e \in {"final", "deleted"}
  PROVE  Tell(e) \in [Clients -> Seq({"final", "deleted"})]
<1>1. ASSUME NEW c \in Clients
      PROVE  /\ watched[c] \in Seq({"final", "deleted"})
             /\ Append(watched[c], e) \in Seq({"final", "deleted"})
  <2>1. watched[c] \in Seq({"final", "deleted"})
    BY DEF TypeOK
  <2> QED  BY <2>1, AppendProperties
<1> QED  BY <1>1 DEF Tell

\* run and profile make a pod and never force.
LEMMA AsRunFields ==
  ASSUME NEW d \in Deployments
  PROVE  AsRun(d).type = "pod" /\ AsRun(d).force = FALSE /\ AsRun(d).dryRun = FALSE
<1>1. {"type", "force", "dryRun", "options"} \subseteq DOMAIN d
  BY PluginCtlAssumption DEF Field
<1> QED  BY <1>1 DEF AsRun

\* A deployment of the invocation is one of those that are typed.
LEMMA FlagsType ==
  ASSUME NEW c \in Clients, NEW d \in Deployments
  PROVE  /\ Flags(c, d) \in Deployments \cup {AsRun(x) : x \in Deployments}
         /\ Flags(c, d) # None
         /\ ObjectOf(Flags(c, d)) # NoTemplate => Flags(c, d).type \in Type
         /\ command[c] \in Followers =>
              Flags(c, d).type = "pod" /\ Flags(c, d).force = FALSE
<1>1. Flags(c, d) \in Deployments \cup {AsRun(x) : x \in Deployments}
  BY DEF Flags
<1>2. ASSUME NEW f, ObjectOf(f) # NoTemplate PROVE f.type # "unknown"
  BY <1>2 DEF ObjectOf
<1>3. Flags(c, d).type \in Type \cup {"unknown"}
  <2>1. CASE command[c] \in {"run", "profile"}
    BY <2>1, AsRunFields DEF Flags, Type
  <2>2. CASE command[c] \notin {"run", "profile"}
    BY <2>2, PluginCtlAssumption DEF Flags
  <2> QED  BY <2>1, <2>2
<1>4. command[c] \in Followers => Flags(c, d).type = "pod" /\ Flags(c, d).force = FALSE
  BY AsRunFields DEF Followers, Flags
<1> QED  BY <1>1, <1>2, <1>3, <1>4, NoneAssumption

\* The places an invocation can be sent to.
LEMMA GoType ==
  ASSUME TypeOK, NEW c \in Clients, NEW where \in At, Go(c, where)
  PROVE  at' \in [Clients -> At]
BY DEF TypeOK, Go

\* An invocation that ends.
LEMMA ExitType ==
  ASSUME TypeOK, NEW c \in Clients, NEW how \in Ends, Exit(c, how)
  PROVE  /\ at' \in [Clients -> At]
         /\ watcher' \in [Clients -> {"none", "starting", "open", "closed"}]
         /\ watched' \in [Clients -> Seq({"final", "deleted"})]
         /\ signal' \in [Clients -> BOOLEAN]
         /\ log' \in [Clients -> {"none", "reading", "spinning", "done"}]
<1>1. <<>> \in Seq({"final", "deleted"})
  BY EmptySeq
<1>2. how \in At
  BY DEF At
<1> QED  BY <1>1, <1>2, GoType DEF Exit, TypeOK

\* An object that goes away.
LEMMA GoneType ==
  ASSUME TypeOK, NEW k, Gone(k)
  PROVE  /\ object' \in [Type -> Object \cup {None}]
         /\ watched' \in [Clients -> Seq({"final", "deleted"})]
<1>1. Tell("deleted") \in [Clients -> Seq({"final", "deleted"})]
  BY TellType
<1>2. /\ object \in [Type -> Object \cup {None}]
      /\ watched \in [Clients -> Seq({"final", "deleted"})]
  BY DEF TypeOK
<1> QED  BY <1>1, <1>2 DEF Gone

\* A pod that is deleted has a maker.
LEMMA TakenType ==
  ASSUME TypeOK, NEW c \in Clients PROVE Taken(c) \subseteq Clients
<1>1. object["pod"] # None => object["pod"] \in Object
  BY DEF TypeOK, Type
<1> QED  BY <1>1 DEF Taken, TypeOK, Object

\* The initial state has the types.
LEMMA TypeInit == Init => TypeOK
<1>1. <<>> \in Seq({"final", "deleted"})
  BY EmptySeq
<1> QED  BY <1>1, PluginCtlAssumption DEF Init, TypeOK, At


\* The actions of an invocation that deploys.
LEMMA DeployType ==
  ASSUME TypeOK, NEW c \in Clients, Deploy(c) PROVE TypeOK'
<1> USE DEF At, Ends
<1>1. ASSUME Begin(c) PROVE TypeOK'
  <2>1. PICK d \in Deployments :
          LET f == Flags(c, d)
          IN IF ObjectOf(f) = NoTemplate THEN Refused(c) /\ UNCHANGED dep
             ELSE IF f.dryRun THEN Go(c, "ended") /\ UNCHANGED dep
             ELSE Go(c, "get") /\ dep' = [dep EXCEPT ![c] = f]
    BY <1>1 DEF Begin
  <2>2. at' \in [Clients -> At]
    <3>1. Refused(c) \/ Go(c, "ended") \/ Go(c, "get")
      BY <2>1
    <3> QED  BY <3>1, GoType DEF Refused
  <2>3. dep' \in [Clients -> Deployments \cup {AsRun(x) : x \in Deployments} \cup {None}]
    <3>1. PICK f \in Deployments \cup {AsRun(x) : x \in Deployments} :
            dep' = dep \/ dep' = [dep EXCEPT ![c] = f]
      BY <2>1, FlagsType
    <3> QED  BY <3>1 DEF TypeOK
  <2> QED  BY <1>1, <2>2, <2>3 DEF Begin, TypeOK, followVars
<1>2. ASSUME GetExisting(c) PROVE TypeOK'
  BY <1>2, GoType DEF GetExisting, TypeOK, followVars
<1>3. ASSUME Update(c) PROVE TypeOK'
  <2>1. at' \in [Clients -> At]
    BY <1>3, GoType DEF Update, Refused, Deployed
  <2> QED  BY <1>3, <2>1 DEF Update, TypeOK, followVars
<1>4. ASSUME Delete(c) PROVE TypeOK'
  <2> DEFINE k == dep[c].type
  <2>1. at' \in [Clients -> At]
    BY <1>4, GoType DEF Delete, Refused
  <2>2. /\ object' \in [Type -> Object \cup {None}]
        /\ watched' \in [Clients -> Seq({"final", "deleted"})]
    <3>1. CASE object[k] = None
      BY <1>4, <3>1 DEF Delete, TypeOK
    <3>2. CASE object[k] # None /\ Gone(k)
      BY <3>2, GoneType
    <3>3. CASE object[k] # None /\ object' = [object EXCEPT ![k].deleting = TRUE] /\ k = "pod"
               /\ UNCHANGED watched
      <4>1. object["pod"] \in Object
        BY <3>3 DEF TypeOK, Type
      <4>2. [object["pod"] EXCEPT !.deleting = TRUE] \in Object
        BY <4>1 DEF Object
      <4> QED  BY <3>3, <4>2 DEF TypeOK
    <3> QED  BY <1>4, <3>1, <3>2, <3>3 DEF Delete
  <2>3. taken' \subseteq Clients
    BY <1>4, TakenType DEF Delete, TypeOK
  <2> QED  BY <1>4, <2>1, <2>2, <2>3 DEF Delete, TypeOK, followVars
<1>5. ASSUME Create(c) PROVE TypeOK'
  <2>1. at' \in [Clients -> At]
    BY <1>5, GoType DEF Create, Refused, Deployed
  <2>2. [uid |-> c, phase |-> "Pending", deleting |-> FALSE] \in Object
    BY DEF Object, Phase
  <2>3. object' \in [Type -> Object \cup {None}]
    BY <1>5, <2>2 DEF Create, TypeOK
  <2> QED  BY <1>5, <2>1, <2>3 DEF Create, TypeOK, followVars
<1> QED  BY <1>1, <1>2, <1>3, <1>4, <1>5 DEF Deploy

\* One turn of the status loop.
LEMMA PollType ==
  ASSUME TypeOK, DeployInvariant, NEW c \in Clients, Poll(c) PROVE TypeOK'
<1> USE DEF At, Ends
<1>1. PICK answer \in Phase \cup {"error"} :
        IF answer = "error"
        THEN /\ errorCount' = [errorCount EXCEPT ![c] = @ + 1]
             /\ IF Tolerated(c) THEN UNCHANGED <<at, watcher, watched, signal, log>>
                ELSE GiveUp(c)
        ELSE /\ UNCHANGED errorCount
             /\ \/ answer \in Follows(c) /\ StartFollowing(c)
                \/ answer \in GivesUp(c) /\ GiveUp(c)
                \/ answer \notin Follows(c) \cup GivesUp(c)
                   /\ UNCHANGED <<at, watcher, watched, signal, log>>
  BY DEF Poll
<1>2. errorCount[c] <= MaxErrorCount /\ errorCount[c] \in 0..MaxErrorCount + 1
  BY DEF Poll, DeployInvariant, Orderly, TypeOK
<1>3. errorCount[c] + 1 \in 0..MaxErrorCount + 1
  BY <1>2, PluginCtlAssumption
<1>4. errorCount' \in [Clients -> 0..MaxErrorCount + 1]
  BY <1>1, <1>3 DEF TypeOK
<1> DEFINE Goroutines == /\ at' \in [Clients -> At]
                         /\ watcher' \in [Clients -> {"none", "starting", "open", "closed"}]
                         /\ watched' \in [Clients -> Seq({"final", "deleted"})]
                         /\ signal' \in [Clients -> BOOLEAN]
                         /\ log' \in [Clients -> {"none", "reading", "spinning", "done"}]
<1>5. ASSUME GiveUp(c) PROVE Goroutines
  <2>1. CASE Exit(c, "left")
    BY <2>1, ExitType
  <2>2. CASE Go(c, "terminate") /\ UNCHANGED <<watcher, watched, signal, log>>
    BY <2>2, GoType DEF TypeOK
  <2> QED  BY <1>5, <2>1, <2>2 DEF GiveUp
<1>6. ASSUME StartFollowing(c) PROVE Goroutines
  BY <1>6, GoType DEF StartFollowing, TypeOK
<1>7. ASSUME UNCHANGED <<at, watcher, watched, signal, log>> PROVE Goroutines
  BY <1>7 DEF TypeOK
<1>8. Goroutines
  BY <1>1, <1>5, <1>6, <1>7
<1> QED  BY <1>4, <1>8 DEF Poll, TypeOK

\* The deletion of the pod, whether it succeeds or not.
LEMMA DeletePodType ==
  ASSUME TypeOK, NEW c \in Clients, DeletePod(c) PROVE TypeOK'
<1> USE DEF At, Ends
<1>1. at' \in [Clients -> At]
  BY GoType DEF DeletePod
<1>2. <<>> \in Seq({"final", "deleted"})
  BY EmptySeq
<1>3. Tell("deleted") \in [Clients -> Seq({"final", "deleted"})]
  BY TellType
<1>4. watched \in [Clients -> Seq({"final", "deleted"})]
  BY DEF TypeOK
<1>5. watched' \in [Clients -> Seq({"final", "deleted"})]
  BY <1>2, <1>3, <1>4 DEF DeletePod
<1>6. object' \in [Type -> Object \cup {None}]
  BY DEF DeletePod, TypeOK
<1>7. taken' \subseteq Clients
  BY TakenType DEF DeletePod, TypeOK
<1> QED  BY <1>1, <1>5, <1>6, <1>7 DEF DeletePod, TypeOK

\* The goroutines of an invocation that follows its pod.
LEMMA FollowType ==
  ASSUME TypeOK, DeployInvariant, NEW c \in Clients, Follow(c) PROVE TypeOK'
<1> USE DEF At, Ends
<1>1. ASSUME OpenLog(c) PROVE TypeOK'
  <2>1. at' \in [Clients -> At]
    BY <1>1, GoType DEF OpenLog
  <2> QED  BY <1>1, <2>1 DEF OpenLog, TypeOK
<1>2. ASSUME Finish(c) PROVE TypeOK'
  BY <1>2, GoType DEF Finish, TypeOK
<1>3. ASSUME OpenWatch(c) PROVE TypeOK'
  <2>1. CASE Exit(c, "crashed")
    BY <1>3, <2>1, ExitType DEF OpenWatch, TypeOK
  <2>2. CASE watcher' = [watcher EXCEPT ![c] = "open"] /\ UNCHANGED <<at, watched, signal, log>>
    BY <1>3, <2>2 DEF OpenWatch, TypeOK
  <2> QED  BY <1>3, <2>1, <2>2 DEF OpenWatch
<1>4. ASSUME HandleWatched(c) PROVE TypeOK'
  <2>1. watched[c] \in Seq({"final", "deleted"}) /\ watched[c] # <<>>
    BY <1>4 DEF HandleWatched, TypeOK
  <2>2. Tail(watched[c]) \in Seq({"final", "deleted"})
    BY <2>1, HeadTailProperties
  <2> QED  BY <1>4, <2>2 DEF HandleWatched, TypeOK
<1>5. ASSUME LogEnds(c) PROVE TypeOK'
  <2>1. log' \in [Clients -> {"none", "reading", "spinning", "done"}]
    BY <1>5 DEF LogEnds, TypeOK
  <2> QED  BY <1>5, <2>1 DEF LogEnds, TypeOK
<1>6. ASSUME WatchCloses(c) PROVE TypeOK'
  <2>1. <<>> \in Seq({"final", "deleted"}) /\ watched[c] \in Seq({"final", "deleted"})
    BY EmptySeq DEF TypeOK
  <2> QED  BY <1>6, <2>1 DEF WatchCloses, TypeOK
<1> QED  BY <1>1, <1>2, <1>3, <1>4, <1>5, <1>6, PollType, DeletePodType DEF Follow, Terminate


\* The cluster and the user.
LEMMA OthersType ==
  ASSUME TypeOK, Cluster \/ \E c \in Clients : Interrupt(c) PROVE TypeOK'
<1> USE DEF At, Ends
<1>1. ASSUME PodReaped PROVE TypeOK'
  BY <1>1, GoneType DEF PodReaped, TypeOK
<1>2. ASSUME NEW phase \in Phase, PodProgress(phase) PROVE TypeOK'
  <2>1. object["pod"] \in Object
    BY <1>2 DEF PodProgress, TypeOK, Type
  <2>2. [object["pod"] EXCEPT !.phase = phase] \in Object
    BY <2>1 DEF Object
  <2>3. object' \in [Type -> Object \cup {None}]
    BY <1>2, <2>2 DEF PodProgress, TypeOK
  <2>4. Tell("final") \in [Clients -> Seq({"final", "deleted"})]
    BY TellType
  <2>5. watched' \in [Clients -> Seq({"final", "deleted"})]
    BY <1>2, <2>4 DEF PodProgress, TypeOK
  <2> QED  BY <1>2, <2>3, <2>5 DEF PodProgress, TypeOK
<1>3. ASSUME NEW c \in Clients, Interrupt(c) PROVE TypeOK'
  <2>1. CASE Exit(c, "killed")
    BY <1>3, <2>1, ExitType DEF Interrupt, TypeOK
  <2>2. CASE signal' = [signal EXCEPT ![c] = TRUE] /\ UNCHANGED <<at, watcher, watched, log>>
    BY <1>3, <2>2 DEF Interrupt, TypeOK
  <2> QED  BY <1>3, <2>1, <2>2 DEF Interrupt
<1> QED  BY <1>1, <1>2, <1>3 DEF Cluster

\* No step breaks the types.
LEMMA TypeStep ==
  ASSUME TypeOK, DeployInvariant, [Next]_vars PROVE TypeOK'
<1>1. CASE UNCHANGED vars
  BY <1>1 DEF vars, TypeOK
<1>2. CASE \E c \in Clients : Remove(c)
  BY <1>2, DeletePodType DEF Remove
<1> QED  BY <1>1, <1>2, DeployType, FollowType, OthersType DEF Next

-----------------------------------------------------------------------------
(* What invocations are about to do                                        *)

\* A step of one invocation leaves the others alone.
LEMMA OneOrderly ==
  ASSUME DeployInvariant, NEW c \in Clients, Orderly(c)',
         UNCHANGED command,
         \A x \in Clients \ {c} :
           UNCHANGED <<at[x], dep[x], errorCount[x]>>
  PROVE  DeployInvariant'
<1>1. \A x \in Clients \ {c} : Orderly(x)'
  BY DEF DeployInvariant, Orderly
<1> QED  BY <1>1 DEF DeployInvariant

\* An invocation that ends or terminates its pod, having done nothing new.
LEMMA MovesOrderly ==
  ASSUME TypeOK, DeployInvariant, NEW c \in Clients,
         NEW where \in Ends \cup {"follow", "wait", "terminate"}, Go(c, where),
         where \in {"follow", "wait", "terminate"} => command[c] \in Followers,
         UNCHANGED <<command, dep>>,
         \A x \in Clients \ {c} : errorCount'[x] = errorCount[x]
  PROVE  DeployInvariant'
<1>1. /\ at'[c] = where
      /\ \A x \in Clients \ {c} : at'[x] = at[x]
  BY DEF Go, TypeOK
<1>2. Orderly(c)
  BY DEF DeployInvariant
<1>3. Orderly(c)'
  BY <1>1, <1>2 DEF Orderly, Ends
<1> QED  BY <1>1, <1>3, OneOrderly

\* A step that moves no invocation.
LEMMA OrderlyFrame ==
  ASSUME DeployInvariant, UNCHANGED <<command, at, dep, errorCount>> PROVE DeployInvariant'
BY DEF DeployInvariant, Orderly

LEMMA DeployOrderly ==
  ASSUME TypeOK, DeployInvariant, NEW c \in Clients, Deploy(c) PROVE DeployInvariant'
<1>1. Orderly(c)
  BY DEF DeployInvariant
<1>2. at \in [Clients -> At] /\ dep \in [Clients -> Deployments \cup {AsRun(x) : x \in Deployments} \cup {None}]
  BY DEF TypeOK
<1>3. UNCHANGED <<command, errorCount>>
  BY DEF Deploy, Begin, GetExisting, Update, Delete, Create, followVars
\* What ends here.
<1>4. ASSUME Refused(c) \/ Go(c, "ended"), UNCHANGED dep PROVE DeployInvariant'
  BY <1>3, <1>4, MovesOrderly DEF Refused, Ends
\* What goes on.
<1>5. ASSUME NEW where \in {"update", "delete", "create"}, Go(c, where), dep[c] # None,
             where = "delete" => dep[c].force, UNCHANGED dep, at[c] \in {"get", "update", "delete"}
      PROVE  DeployInvariant'
  <2>1. at'[c] = where /\ \A x \in Clients \ {c} : at'[x] = at[x]
    BY <1>2, <1>5 DEF Go
  <2>2. Orderly(c)'
    BY <1>1, <1>3, <1>5, <2>1 DEF Orderly
  <2> QED  BY <1>3, <1>5, <2>1, <2>2, OneOrderly
<1>6. ASSUME Deployed(c), at[c] \in {"update", "create"}, UNCHANGED dep PROVE DeployInvariant'
  <2>1. at' = [at EXCEPT ![c] = IF command[c] = "deploy" THEN "ended" ELSE "poll"]
    BY <1>6 DEF Deployed, Go
  <2>2. CASE command[c] = "deploy"
    BY <1>4, <1>6, <2>1, <2>2 DEF Go
  <2>3. CASE command[c] # "deploy"
    <3>1. at'[c] = "poll" /\ \A x \in Clients \ {c} : at'[x] = at[x]
      BY <1>2, <2>1, <2>3
    <3>2. command[c] \in Followers /\ errorCount[c] = 0
      <4>1. command[c] # "rm" /\ errorCount[c] = 0
        BY <1>1, <1>6 DEF Orderly
      <4>2. command[c] \in Commands
        BY DEF TypeOK
      <4> QED  BY <2>3, <4>1, <4>2, PluginCtlAssumption DEF Followers
    <3>3. 0 <= MaxErrorCount
      BY PluginCtlAssumption
    <3>4. Orderly(c)'
      BY <1>1, <1>3, <1>6, <3>1, <3>2, <3>3 DEF Orderly
    <3> QED  BY <1>3, <1>6, <3>1, <3>4, OneOrderly
  <2> QED  BY <2>2, <2>3
<1>7. ASSUME Begin(c) PROVE DeployInvariant'
  <2>1. PICK d \in Deployments :
          LET f == Flags(c, d)
          IN IF ObjectOf(f) = NoTemplate THEN Refused(c) /\ UNCHANGED dep
             ELSE IF f.dryRun THEN Go(c, "ended") /\ UNCHANGED dep
             ELSE Go(c, "get") /\ dep' = [dep EXCEPT ![c] = f]
    BY <1>7 DEF Begin
  <2>2. CASE UNCHANGED dep /\ (Refused(c) \/ Go(c, "ended"))
    BY <1>4, <2>2
  <2>3. CASE Go(c, "get") /\ dep' = [dep EXCEPT ![c] = Flags(c, d)] /\ ObjectOf(Flags(c, d)) # NoTemplate
    <3>1. /\ at'[c] = "get" /\ dep'[c] = Flags(c, d)
          /\ \A x \in Clients \ {c} : at'[x] = at[x] /\ dep'[x] = dep[x]
      BY <1>2, <2>3 DEF Go
    <3>2. at[c] = "start" /\ command[c] # "rm" /\ errorCount[c] = 0
      BY <1>1, <1>7 DEF Begin, Orderly
    <3>3. /\ Flags(c, d) # None /\ Flags(c, d).type \in Type
          /\ command[c] \in Followers => Flags(c, d).type = "pod" /\ Flags(c, d).force = FALSE
      BY <2>3, FlagsType
    <3> HIDE DEF Flags
    <3>4. Orderly(c)'
      BY <1>3, <2>3, <3>1, <3>2, <3>3 DEF Orderly
    <3> QED  BY <1>3, <3>1, <3>4, OneOrderly
  <2> QED  BY <2>1, <2>2, <2>3
<1>8. ASSUME GetExisting(c) PROVE DeployInvariant'
  <2>1. dep[c] # None
    BY <1>1, <1>8 DEF Orderly, GetExisting
  <2> QED  BY <1>5, <1>8, <2>1 DEF GetExisting
<1>9. ASSUME Update(c) PROVE DeployInvariant'
  <2>1. dep[c] # None
    BY <1>1, <1>9 DEF Orderly, Update
  <2> QED  BY <1>4, <1>5, <1>6, <1>9, <2>1 DEF Update
<1>10. ASSUME Delete(c) PROVE DeployInvariant'
  <2>1. dep[c] # None
    BY <1>1, <1>10 DEF Orderly, Delete
  <2> QED  BY <1>4, <1>5, <1>10, <2>1 DEF Delete
<1>11. ASSUME Create(c) PROVE DeployInvariant'
  BY <1>4, <1>6, <1>11 DEF Create
<1> QED  BY <1>7, <1>8, <1>9, <1>10, <1>11 DEF Deploy

\* One turn of the status loop tolerates a failure or moves on.
LEMMA PollOrderly ==
  ASSUME TypeOK, DeployInvariant, NEW c \in Clients, Poll(c) PROVE DeployInvariant'
<1>1. /\ Orderly(c) /\ at[c] = "poll" /\ command[c] \in Followers
      /\ UNCHANGED <<command, dep>>
      /\ \A x \in Clients \ {c} : errorCount'[x] = errorCount[x]
  BY DEF DeployInvariant, Orderly, Poll, TypeOK
<1>2. CASE at' = at
  <2>1. errorCount'[c] <= MaxErrorCount
    <3>1. errorCount[c] \in Nat /\ MaxErrorCount \in Nat /\ errorCount[c] <= MaxErrorCount
      BY <1>1, PluginCtlAssumption DEF TypeOK, Orderly
    <3>2. CASE UNCHANGED errorCount
      BY <3>1, <3>2
    <3>3. CASE errorCount' = [errorCount EXCEPT ![c] = @ + 1] /\ Tolerated(c)
      <4>1. errorCount'[c] = errorCount[c] + 1
        BY <3>3 DEF TypeOK
      <4> QED  BY <3>1, <3>3, <4>1 DEF Tolerated
    <3>4. CASE GiveUp(c)
      <4>1. at'[c] # "poll"
        BY <3>4 DEF GiveUp, Exit, Go, TypeOK
      <4> QED  BY <1>1, <1>2, <4>1
    <3> QED  BY <3>2, <3>3, <3>4 DEF Poll
  <2>2. Orderly(c)'
    BY <1>1, <1>2, <2>1 DEF Orderly
  <2> QED  BY <1>1, <1>2, <2>2, OneOrderly
<1>3. CASE Go(c, "terminate") \/ Go(c, "follow") \/ Go(c, "left")
  BY <1>1, <1>3, MovesOrderly DEF Ends
<1> QED  BY <1>2, <1>3 DEF Poll, GiveUp, Exit, StartFollowing

\* The goroutines of an invocation that follows its pod.
LEMMA FollowOrderly ==
  ASSUME TypeOK, DeployInvariant, NEW c \in Clients, Follow(c) PROVE DeployInvariant'
<1>1. Orderly(c)
  BY DEF DeployInvariant
<1>2. ASSUME OpenLog(c) PROVE DeployInvariant'
  <2>1. command[c] \in Followers
    BY <1>1, <1>2 DEF Orderly, OpenLog
  <2> QED  BY <1>2, <2>1, MovesOrderly DEF OpenLog
<1>3. ASSUME Finish(c) PROVE DeployInvariant'
  <2>1. command[c] \in Followers
    BY <1>1, <1>3 DEF Orderly, Finish
  <2> QED  BY <1>3, <2>1, MovesOrderly DEF Finish
<1>4. ASSUME OpenWatch(c) PROVE DeployInvariant'
  BY <1>4, MovesOrderly, OrderlyFrame DEF OpenWatch, Exit, Ends
<1>5. ASSUME HandleWatched(c) \/ WatchCloses(c) \/ LogEnds(c) PROVE DeployInvariant'
  BY <1>5, OrderlyFrame DEF HandleWatched, WatchCloses, LogEnds
<1>6. ASSUME DeletePod(c) PROVE DeployInvariant'
  BY <1>6, MovesOrderly DEF DeletePod, Ends
<1> QED  BY <1>2, <1>3, <1>4, <1>5, <1>6, PollOrderly DEF Follow, Terminate

\* No step makes an invocation disorderly.
LEMMA OrderlyStep ==
  ASSUME TypeOK, DeployInvariant, [Next]_vars PROVE DeployInvariant'
<1>1. CASE UNCHANGED vars
  BY <1>1, OrderlyFrame DEF vars
<1>2. CASE Cluster
  BY <1>2, OrderlyFrame DEF Cluster, PodReaped, PodProgress
<1>3. ASSUME NEW c \in Clients, Remove(c) PROVE DeployInvariant'
  BY <1>3, MovesOrderly DEF Remove, DeletePod, Ends
<1>4. ASSUME NEW c \in Clients, Interrupt(c) PROVE DeployInvariant'
  BY <1>4, MovesOrderly, OrderlyFrame DEF Interrupt, Exit, Ends
<1> QED  BY <1>1, <1>2, <1>3, <1>4, DeployOrderly, FollowOrderly DEF Next

LEMMA OrderlyInit == Init => DeployInvariant
BY PluginCtlAssumption DEF Init, DeployInvariant, Orderly

\* The types and the flags, together.
THEOREM DeployInvariantHolds == Spec => [](TypeOK /\ DeployInvariant)
<1>1. Init => TypeOK /\ DeployInvariant
  BY TypeInit, OrderlyInit
<1>2. TypeOK /\ DeployInvariant /\ [Next]_vars => (TypeOK /\ DeployInvariant)'
  BY TypeStep, OrderlyStep
<1> QED  BY <1>1, <1>2, PTL DEF Spec

\* Type correctness of PluginCtl.
THEOREM PluginCtlTypeOK == Spec => []TypeOK
BY DeployInvariantHolds, PTL

-----------------------------------------------------------------------------
(* Who owns the pod                                                        *)

\* The pod and its phase.
LEMMA PodType ==
  ASSUME TypeOK, object["pod"] # None
  PROVE  object["pod"] \in Object /\ object["pod"].uid \in Clients /\ object["pod"].phase \in Phase
BY DEF TypeOK, Type, Object

\* A step of an invocation moves no other.
LEMMA OneMoves ==
  ASSUME TypeOK, NEW c \in Clients, Deploy(c) \/ Remove(c) \/ Follow(c) \/ Interrupt(c),
         NEW x \in Clients, x # c
  PROVE  at'[x] = at[x]
<1>1. at' = at \/ \E where : Go(c, where)
  <2>1. ASSUME Deploy(c) PROVE at' = at \/ \E where : Go(c, where)
    BY <2>1 DEF Deploy, Begin, GetExisting, Update, Delete, Create, Refused, Deployed
  <2>2. ASSUME Remove(c) \/ Follow(c) \/ Interrupt(c) PROVE at' = at \/ \E where : Go(c, where)
    BY <2>2 DEF Remove, Follow, Interrupt, Poll, GiveUp, StartFollowing, OpenLog, Finish, Terminate,
                OpenWatch, HandleWatched, WatchCloses, LogEnds, DeletePod, Exit
  <2> QED  BY <2>1, <2>2
<1> QED  BY <1>1 DEF Go, TypeOK

\* The steps of deploying that change no object.
LEMMA DeployObjects ==
  ASSUME TypeOK, NEW c \in Clients, Begin(c) \/ GetExisting(c) \/ Update(c)
  PROVE  object' = object
BY DEF Begin, GetExisting, Update

\* What is left after a deletion is the pod that was there.
LEMMA DeleteObjects ==
  ASSUME TypeOK, NEW c \in Clients, Delete(c), object'["pod"] # None
  PROVE  /\ object["pod"] # None
         /\ object'["pod"].uid = object["pod"].uid
         /\ object'["pod"].phase = object["pod"].phase
<1> DEFINE k == dep[c].type
<1>1. object \in [Type -> Object \cup {None}] /\ "pod" \in Type
  BY DEF TypeOK, Type
<1>2. CASE object' = object
  BY <1>2
<1>3. CASE object' = [object EXCEPT ![k] = None]
  BY <1>1, <1>3
<1>4. CASE k = "pod" /\ object[k] # None /\ object' = [object EXCEPT ![k].deleting = TRUE]
  <2>1. object["pod"] \in Object
    BY <1>1, <1>4
  <2>2. object'["pod"] = [object["pod"] EXCEPT !.deleting = TRUE]
    BY <1>1, <1>4
  <2> QED  BY <1>4, <2>1, <2>2 DEF Object
<1> QED  BY <1>2, <1>3, <1>4 DEF Delete, Gone

\* A new object: that of the pods' type is the invocation's.
LEMMA CreateObjects ==
  ASSUME TypeOK, NEW c \in Clients, Create(c)
  PROVE  \/ object'["pod"] = object["pod"] /\ Refused(c)
         \/ object'["pod"] = object["pod"] /\ Deployed(c) /\ dep[c].type # "pod"
         \/ /\ object["pod"] = None /\ Deployed(c)
            /\ object'["pod"] = [uid |-> c, phase |-> "Pending", deleting |-> FALSE]
<1>1. object \in [Type -> Object \cup {None}] /\ "pod" \in Type
  BY DEF TypeOK, Type
<1> QED  BY <1>1 DEF Create

\* What a report of the kubelet leaves.
LEMMA ProgressObjects ==
  ASSUME TypeOK, NEW phase \in Phase, PodProgress(phase)
  PROVE  /\ object["pod"] # None /\ object["pod"].phase \in {"Pending", "Running"}
         /\ object'["pod"].uid = object["pod"].uid
         /\ object'["pod"].deleting = object["pod"].deleting
<1>1. object["pod"] \in Object /\ object["pod"] # None
  BY PodType DEF PodProgress
<1>2. object'["pod"] = [object["pod"] EXCEPT !.phase = phase]
  BY DEF PodProgress, TypeOK, Type
<1> QED  BY <1>1, <1>2 DEF PodProgress, Object

\* A deletion by name.
LEMMA DeletePodObjects ==
  ASSUME TypeOK, NEW c \in Clients, DeletePod(c)
  PROVE  \/ object'["pod"] = None /\ Go(c, "ended")
         \/ object' = object /\ Go(c, "undeleted")
BY DEF DeletePod, TypeOK, Type


\* Whoever made the pod that is there after a step had made it before, or makes
\* it in this step and is to follow it.
LEMMA OwnerOfStep ==
  ASSUME TypeOK, DeployInvariant, [Next]_vars,
         NEW x \in Clients, OwnPod(x)', command[x] \in Followers
  PROVE  \/ OwnPod(x)
         \/ Create(x) /\ at'[x] = "poll" /\ object["pod"] = None
<1>1. CASE object'["pod"] = object["pod"]
  BY <1>1 DEF OwnPod
<1>2. ASSUME NEW c \in Clients, Delete(c) PROVE OwnPod(x)
  BY <1>2, DeleteObjects DEF OwnPod
<1>3. ASSUME NEW c \in Clients, Create(c), object'["pod"] # object["pod"]
      PROVE  Create(x) /\ at'[x] = "poll" /\ object["pod"] = None
  <2>1. /\ object["pod"] = None /\ Deployed(c)
        /\ object'["pod"] = [uid |-> c, phase |-> "Pending", deleting |-> FALSE]
    BY <1>3, CreateObjects
  <2>2. c = x
    BY <2>1 DEF OwnPod
  <2> QED  BY <1>3, <2>1, <2>2 DEF Deployed, Go, Followers, TypeOK
<1>4. ASSUME NEW phase \in Phase, PodProgress(phase) PROVE OwnPod(x)
  BY <1>4, ProgressObjects DEF OwnPod
<1>5. ASSUME NEW c \in Clients, DeletePod(c) PROVE object' = object
  BY <1>5, DeletePodObjects DEF OwnPod
<1>6. ASSUME PodReaped PROVE FALSE
  BY <1>6 DEF PodReaped, Gone, OwnPod, TypeOK, Type
<1>7. ASSUME NEW c \in Clients, Deploy(c)
      PROVE  OwnPod(x) \/ (Create(x) /\ at'[x] = "poll" /\ object["pod"] = None)
  BY <1>1, <1>2, <1>3, <1>7, DeployObjects DEF Deploy
<1>8. ASSUME NEW c \in Clients, Remove(c) \/ Follow(c) \/ Interrupt(c) PROVE object' = object
  BY <1>5, <1>8 DEF Remove, Follow, Terminate, Interrupt, Poll, OpenLog, Finish, OpenWatch, HandleWatched, WatchCloses, LogEnds
<1>9. CASE UNCHANGED vars
  BY <1>1, <1>9 DEF vars
<1> QED  BY <1>1, <1>4, <1>6, <1>7, <1>8, <1>9 DEF Next, Cluster

\* The owner's own steps, while the pod stays.
LEMMA OwnerMoves ==
  ASSUME TypeOK, DeployInvariant, "get" \notin Faults, NEW c \in Clients, command[c] \in Followers,
         OwnPod(c), OwnPod(c)', MayOwn(c), Follow(c) \/ Interrupt(c) \/ Remove(c) \/ Deploy(c)
  PROVE  MayOwn(c)'
<1>1. object["pod"] # None /\ object'["pod"] # None
  BY DEF OwnPod
<1>2. at \in [Clients -> At]
  BY DEF TypeOK
<1>3. ASSUME Poll(c) PROVE MayOwn(c)'
  <2>1. object' = object
    BY <1>3 DEF Poll
  <2>2. PICK answer \in Phase \cup {"error"} :
          /\ Status(answer)
          /\ IF answer = "error"
             THEN /\ errorCount' = [errorCount EXCEPT ![c] = @ + 1]
                  /\ IF Tolerated(c) THEN UNCHANGED <<at, watcher, watched, signal, log>>
                     ELSE GiveUp(c)
             ELSE /\ UNCHANGED errorCount
                  /\ \/ answer \in Follows(c) /\ StartFollowing(c)
                     \/ answer \in GivesUp(c) /\ GiveUp(c)
                     \/ answer \notin Follows(c) \cup GivesUp(c)
                        /\ UNCHANGED <<at, watcher, watched, signal, log>>
    BY <1>3 DEF Poll
  <2>3. answer = object["pod"].phase /\ object["pod"].phase \in Phase
    BY <1>1, <2>2, PodType DEF Status
  <2>4. answer # "error"
    BY <2>3 DEF Phase
  <2>5. CASE answer \in Follows(c) /\ StartFollowing(c)
    BY <1>2, <2>5 DEF StartFollowing, Go, MayOwn, Following
  <2>6. CASE answer \in GivesUp(c) /\ GiveUp(c)
    <3>1. command[c] = "run" /\ object'["pod"].phase = "Failed"
      BY <2>1, <2>3, <2>6 DEF GivesUp
    <3>2. at'[c] = "left"
      BY <1>2, <2>6, <3>1 DEF GiveUp, Exit, Go
    <3> QED  BY <3>1, <3>2 DEF MayOwn
  <2>7. CASE UNCHANGED at
    BY <2>1, <2>7 DEF MayOwn
  <2> QED  BY <2>2, <2>4, <2>5, <2>6, <2>7
<1>4. ASSUME OpenLog(c) \/ Finish(c) PROVE MayOwn(c)'
  BY <1>2, <1>4 DEF OpenLog, Finish, Go, MayOwn, Following, Exit
<1>5. ASSUME DeletePod(c) PROVE MayOwn(c)'
  BY <1>1, <1>2, <1>5, DeletePodObjects DEF Go, MayOwn
<1>6. ASSUME OpenWatch(c) PROVE MayOwn(c)'
  BY <1>1, <1>6 DEF OpenWatch, MayOwn
<1>7. ASSUME HandleWatched(c) \/ WatchCloses(c) \/ LogEnds(c) PROVE MayOwn(c)'
  BY <1>7 DEF HandleWatched, WatchCloses, LogEnds, MayOwn
<1>8. ASSUME Interrupt(c) PROVE MayOwn(c)'
  BY <1>2, <1>8 DEF Interrupt, Exit, Go, MayOwn
<1>9. ~ Remove(c)
  BY DEF Remove, Followers
<1>10. ~ Deploy(c)
  BY DEF Deploy, Begin, GetExisting, Update, Delete, Create, MayOwn, Following
<1> QED  BY <1>3, <1>4, <1>5, <1>6, <1>7, <1>8, <1>9, <1>10 DEF Follow, Terminate

\* A failed pod stays failed.
LEMMA FailedStays ==
  ASSUME TypeOK, [Next]_vars, NEW x \in Clients, OwnPod(x), OwnPod(x)', object["pod"].phase = "Failed"
  PROVE  object'["pod"].phase = "Failed"
<1>1. CASE object' = object
  BY <1>1
<1>2. ASSUME NEW c \in Clients, Delete(c) PROVE object'["pod"].phase = "Failed"
  BY <1>2, DeleteObjects DEF OwnPod
<1>3. ASSUME NEW c \in Clients, Create(c) PROVE object'["pod"] = object["pod"]
  BY <1>3, CreateObjects DEF OwnPod
<1>4. ASSUME NEW phase \in Phase, PodProgress(phase) PROVE FALSE
  BY <1>4 DEF PodProgress
<1>5. ASSUME PodReaped PROVE FALSE
  BY <1>5 DEF PodReaped, Gone, OwnPod, TypeOK, Type
<1>6. ASSUME NEW c \in Clients, DeletePod(c) PROVE object' = object
  BY <1>6, DeletePodObjects DEF OwnPod
<1>7. ASSUME NEW c \in Clients, Remove(c) \/ Follow(c) \/ Interrupt(c) PROVE object' = object
  BY <1>6, <1>7 DEF Remove, Follow, Terminate, Interrupt, Poll, OpenLog, Finish, OpenWatch, HandleWatched, WatchCloses, LogEnds
<1>8. ASSUME NEW c \in Clients, Deploy(c) PROVE object'["pod"].phase = "Failed"
  BY <1>1, <1>2, <1>3, <1>8, DeployObjects DEF Deploy
<1>9. CASE UNCHANGED vars
  BY <1>1, <1>9 DEF vars
<1> QED  BY <1>1, <1>4, <1>5, <1>7, <1>8, <1>9 DEF Next, Cluster

\* No step leaves a pod behind.
LEMMA LeftoverStep ==
  ASSUME TypeOK, DeployInvariant, LeftoverInvariant, "get" \notin Faults, [Next]_vars
  PROVE  LeftoverInvariant'
<1>1. command' = command
  <2>1. ASSUME NEW c \in Clients, Deploy(c) \/ Remove(c) PROVE command' = command
    BY <2>1 DEF Deploy, Begin, GetExisting, Update, Delete, Create, Remove, DeletePod
  <2>2. ASSUME NEW c \in Clients, Follow(c) \/ Interrupt(c) PROVE command' = command
    BY <2>2 DEF Follow, Interrupt, Poll, OpenLog, Finish, Terminate, DeletePod, OpenWatch,
                HandleWatched, WatchCloses, LogEnds
  <2> QED  BY <2>1, <2>2 DEF Next, Cluster, PodReaped, PodProgress, vars
<1> SUFFICES ASSUME NEW x \in Clients, command[x] \in Followers, OwnPod(x)' PROVE MayOwn(x)'
  BY <1>1 DEF LeftoverInvariant
<1>2. CASE Create(x) /\ at'[x] = "poll"
  BY <1>2 DEF MayOwn, Following
<1>3. CASE OwnPod(x)
  <2>1. MayOwn(x)
    BY <1>3 DEF LeftoverInvariant
  <2>2. ASSUME at'[x] = at[x] PROVE MayOwn(x)'
    BY <1>3, <2>1, <2>2, FailedStays DEF MayOwn
  <2>3. ASSUME NEW c \in Clients, Deploy(c) \/ Remove(c) \/ Follow(c) \/ Interrupt(c)
        PROVE  MayOwn(x)'
    BY <1>3, <2>1, <2>2, <2>3, OneMoves, OwnerMoves
  <2>4. CASE Cluster \/ UNCHANGED vars
    BY <2>2, <2>4 DEF Cluster, PodReaped, PodProgress, vars
  <2> QED  BY <2>3, <2>4 DEF Next
<1> QED  BY <1>2, <1>3, OwnerOfStep


\* One that follows after a step did so before, or made the pod in this step.
LEMMA FollowingStep ==
  ASSUME TypeOK, DeployInvariant, [Next]_vars, NEW x \in Clients, at'[x] \in Following
  PROVE  at[x] \in Following \/ (Create(x) /\ Deployed(x) /\ dep[x].type = "pod")
<1> USE DEF Following
<1>1. at \in [Clients -> At]
  BY DEF TypeOK
<1>2. CASE at'[x] = at[x]
  BY <1>2
<1>3. ASSUME Begin(x) PROVE FALSE
  BY <1>1, <1>3 DEF Begin, Refused, Go
<1>4. ASSUME GetExisting(x) PROVE FALSE
  BY <1>1, <1>4 DEF GetExisting, Go
<1>5. ASSUME Delete(x) PROVE FALSE
  BY <1>1, <1>5 DEF Delete, Refused, Go
<1>6. ASSUME (Update(x) \/ Create(x)), Deployed(x) PROVE Create(x) /\ dep[x].type = "pod"
  <2>1. command[x] # "deploy" /\ command[x] # "rm" /\ dep[x] # None
    BY <1>1, <1>6 DEF Deployed, Go, Update, Create, DeployInvariant, Orderly
  <2>2. command[x] \in Followers
    BY <2>1, PluginCtlAssumption DEF TypeOK, Followers
  <2>3. dep[x].type = "pod" /\ ~ dep[x].force
    BY <2>1, <2>2 DEF DeployInvariant, Orderly
  <2>4. ASSUME Update(x) PROVE FALSE
    BY <1>1, <1>6, <2>3, <2>4 DEF Update, Refused, Go
  <2> QED  BY <1>6, <2>3, <2>4
<1>7. ASSUME Update(x) \/ Create(x), ~ Deployed(x) PROVE FALSE
  <2>1. Refused(x) \/ Go(x, "delete")
    BY <1>7 DEF Update, Create
  <2> QED  BY <1>1, <2>1 DEF Refused, Go
<1>8. ASSUME Follow(x) PROVE at[x] \in Following \/ at'[x] = at[x]
  BY <1>1, <1>8 DEF Follow, Poll, OpenLog, Finish, Terminate, OpenWatch, HandleWatched, WatchCloses, LogEnds, DeletePod, Exit, Go
<1>9. ASSUME Remove(x) \/ Interrupt(x) PROVE at[x] \in Following \/ at'[x] = at[x]
  BY <1>1, <1>9 DEF Remove, DeletePod, Interrupt, Exit, Go
<1>10. ASSUME NEW c \in Clients, Deploy(c) \/ Remove(c) \/ Follow(c) \/ Interrupt(c), c # x
       PROVE  at'[x] = at[x]
  BY <1>10, OneMoves
<1>11. CASE Cluster \/ UNCHANGED vars
  BY <1>2, <1>11 DEF Cluster, PodReaped, PodProgress, vars
<1> QED  BY <1>2, <1>3, <1>4, <1>5, <1>6, <1>7, <1>8, <1>9, <1>10, <1>11 DEF Next, Deploy

\* One that prepares after a step did so before.
LEMMA PreparingStep ==
  ASSUME TypeOK, DeployInvariant, [Next]_vars, NEW x \in Clients, at'[x] \in Preparing
  PROVE  at[x] \in Preparing
<1> USE DEF Preparing
<1>1. at \in [Clients -> At]
  BY DEF TypeOK
<1>2. CASE at'[x] = at[x]
  BY <1>2
<1>3. ASSUME Deploy(x) PROVE at[x] \in Preparing
  BY <1>3 DEF Deploy, Begin, GetExisting, Update, Delete, Create
<1>4. ASSUME Follow(x) \/ Interrupt(x) \/ Remove(x) PROVE at'[x] = at[x]
  <2>1. \/ at' = at
        \/ \E where \in Ends \cup {"follow", "wait", "terminate"} : Go(x, where)
    BY <1>4 DEF Follow, Interrupt, Remove, Poll, GiveUp, StartFollowing, OpenLog, Finish, Terminate,
                OpenWatch, HandleWatched, WatchCloses, LogEnds, DeletePod, Exit, Ends
  <2> QED  BY <1>1, <2>1 DEF Go, Ends
<1>5. ASSUME NEW c \in Clients, Deploy(c) \/ Remove(c) \/ Follow(c) \/ Interrupt(c), c # x
      PROVE  at'[x] = at[x]
  BY <1>5, OneMoves
<1>6. CASE Cluster \/ UNCHANGED vars
  BY <1>2, <1>6 DEF Cluster, PodReaped, PodProgress, vars
<1> QED  BY <1>2, <1>3, <1>4, <1>5, <1>6 DEF Next

\* What becomes of the pod in a step, and of whom that is noted.
Stays   == object'["pod"] = object["pod"] /\ taken' = taken
Reports == /\ object["pod"] # None /\ object'["pod"] # None /\ taken' = taken
           /\ object'["pod"].uid = object["pod"].uid
           /\ object'["pod"].deleting = object["pod"].deleting
Reaped  == object["pod"] # None /\ object["pod"].deleting /\ object'["pod"] = None /\ taken' = taken
Forced(c) ==
  /\ at[c] = "delete" /\ object["pod"] # None /\ taken' = Taken(c)
  /\ object'["pod"] # None => object'["pod"].uid = object["pod"].uid
Created(c) ==
  /\ Create(c) /\ Deployed(c) /\ object["pod"] = None /\ taken' = taken
  /\ object'["pod"] = [uid |-> c, phase |-> "Pending", deleting |-> FALSE]
Removed(c) ==
  /\ Terminate(c) \/ Remove(c)
  /\ Go(c, "ended") /\ object["pod"] # None /\ object'["pod"] = None /\ taken' = Taken(c)

LEMMA PodOfStep ==
  ASSUME TypeOK, DeployInvariant, [Next]_vars
  PROVE  \/ Stays \/ Reports \/ Reaped
         \/ \E c \in Clients : Forced(c) \/ Created(c) \/ Removed(c)
<1>1. ASSUME NEW c \in Clients, Delete(c) PROVE Stays \/ Forced(c)
  <2> DEFINE k == dep[c].type
  <2>1. CASE object[k] = None
    BY <1>1, <2>1 DEF Delete, Stays
  <2>2. CASE object[k] # None /\ k = "pod"
    BY <1>1, <2>2, DeleteObjects DEF Delete, Forced
  <2>3. CASE object[k] # None /\ k # "pod"
    BY <1>1, <2>3 DEF Delete, Gone, Stays, TypeOK, Type
  <2> QED  BY <2>1, <2>2, <2>3
<1>2. ASSUME NEW c \in Clients, Create(c) PROVE Stays \/ Created(c)
  <2>1. taken' = taken
    BY <1>2 DEF Create
  <2> QED  BY <1>2, <2>1, CreateObjects DEF Stays, Created
<1>3. ASSUME NEW c \in Clients, Begin(c) \/ GetExisting(c) \/ Update(c) PROVE Stays
  BY <1>3 DEF Begin, GetExisting, Update, Stays
<1>4. ASSUME NEW c \in Clients, Terminate(c) \/ Remove(c) PROVE Stays \/ Removed(c)
  <2>1. DeletePod(c)
    BY <1>4 DEF Terminate, Remove
  <2>2. CASE Go(c, "ended") /\ object' = [object EXCEPT !["pod"] = None] /\ taken' = Taken(c)
    BY <1>4, <2>2 DEF Stays, Removed, Taken, TypeOK, Type
  <2>3. CASE UNCHANGED <<object, taken>>
    BY <2>3 DEF Stays
  <2> QED  BY <2>1, <2>2, <2>3 DEF DeletePod
<1>5. ASSUME NEW c \in Clients, Follow(c) \/ Interrupt(c) PROVE Stays \/ Terminate(c)
  BY <1>5 DEF Follow, Interrupt, Poll, OpenLog, Finish, OpenWatch, HandleWatched, WatchCloses, LogEnds, Stays
<1>6. ASSUME NEW phase \in Phase, PodProgress(phase) PROVE Reports
  <2>1. object'["pod"] = [object["pod"] EXCEPT !.phase = phase] /\ object["pod"] \in Object
    BY <1>6, PodType DEF PodProgress, TypeOK, Type
  <2>2. object'["pod"] \in Object /\ taken' = taken
    BY <1>6, <2>1 DEF Object, PodProgress
  <2> QED  BY <1>6, <2>2, ProgressObjects, NoneAssumption DEF Reports
<1>7. ASSUME PodReaped PROVE Reaped
  BY <1>7 DEF PodReaped, Gone, Reaped, TypeOK, Type
<1>8. CASE UNCHANGED vars
  BY <1>8 DEF vars, Stays
<1> QED  BY <1>1, <1>2, <1>3, <1>4, <1>5, <1>6, <1>7, <1>8 DEF Next, Deploy, Cluster

\* A pod that is created is its maker's.
LEMMA CreatesPod ==
  ASSUME TypeOK, NEW c \in Clients, Created(c)
  PROVE  object'["pod"] # None /\ object'["pod"].uid = c
         /\ object'["pod"].deleting = FALSE
<1>1. object'["pod"] = [uid |-> c, phase |-> "Pending", deleting |-> FALSE]
  BY DEF Created
<1>2. object'["pod"].uid = c /\ object'["pod"].deleting = FALSE
  BY <1>1
<1>3. object'["pod"] \in Object
  BY <1>1 DEF Object, Phase
<1>4. object'["pod"] # None
  BY <1>3, NoneAssumption
<1> QED  BY <1>2, <1>4

\* No step leaves one following another's pod unless its own has been taken.
LEMMA OwnerStep ==
  ASSUME TypeOK, DeployInvariant, OwnerInvariant, [Next]_vars
  PROVE  OwnerInvariant'
<1> USE DEF OwnPod
<1>1. at \in [Clients -> At]
  BY DEF TypeOK
<1>2. taken \subseteq taken'
  BY PodOfStep DEF Stays, Reports, Reaped, Forced, Created, Removed, Taken
<1>3. ASSUME NEW x \in Clients, at'[x] \in Preparing, OwnPod(x)' PROVE FALSE
  <2>1. at[x] \in Preparing /\ ~ OwnPod(x)
    BY <1>3, PreparingStep DEF OwnerInvariant
  <2>2. CASE Stays \/ Reports \/ Reaped \/ \E c \in Clients : Forced(c) \/ Removed(c)
    BY <1>3, <2>1, <2>2 DEF Stays, Reports, Reaped, Forced, Removed
  <2>3. ASSUME NEW c \in Clients, Created(c) PROVE FALSE
    <3>1. c = x
      BY <1>3, <2>3, CreatesPod
    <3>2. at'[x] \in {"ended", "poll"}
      BY <1>1, <2>3, <3>1 DEF Created, Deployed, Go
    <3> QED  BY <1>3, <3>2 DEF Preparing
  <2> QED  BY <2>2, <2>3, PodOfStep
<1>4. ASSUME NEW x \in Clients, at'[x] \in Following PROVE OwnPod(x)' \/ x \in taken'
  <2>1. CASE Create(x) /\ Deployed(x) /\ dep[x].type = "pod"
    <3>1. Created(x)
      <4>1. at'[x] = IF command[x] = "deploy" THEN "ended" ELSE "poll"
        BY <1>1, <2>1 DEF Deployed, Go
      <4>2. ~ Refused(x)
        BY <1>1, <4>1 DEF Refused, Go
      <4>3. taken' = taken
        BY <2>1 DEF Create
      <4> QED  BY <2>1, <4>2, <4>3, CreateObjects DEF Created
    <3> QED  BY <3>1, CreatesPod
  <2>2. CASE at[x] \in Following
    <3>1. CASE x \in taken
      BY <1>2, <3>1
    <3>2. CASE OwnPod(x)
      <4>1. CASE Stays \/ Reports
        BY <3>2, <4>1 DEF Stays, Reports
      <4>2. CASE Reaped
        BY <1>2, <3>2, <4>2 DEF Reaped, OwnerInvariant
      <4>3. ASSUME NEW c \in Clients, Forced(c) PROVE x \in taken'
        <5>1. c # x
          BY <2>2, <4>3 DEF Forced, Following
        <5> QED  BY <3>2, <4>3, <5>1 DEF Forced, Taken
      <4>4. ASSUME NEW c \in Clients, Removed(c) PROVE x \in taken'
        <5>1. c # x
          BY <1>1, <1>4, <4>4 DEF Removed, Go, Following
        <5> QED  BY <3>2, <4>4, <5>1 DEF Removed, Taken
      <4>5. ASSUME NEW c \in Clients, Created(c) PROVE FALSE
        BY <3>2, <4>5 DEF Created
      <4> QED  BY <4>1, <4>2, <4>3, <4>4, <4>5, PodOfStep
    <3> QED  BY <2>2, <3>1, <3>2 DEF OwnerInvariant
  <2> QED  BY <1>4, <2>1, <2>2, FollowingStep
<1>5. ASSUME object'["pod"] # None, object'["pod"].deleting PROVE object'["pod"].uid \in taken'
  <2>1. CASE Stays \/ Reports
    BY <1>2, <1>5, <2>1 DEF Stays, Reports, OwnerInvariant
  <2>2. ~ Reaped /\ \A c \in Clients : ~ Removed(c)
    BY <1>5 DEF Reaped, Removed
  <2>3. ASSUME NEW c \in Clients, Forced(c) PROVE object'["pod"].uid \in taken'
    <3>1. object["pod"].uid # c
      BY <2>3 DEF Forced, OwnerInvariant, Preparing
    <3> QED  BY <1>5, <2>3, <3>1 DEF Forced, Taken
  <2>4. \A c \in Clients : ~ Created(c)
    BY <1>5, CreatesPod
  <2> QED  BY <2>1, <2>2, <2>3, <2>4, PodOfStep
<1> HIDE DEF OwnPod
<1> QED  BY <1>3, <1>4, <1>5 DEF OwnerInvariant

\* Whoever deletes the pod of another is asked to, or has lost its own.
LEMMA DeletesOwnStep ==
  ASSUME TypeOK, DeployInvariant, OwnerInvariant, [Next]_vars,
         NEW c \in Clients, NEW d \in Clients, OwnPod(d), ~ OwnPod(d)', at[c] # at'[c]
  PROVE  c = d \/ command[c] = "rm" \/ at[c] = "delete" \/ c \in taken
<1>1. at \in [Clients -> At]
  BY DEF TypeOK
<1>2. ~ Stays /\ ~ Reports /\ \A e \in Clients : ~ Created(e)
  BY DEF Stays, Reports, Created, OwnPod
<1>3. ~ PodReaped /\ ~ (UNCHANGED vars)
  BY DEF PodReaped, vars
<1>4. ASSUME NEW e \in Clients, Deploy(e) \/ Remove(e) \/ Follow(e) \/ Interrupt(e) PROVE e = c
  BY <1>4, OneMoves
<1>5. \E e \in Clients : Deploy(e) \/ Remove(e) \/ Follow(e) \/ Interrupt(e)
  BY <1>3 DEF Next, Cluster, PodProgress
<1>6. Delete(c) \/ Terminate(c) \/ Remove(c)
  <2>1. Deploy(c) \/ Remove(c) \/ Follow(c) \/ Interrupt(c)
    BY <1>4, <1>5
  <2>2. ASSUME Begin(c) \/ GetExisting(c) \/ Update(c) PROVE FALSE
    BY <1>2, <2>2 DEF Begin, GetExisting, Update, Stays
  <2>3. ASSUME Create(c) PROVE FALSE
    <3>1. taken' = taken
      BY <2>3 DEF Create
    <3> QED  BY <1>2, <2>3, <3>1, CreateObjects DEF Stays, Created
  <2>4. ASSUME Follow(c) \/ Interrupt(c) PROVE Terminate(c)
    BY <1>2, <2>4 DEF Follow, Interrupt, Poll, OpenLog, Finish, OpenWatch, HandleWatched, WatchCloses,
                      LogEnds, Stays
  <2> QED  BY <2>1, <2>2, <2>3, <2>4 DEF Deploy
<1>7. CASE Terminate(c)
  BY <1>7 DEF Terminate, Following, OwnerInvariant, OwnPod
<1> QED  BY <1>6, <1>7 DEF Delete, Remove

-----------------------------------------------------------------------------
(* The template                                                            *)

\* An object that is made is made of a template.
LEMMA ObjectMade ==
  ASSUME NEW spec, NEW type, NEW secrets, ObjectFor(spec, type, secrets) # NoTemplate
  PROVE  ObjectFor(spec, type, secrets) =
           [name |-> ObjectName(spec), type |-> type,
            template |-> [labels |-> Labels(spec), nodeSelector |-> NodeSelector(spec),
                          initContainers |-> InitContainers, containers |-> Containers(spec),
                          volumes |-> Volumes(spec),
                          restart |-> IF type \in {"pod", "job"} THEN "Never" ELSE "Always"],
            selects |-> IF type \in {"deployment", "daemonset"} THEN {Labels(spec)} ELSE {}]
<1> DEFINE t == TemplateFor(spec, secrets)
<1>1. t # NoTemplate
  BY DEF ObjectFor
<1>2. t = [labels |-> Labels(spec), nodeSelector |-> NodeSelector(spec),
           initContainers |-> InitContainers, containers |-> Containers(spec),
           volumes |-> Volumes(spec), restart |-> "Always"]
  BY <1>1 DEF TemplateFor
<1> HIDE DEF t
<1>3. ObjectFor(spec, type, secrets) =
        [name |-> ObjectName(spec), type |-> type,
         template |-> [t EXCEPT !.restart = IF type \in {"pod", "job"} THEN "Never" ELSE @],
         selects |-> IF type \in {"deployment", "daemonset"} THEN {t.labels} ELSE {}]
  BY DEF ObjectFor, t
<1>4. [t EXCEPT !.restart = IF type \in {"pod", "job"} THEN "Never" ELSE @] =
        [labels |-> Labels(spec), nodeSelector |-> NodeSelector(spec),
         initContainers |-> InitContainers, containers |-> Containers(spec),
         volumes |-> Volumes(spec),
         restart |-> IF type \in {"pod", "job"} THEN "Never" ELSE "Always"]
  BY <1>2
<1>5. t.labels = Labels(spec)
  BY <1>2
<1> QED  BY <1>3, <1>4, <1>5

\* The containers: the plugin's, and perhaps the controller's.
LEMMA ContainersMade ==
  ASSUME NEW spec
  PROVE  /\ Containers(spec)[1] = PluginContainer(spec)
         /\ \A i \in DOMAIN Containers(spec) :
              \/ Containers(spec)[i] = PluginContainer(spec)
              \/ /\ Containers(spec)[i] = ControllerContainer(spec)
                 /\ "controller" \in spec.options
<1> DEFINE p == PluginContainer(spec)
           k == ControllerContainer(spec)
<1>1. CASE "controller" \in spec.options
  <2>1. Containers(spec) = <<p>> \o <<k>>
    BY <1>1 DEF Containers
  <2> HIDE DEF p, k
  <2>2. /\ <<p>> \in Seq({p, k}) /\ <<k>> \in Seq({p, k})
        /\ Len(<<p>>) = 1 /\ Len(<<k>>) = 1 /\ <<p>>[1] = p /\ <<k>>[1] = k
    OBVIOUS
  <2>3. /\ <<p>> \o <<k>> \in Seq({p, k}) /\ Len(<<p>> \o <<k>>) = 2
        /\ \A i \in 1..2 : (<<p>> \o <<k>>)[i] = IF i <= 1 THEN <<p>>[i] ELSE <<k>>[i - 1]
    BY <2>2, ConcatProperties
  <2>4. /\ DOMAIN Containers(spec) = 1..2
        /\ Containers(spec)[1] = p /\ Containers(spec)[2] = k
    BY <2>1, <2>2, <2>3, LenProperties
  <2> QED  BY <1>1, <2>4 DEF p, k
<1>2. CASE "controller" \notin spec.options
  <2>1. Containers(spec) = <<p>> \o << >>
    BY <1>2 DEF Containers
  <2> HIDE DEF p
  <2>2. <<p>> \o << >> = <<p>>
    OBVIOUS
  <2>3. DOMAIN <<p>> = 1..1 /\ <<p>>[1] = p
    OBVIOUS
  <2> QED  BY <2>1, <2>2, <2>3 DEF p
<1> QED  BY <1>1, <1>2

\* The system's variables win, and every mount is of a volume of the pod.
LEMMA TemplateIsSound ==
  ASSUME NEW spec
  PROVE  /\ \A v \in SystemEnv :
              [name |-> v, from |-> "system"] \in Effective(Containers(spec)[1].env)
         /\ \A i \in DOMAIN Containers(spec) :
              \A m \in Containers(spec)[i].mounts : m[1] \in Volumes(spec)
<1>1. Containers(spec)[1].env = Env(spec)
  <2>1. Containers(spec)[1] = PluginContainer(spec)
    BY ContainersMade
  <2>2. PluginContainer(spec).env = Env(spec)
    BY DEF PluginContainer
  <2> QED  BY <2>1, <2>2
<1>2. ASSUME NEW v \in SystemEnv
      PROVE  [name |-> v, from |-> "system"] \in Effective(Env(spec))
  <2>1. [name |-> v, from |-> "system"] \in SystemEnvEntries
    BY DEF SystemEnvEntries
  <2>2. Env(spec)[2] = SystemEnvEntries
    BY DEF Env
  <2> QED  BY <2>1, <2>2 DEF Effective
<1>3. ASSUME NEW m \in PluginMounts(spec) PROVE m[1] \in Volumes(spec)
  BY DEF PluginMounts, Volumes
<1>4. ASSUME "controller" \in spec.options, NEW m \in {<<"local-share", "/app/">>}
      PROVE  m[1] \in Volumes(spec)
  BY <1>4 DEF Volumes
<1>5. /\ PluginContainer(spec).mounts = PluginMounts(spec)
      /\ ControllerContainer(spec).mounts = {<<"local-share", "/app/">>}
  BY DEF PluginContainer, ControllerContainer
<1> QED  BY <1>1, <1>2, <1>3, <1>4, <1>5, ContainersMade

\* What an invocation has made an object of is sound.
LEMMA DeployIsSound == DeployInvariant => TemplateSound
<1> SUFFICES ASSUME DeployInvariant, NEW c \in Clients, dep[c] # None
             PROVE  LET o    == ObjectOf(dep[c])
                        pods == o.template
                    IN /\ \A k \in SystemEnv :
                            [name |-> k, from |-> "system"] \in Effective(pods.containers[1].env)
                       /\ \A i \in DOMAIN pods.containers :
                            \A m \in pods.containers[i].mounts : m[1] \in pods.volumes
                       /\ o.selects \subseteq {pods.labels}
  BY DEF TemplateSound
<1>1. ObjectOf(dep[c]) # NoTemplate
  BY DEF DeployInvariant, Orderly
<1> DEFINE d == dep[c]
           spec == [name |-> d.name, tag |-> d.tag, node |-> d.node, entrypoint |-> d.entrypoint,
                    options |-> d.options, selector |-> d.selector, resource |-> d.resource,
                    env |-> EnvOf(EnvLines(d))]
<1>2. ObjectOf(dep[c]) = ObjectFor(spec, dep[c].type, Secrets)
  BY <1>1 DEF ObjectOf
<1> HIDE DEF spec
<1> DEFINE o == ObjectOf(dep[c])
<1>3. /\ o.template.labels = Labels(spec) /\ o.template.containers = Containers(spec)
      /\ o.template.volumes = Volumes(spec)
      /\ o.selects \in {{Labels(spec)}, {}}
  <2> DEFINE restart == IF dep[c].type \in {"pod", "job"} THEN "Never" ELSE "Always"
             selects == IF dep[c].type \in {"deployment", "daemonset"} THEN {Labels(spec)} ELSE {}
  <2>1. o = [name |-> ObjectName(spec), type |-> dep[c].type,
             template |-> [labels |-> Labels(spec), nodeSelector |-> NodeSelector(spec),
                           initContainers |-> InitContainers, containers |-> Containers(spec),
                           volumes |-> Volumes(spec), restart |-> restart],
             selects |-> selects]
    BY <1>1, <1>2, ObjectMade
  <2>2. selects \in {{Labels(spec)}, {}}
    OBVIOUS
  <2> HIDE DEF o, restart, selects
  <2> QED  BY <2>1, <2>2
<1> HIDE DEF o
<1>4. o.selects \subseteq {o.template.labels}
  BY <1>3
<1>5. /\ \A v \in SystemEnv :
           [name |-> v, from |-> "system"] \in Effective(o.template.containers[1].env)
      /\ \A i \in DOMAIN o.template.containers :
           \A m \in o.template.containers[i].mounts : m[1] \in o.template.volumes
  BY <1>3, TemplateIsSound
<1> QED  BY <1>4, <1>5 DEF o

-----------------------------------------------------------------------------
(* The theorems                                                            *)

\* What an invocation is about to send to the cluster is sound.
THEOREM TemplateSoundHolds == Spec => []TemplateSound
BY DeployInvariantHolds, DeployIsSound, PTL

\* An invocation and the pod of the plugins' name agree on who made it and who is
\* to remove it, if every pod that is there can be read.
THEOREM ClientInvariantHolds ==
  ASSUME "get" \notin Faults PROVE Spec => []ClientInvariant
<1>1. Init => LeftoverInvariant /\ OwnerInvariant
  BY DEF Init, LeftoverInvariant, OwnerInvariant, OwnPod, Following, Type
<1>2. TypeOK /\ DeployInvariant /\ LeftoverInvariant /\ OwnerInvariant /\ [Next]_vars
      => (LeftoverInvariant /\ OwnerInvariant)'
  BY LeftoverStep, OwnerStep
<1>3. DeployInvariant /\ LeftoverInvariant /\ OwnerInvariant => ClientInvariant
  BY DEF ClientInvariant
<1> QED  BY <1>1, <1>2, <1>3, DeployInvariantHolds, PTL DEF Spec

\* No invocation of run or profile that is over leaves a pod of its own behind, if
\* every pod that is there can be read.
THEOREM RunCleansUpHolds ==
  ASSUME "get" \notin Faults PROVE Spec => []RunCleansUp
<1>1. ClientInvariant => RunCleansUp
  BY DEF ClientInvariant, LeftoverInvariant, RunCleansUp, MayOwn, Following, Followers
<1> QED  BY <1>1, ClientInvariantHolds, PTL

\* An invocation deletes the pod of another only if it is asked to, or after its own
\* has been deleted by another.
THEOREM DeletesOwnPodHolds == Spec => DeletesOwnPod
<1>1. Init => OwnerInvariant
  BY DEF Init, OwnerInvariant, OwnPod, Following, Type
<1>2. TypeOK /\ DeployInvariant /\ OwnerInvariant /\ [Next]_vars => OwnerInvariant'
  BY OwnerStep
<1>3. TypeOK /\ DeployInvariant /\ OwnerInvariant /\ [Next]_vars =>
        [ \A c, d \in Clients :
            /\ OwnPod(d) /\ ~ OwnPod(d)'
            /\ at[c] # at'[c]
            => c = d \/ command[c] = "rm" \/ at[c] = "delete" \/ c \in taken ]_vars
  BY DeletesOwnStep
<1> QED  BY <1>1, <1>2, <1>3, DeployInvariantHolds, PTL DEF Spec, DeletesOwnPod
=============================================================================
