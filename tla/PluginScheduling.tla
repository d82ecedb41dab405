--------------------------- MODULE PluginScheduling ---------------------------
(***************************************************************************)
(* What the node scheduler promises about the order in which plugins get   *)
(* to run, without pods, goals, channels or state machines: a line of      *)
(* waiting plugins, the set of active ones, and the GPU that one active    *)
(* plugin at most may hold.  Nobody overtakes, except that plugins which   *)
(* wait for the GPU are overtaken by those that do not need it.            *)
(***************************************************************************)
EXTENDS Integers, Sequences

CONSTANTS
  Plugin,  \* all plugins
  GPU      \* those of them that need the GPU for themselves

VARIABLES
  waiting,  \* plugins triggered by a rule or a request, oldest first
  active    \* plugins that hold their resources

schedulingVars == <<waiting, active>>

Init ==
  /\ waiting = <<>>
  /\ active = {}

\* p is triggered.
Enqueue(p) ==
  /\ p \notin active
  /\ \A i \in DOMAIN waiting : waiting[i] # p
  /\ waiting' = Append(waiting, p)
  /\ UNCHANGED active

\* p may not start now.
Blocked(p) == p \in GPU /\ active \cap GPU # {}

Without(i) == SubSeq(waiting, 1, i - 1) \o SubSeq(waiting, i + 1, Len(waiting))

\* The oldest plugin that is not blocked becomes active.
Start(i) ==
  /\ ~ Blocked(waiting[i])
  /\ \A j \in 1..(i - 1) : Blocked(waiting[j])
  /\ waiting' = Without(i)
  /\ active' = active \cup {waiting[i]}

\* An active plugin gives its resources back.
Release(p) ==
  /\ p \in active
  /\ active' = active \ {p}
  /\ UNCHANGED waiting

\* The goal of a waiting plugin is removed.
Withdraw(i) ==
  /\ waiting' = Without(i)
  /\ UNCHANGED active

\* The scheduler is restarted.
Reset ==
  /\ waiting' = <<>>
  /\ active' = {}

Next ==
  \/ \E p \in Plugin : Enqueue(p) \/ Release(p)
  \/ \E i \in DOMAIN waiting : Start(i) \/ Withdraw(i)
  \/ Reset

Spec == Init /\ [][Next]_schedulingVars
=============================================================================
