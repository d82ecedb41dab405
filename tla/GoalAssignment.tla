--------------------------- MODULE GoalAssignment ---------------------------
(***************************************************************************)
(* What the cloud scheduler promises about the goals it serves, without    *)
(* requests, events and the steps of its goroutines: a job has one current *)
(* goal, and only that goal is ever served.  A goal is given up before the *)
(* next one of the job takes its place.                                    *)
(***************************************************************************)
CONSTANTS
  Jobs,    \* all jobs
  Goals,   \* all goals
  None     \* the goal of a job without one

VARIABLES
  current,  \* [Jobs -> the job's current goal]
  served    \* the goals nodes are given

assignmentVars == <<current, served>>

CurrentGoals == {current[j] : j \in Jobs} \ {None}

Init ==
  /\ current = [j \in Jobs |-> None]
  /\ served = {}

\* The job gets a new goal, or loses its goal, while none of its is served.
Revise(j, g) ==
  /\ current[j] \notin served
  /\ current' = [current EXCEPT ![j] = g]
  /\ UNCHANGED served

\* A job's current goal is given to the nodes.
Serve(j) ==
  /\ current[j] # None
  /\ served' = served \cup {current[j]}
  /\ UNCHANGED current

\* A goal is no longer served: its job is submitted again, edited, suspended
\* or removed.
Withdraw(g) ==
  /\ served' = served \ {g}
  /\ UNCHANGED current

\* The service is restarted and serves the jobs that its database lists.
Reload ==
  /\ served' \in SUBSET CurrentGoals
  /\ UNCHANGED current

Next ==
  \/ \E j \in Jobs : Serve(j) \/ \E g \in Goals \cup {None} : Revise(j, g)
  \/ \E g \in Goals : Withdraw(g)
  \/ Reload

Spec == Init /\ [][Next]_assignmentVars
=============================================================================
