---------------------------- MODULE PluginQueue ----------------------------
(***************************************************************************)
(* The queue of plugins of pkg/datatype/queue.go.  Its entries are         *)
(* records with at least the field "name": the code looks an entry up by   *)
(* the name of its plugin (Pop) or by name, job and goal (IsExist).        *)
(***************************************************************************)
EXTENDS Integers, Sequences, SequencesExt

\* Mutant: the newest entry goes first.
Push_First(q, r) == <<r>> \o q

Push(q, r) == Append(q, r)

HasName(q, n) == \E i \in DOMAIN q : q[i].name = n

\* The position of the oldest entry named n.
FirstNamed(q, n) ==
  CHOOSE i \in DOMAIN q :
    /\ q[i].name = n
    /\ \A j \in DOMAIN q : q[j].name = n => i <= j

\* The entry Pop returns for an argument named n, when there is one ...
Popped(q, n) == q[FirstNamed(q, n)]

\* Mutant: the entry is found but not cut out.
AfterPop_Kept(q, n) == q

\* ... and the queue it leaves.  Only the name is compared, so the entry need
\* not be the argument: it may belong to another job.
AfterPop(q, n) == IF HasName(q, n) THEN RemoveAt(q, FirstNamed(q, n)) ELSE q

\* IsExist compares what PluginRuntime.Equal compares: the name, the goal and
\* the job, which is a function of the goal.
IsExist(q, r) == \E i \in DOMAIN q : q[i].name = r.name /\ q[i].goal = r.goal
=============================================================================
