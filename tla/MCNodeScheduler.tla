-------------------------- MODULE MCNodeScheduler --------------------------
(***************************************************************************)
(* Small instances of NodeScheduler.  Job j1 has two versions of its goal, *)
(* g1 and g2; job j2 has the goal g3.                                      *)
(***************************************************************************)
EXTENDS NodeSchedulerProperties

CONSTANTS g1, g2, g3, j1, j2, a, b, c

MCJobOf == (g1 :> j1) @@ (g2 :> j1) @@ (g3 :> j2)

\* The plugins of the goals: one for each job, or two jobs that use the same
\* name.
OnePlugin  == (g1 :> {a}) @@ (g2 :> {a}) @@ (g3 :> {b})
SameName   == (g1 :> {a, b}) @@ (g2 :> {a}) @@ (g3 :> {a})

\* The lists of goals the cloud may send.
BothGoals == {{g1, g3}}
NewGoal   == {{g1}, {g2}, {}}
DropGoal  == {{g1, g3}, {g3}}

\* The plugins that need the GPU.
NoGPU    == {}
AllGPU   == {a, b} \X {g1, g2, g3}
FirstGPU == {a, b} \X {g1}

\* With the lists of NewGoal and one plugin for each job, the two versions of
\* j1's goal can be exchanged.
GoalSymmetry == Permutations({g1, g2})
=============================================================================
