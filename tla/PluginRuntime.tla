--------------------------- MODULE PluginRuntime ---------------------------
(***************************************************************************)
(* The state machine of one plugin, as pkg/datatype/plugin.go builds it    *)
(* with looplab/fsm.  An event has the name of the state it leads to; the  *)
(* library refuses an event whose source list does not hold the current    *)
(* state, returns an error and leaves the state alone.                     *)
(***************************************************************************)

Inactive     == "inactive"
Queued       == "queued"
Scheduled    == "scheduled"
Initializing == "initializing"
Running      == "running"
Completed    == "completed"
Failed       == "failed"

PluginState ==
  {Inactive, Queued, Scheduled, Initializing, Running, Completed, Failed}

\* Mutant: a plugin becomes inactive only after an outcome.
Src_OutcomeFirst ==
  [e \in PluginState |->
     CASE e = Inactive     -> {Completed, Failed}
       [] e = Queued       -> {Inactive}
       [] e = Scheduled    -> {Queued}
       [] e = Initializing -> {Scheduled}
       [] e = Running      -> {Initializing}
       [] e = Completed    -> {Running}
       [] e = Failed       -> {Initializing, Running}]

\* Src[e] is the list of states from which the event e is accepted.
Src ==
  [e \in PluginState |->
     CASE e = Inactive     -> PluginState \ {Inactive}
       [] e = Queued       -> {Inactive}
       [] e = Scheduled    -> {Queued}
       [] e = Initializing -> {Scheduled}
       [] e = Running      -> {Initializing}
       [] e = Completed    -> {Running}
       [] e = Failed       -> {Initializing, Running}]

\* The event e is accepted in the state s (pr.Status.Event returns nil).
Accepts(s, e) == s \in Src[e]

\* The state after the event e was tried in the state s.
After(s, e) == IF Accepts(s, e) THEN e ELSE s
=============================================================================
