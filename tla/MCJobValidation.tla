-------------------------- MODULE MCJobValidation --------------------------
(***************************************************************************)
(* A small instance of JobValidation: two nodes whose names are their VSNs *)
(* except for one, four images, two patterns, and jobs of up to two        *)
(* plugins on them.                                                        *)
(***************************************************************************)
EXTENDS JobValidationProperties

CONSTANTS arm, both, listed, unknown, r1, r2

MCManifests ==
  ("W1" :> [name |-> "W1", tags |-> {"lake", "city"}, computes |-> {<<"gpu", "arm64", "amd64">>, <<"poe">>}])
  @@ ("W2" :> [name |-> "0000W2", tags |-> {"lake"}, computes |-> {<<"amd64">>}])

MCECR == (arm :> {"arm64"}) @@ (both :> {"arm64", "amd64"})

MCPatterns == ("p" :> {listed}) @@ ("q" :> {listed, arm})
MCFile     == <<"q">>

MCUsers ==
  {NoTable,
   <<[vsn |-> "W1", access |-> {"schedule"}], [vsn |-> "W2", access |-> {"develop", "schedule"}]>>,
   <<[vsn |-> "W1", access |-> {"schedule"}], [vsn |-> "W2", access |-> {"schedule"}],
     [vsn |-> "W2", access |-> {"develop"}], [vsn |-> "W1", access |-> {}]>>}

Good == [chars |-> TRUE, len |-> 200]
Short == [chars |-> TRUE, len |-> 1]
Long == [chars |-> TRUE, len |-> 201]
Images == {arm, both, listed, unknown}
Plugin(n) == [name : {n}, image : Images]
Plugins ==
  {<<p>> : p \in Plugin(Good) \cup {[name |-> Long, image |-> both]}}
  \cup {<<p, q>> : p \in Plugin(Good), q \in {r \in Plugin(Good) \cup Plugin(Short) : r.image # unknown}}

Rule    == [form |-> TRUE, action |-> "schedule", params |-> <<2>>]
BadRule == [form |-> TRUE, action |-> "publish", params |-> <<2, 1>>]

\* Jobs that differ in their nodes, in their plugins, in the rest.
MCJobs ==
  [nodes : {NoNodes, {}, {"W1"}, {"W1", "W2"}}, tags : {{}, {"lake"}, {"lake", "city"}},
   notify : {"ok"}, rules : {<<Rule>>}, plugins : {<<[name |-> Good, image |-> both]>>}]
  \cup [nodes : {{"W1", "W2"}}, tags : {{}}, notify : {"ok"}, rules : {<<Rule>>}, plugins : Plugins]
  \cup [nodes : {{"W1"}}, tags : {{}}, notify : {"ok", "nobody", "unknown", "unknowns"},
        rules : {<<>>, <<BadRule>>}, plugins : {<<[name |-> Good, image |-> both]>>}]

AdminSymmetry == Permutations(Admins)

\* Bound: a third request of an administrator, or restart, only while nothing is
\* validated.
ThirdAlone == Len(changes) <= 2 \/ v = Idle
=============================================================================
