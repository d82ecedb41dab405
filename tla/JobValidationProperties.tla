---------------------- MODULE JobValidationProperties ----------------------
(***************************************************************************)
(* What is checked of JobValidation: its verdict against a definition of   *)
(* valid jobs that knows no order of checks, and the whitelist's file.     *)
(***************************************************************************)
EXTENDS JobValidation

TypeOK ==
  /\ plugins \subseteq DOMAIN ECR /\ nodes \subseteq DOMAIN Manifests
  /\ whitelist \subseteq DOMAIN Patterns
  /\ file \in Seq(DOMAIN Patterns)
  /\ alone \in BOOLEAN
  /\ \A r \in Admins : admin[r].at \in
       {"idle", "open", "write", "scan", "read", "apps", "manifests"}
  /\ changes \in Seq(AdminOps) /\ Len(changes) <= MaxChanges
  /\ v.at \in {"idle", "nodes", "plugins", "done", "panicked"}
  /\ v # Idle => v.user \in Users /\ v.job \in Jobs

-----------------------------------------------------------------------------
(* The reference                                                           *)

\* The nodes that a job selects.
Selected(job) ==
  (IF job.nodes = NoNodes THEN {} ELSE job.nodes)
    \cup {Manifests[n].name : n \in {m \in DOMAIN Manifests :
                                       job.tags # {} /\ job.tags \subseteq Manifests[m].tags}}

\* Whether a plugin may run on a known node: the repository tells that the node
\* has its architecture, and, unless the repository is sure to answer, some
\* pattern of L vouches for its image.
Runnable(p, n, L) ==
  /\ p.image \in DOMAIN ECR => Supports(n, p.image)
  /\ p.image \notin DOMAIN ECR \ FetchFails => \E l \in L : p.image \in Patterns[l]

Valid(u, job, L) ==
  /\ Selected(job) # {}
  /\ job.notify = "ok"
  /\ \A i \in DOMAIN job.rules : RuleParses(job.rules[i])
  /\ \A i, k \in DOMAIN job.plugins : i # k => job.plugins[i].name # job.plugins[k].name
  /\ \A i \in DOMAIN job.plugins : IsPluginNameValid(job.plugins[i].name)
  /\ \A n \in Selected(job) :
       /\ CanScheduleOnNode(u, n)
       /\ n \in DOMAIN Manifests
       /\ \A i \in DOMAIN job.plugins : Runnable(job.plugins[i], n, L)

Accepted == v.at = "done" /\ v.errors = {}

\* The images that were in the code repository for this validation, or are
\* vouched for by a pattern that an administrator may have listed.
MayRun(p, n) ==
  \/ p.image \in DOMAIN ECR /\ Supports(n, p.image)
  \/ \E l \in DOMAIN Patterns : p.image \in Patterns[l]

-----------------------------------------------------------------------------
\* A job gets a goal only for the nodes that it selects, with all of its plugins
\* in their order on each of them, and only when its user may schedule on them
\* and they can run the plugins: no check that continues with the next plugin or
\* node forgets its error, and no plugin is left out in silence, whatever the
\* whitelist and the manifests become in between (cloudscheduler.go:105-205).  A
\* reload empties the manifests before it fills them (validator.go:78, 129): a
\* tag may then select too few nodes, in silence.
AcceptedIsSound ==
  Accepted =>
    /\ DOMAIN v.goal \subseteq Selected(v.job)
    /\ "database" \notin Range(changes) => DOMAIN v.goal = Selected(v.job)
    /\ \A n \in DOMAIN v.goal :
         /\ CanScheduleOnNode(v.user, n)
         /\ v.goal[n] = v.job.plugins
         /\ \A i \in DOMAIN v.goal[n] : MayRun(v.goal[n][i], n)
    /\ \A i \in DOMAIN v.job.rules : RuleParses(v.job.rules[i])

\* A valid job is accepted, unless an administrator has been at work; jobs with a
\* nil map of nodes are not spoken of (cloudscheduler.go:70-213).  Valid names are
\* those that IsPluginNameValid takes: at most 200 characters of a-z, 0-9 and "-",
\* where the error (cloudscheduler.go:126) speaks of 256 and of ".".
ValidIsAccepted ==
  v.at = "done" /\ changes = <<>> /\ v.job.nodes # NoNodes
    => (Valid(v.user, v.job, Range(FirstFile)) => v.errors = {})

\* Plugins whose manifest is known have unique names in an accepted job.  The
\* names of whitelisted plugins are not compared (cloudscheduler.go:143-151).
KnownNamesUnique ==
  Accepted => \A i, k \in DOMAIN v.job.plugins :
    i # k /\ {v.job.plugins[i].image, v.job.plugins[k].image} \subseteq DOMAIN ECR \ FetchFails
      => v.job.plugins[i].name # v.job.plugins[k].name

\* A restart finds every pattern that is in memory when no request for the
\* whitelist is under way, if the last one ran by itself.  Requests that overlap
\* each write the file through a descriptor of their own, over each other's lines,
\* and lose patterns (validator.go:216-225); whatever they left, and whatever a
\* process that died left, the next request that runs by itself repairs.
WhitelistIsSaved == alone /\ OnWhitelist = {} => whitelist \subseteq Range(file)
=============================================================================
