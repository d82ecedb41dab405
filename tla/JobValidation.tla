---------------------------- MODULE JobValidation ----------------------------
(***************************************************************************)
(* How the cloud scheduler validates a job and makes its science goal      *)
(* (cloudscheduler.go, ValidateJobAndCreateScienceGoal; validator.go), one *)
(* step for each node and each plugin, while administrators change the     *)
(* whitelist of images and reload the manifests in other HTTP goroutines,  *)
(* without a lock, and while the process is restarted.                     *)
(***************************************************************************)
EXTENDS Integers, Sequences, FiniteSets, Functions, TLC

CONSTANTS
  Jobs,         \* jobs that users submit
  NoNodes,      \* the nodes of a job stored without any: a nil map
  Users,        \* users; NoTable marks one without a permission table
  NoTable,
  Manifests,    \* [VSN -> manifest of the node]
  ECR,          \* [image -> its architectures], the code repository
  Loaded,       \* images whose manifests were loaded at start
  Patterns,     \* [pattern of the whitelist -> images it matches]
  FirstFile,    \* lines of the whitelist's file at start
  Admins,       \* HTTP goroutines of administrators
  AdminOps,     \* what administrators do, and restarts
  FetchFails,   \* images whose requests to the code repository may fail
  MaxChanges    \* bound: requests of administrators and restarts

Archs   == {"arm64", "amd64", "armv7"}
Actions == {"schedule", "publish", "set"}

ASSUME ValidationAssumption ==
  /\ IsInjective([v \in DOMAIN Manifests |-> Manifests[v].name])
  /\ Loaded \subseteq DOMAIN ECR
  /\ FirstFile \in Seq(DOMAIN Patterns)
  /\ \A job \in Jobs : job.plugins \in Seq(Range(job.plugins))
  /\ AdminOps \subseteq {"add", "remove", "reload", "database", "restart"}
  /\ FetchFails \subseteq DOMAIN ECR
  /\ MaxChanges \in Nat

VARIABLES
  plugins,    \* images whose manifests the validator has
  nodes,      \* VSNs whose manifests it has
  whitelist,  \* patterns in its memory
  file,       \* lines of plugins.whitelist
  alone,      \* history: whether the last request for the whitelist to begin
              \* found no other under way
  admin,      \* what each administrator's goroutine does
  changes,    \* the requests that began, and the restarts
  v           \* the validation

listVars  == <<whitelist, file, alone>>
adminVars == <<nodes, listVars, admin, changes>>
vars == <<plugins, adminVars, v>>

-----------------------------------------------------------------------------
(* Users, manifests, names, rules                                          *)

\* Whether u may schedule on a node: of several entries of a node the last one
\* that grants anything counts.
CanScheduleOnNode(u, vsn) ==
  /\ u # NoTable
  /\ LET entries == {i \in DOMAIN u : u[i].vsn = vsn /\ u[i].access # {}}
     IN \E i \in entries : /\ \A k \in entries : k <= i
                           /\ "schedule" \in u[i].access

\* The architecture of a compute device is the first of its capabilities that
\* names one.
Architecture(caps) ==
  LET known == {i \in DOMAIN caps : caps[i] \in Archs}
  IN IF known = {} THEN ""
     ELSE caps[CHOOSE i \in known : \A k \in known : i <= k]

\* Whether some device of the node supports an architecture of the image.
Supports(vsn, image) ==
  \E c \in Manifests[vsn].computes : Architecture(c) \in ECR[image]

MatchTags(vsn, tags) == tags \subseteq Manifests[vsn].tags

\* Mutant: nodes that match some tag are selected.
GetNodeNamesByTags_Any(tags) ==
  {Manifests[n].name : n \in {m \in nodes : Manifests[m].tags \cap tags # {}}}

\* Nodes are named here although manifests are found by VSN.
GetNodeNamesByTags(tags) ==
  IF tags = {} THEN {}
  ELSE {Manifests[n].name : n \in {m \in nodes : MatchTags(m, tags)}}

\* ^[a-z0-9-]+$ and at most 200 characters
IsPluginNameValid(name) == name.chars /\ name.len \in 1..200

IsPluginWhitelisted(image) == \E p \in whitelist : image \in Patterns[p]

\* A rule is action(object, key=value, ...): condition; `params' tells in how
\* many parts "=" splits each parameter.
RuleParses(rule) ==
  /\ rule.form
  /\ rule.action \in Actions
  /\ \A i \in DOMAIN rule.params : rule.params[i] = 2

-----------------------------------------------------------------------------
(* Validation                                                              *)

Idle == [at |-> "idle"]

\* After the tags and the notifications; `nodes' are those that are left.
Validating(at, u, job, rest, goal, errors) ==
  [at |-> at, user |-> u, job |-> job, nodes |-> rest, goal |-> goal, errors |-> errors]

\* Tags are resolved into the job's map of nodes, which may be nil: assigning
\* to it panics, and net/http recovers.  One unknown kind of notification is an
\* error like others, several ("unknowns") end the validation.
Begin(u, job) ==
  /\ v.at = "idle"
  /\ LET tagged == GetNodeNamesByTags(job.tags)
         all    == tagged \cup (IF job.nodes = NoNodes THEN {} ELSE job.nodes)
         start(at, errors) == Validating(at, u, job, all, <<>>, errors)
     IN v' = CASE job.nodes = NoNodes /\ tagged # {} -> start("panicked", {})
               [] all = {}                           -> start("done", {"node"})
               [] all # {} /\ job.notify = "nobody" -> start("done", {"email"})
               [] all # {} /\ job.notify = "unknowns" -> start("done", {"notification"})
               [] OTHER -> start("nodes", IF job.notify = "unknown" THEN {"notification"} ELSE {})
  /\ UNCHANGED <<plugins, adminVars>>

\* The checks of one node, in the order of a map's iteration.
BeginNode(n) ==
  /\ v.at = "nodes" /\ n \in v.nodes
  /\ LET refused(e) == [v EXCEPT !.nodes = @ \ {n}, !.errors = @ \cup {e}]
     IN v' = IF ~ CanScheduleOnNode(v.user, n) THEN refused("permission")
             ELSE IF n \notin nodes THEN refused("manifest")
             ELSE [at |-> "plugins", user |-> v.user, job |-> v.job, nodes |-> v.nodes \ {n},
                   goal |-> v.goal, errors |-> v.errors,
                   node |-> n, next |-> 1, seen |-> {}, approved |-> <<>>]
  /\ UNCHANGED <<plugins, adminVars>>

\* Mutant: the names of approved plugins are not recorded.
Approved_Unseen(p, new) == v' = [v EXCEPT !.next = @ + 1, !.approved = Append(@, p)]

\* The verdict on the next plugin: an error, or approval, after which its name
\* is recorded when the image has a manifest.
Rejected(e)      == v' = [v EXCEPT !.next = @ + 1, !.errors = @ \cup {e}]
Approved(p, new) == v' = [v EXCEPT !.next = @ + 1, !.approved = Append(@, p), !.seen = @ \cup new]

\* Mutant: an image that cannot be fetched is kept in the catalog.
CheckPlugin_KeepsUnknown ==
  /\ v.at = "plugins" /\ v.next <= Len(v.job.plugins)
  /\ LET p == v.job.plugins[v.next]
     IN plugins' = plugins \cup {p.image} /\ Rejected("image")
  /\ UNCHANGED adminVars

\* Mutant: an image without a manifest is skipped.
CheckPlugin_Skips ==
  /\ v.at = "plugins" /\ v.next <= Len(v.job.plugins)
  /\ LET p == v.job.plugins[v.next]
     IN IF p.image \in plugins /\ Supports(v.node, p.image) /\ IsPluginNameValid(p.name)
        THEN Approved(p, {p.name}) ELSE v' = [v EXCEPT !.next = @ + 1]
  /\ UNCHANGED <<plugins, adminVars>>

\* One plugin on one node.  A manifest that the validator lacks is fetched.  A
\* plugin without an image is one whose image nobody knows.
CheckPlugin ==
  /\ v.at = "plugins" /\ v.next <= Len(v.job.plugins)
  /\ LET p == v.job.plugins[v.next]
         named == IsPluginNameValid(p.name) /\ p.name \notin v.seen
     IN \/ ~ IsPluginNameValid(p.name) /\ Rejected("name") /\ UNCHANGED plugins
        \/ p.name \in v.seen /\ Rejected("duplicate") /\ UNCHANGED plugins
        \/ /\ named /\ p.image \in plugins \cup DOMAIN ECR
           /\ plugins' = plugins \cup {p.image}
           /\ IF Supports(v.node, p.image) THEN Approved(p, {p.name}) ELSE Rejected("architecture")
        \/ /\ named /\ p.image \notin plugins
           /\ p.image \notin DOMAIN ECR \ FetchFails
           /\ IF IsPluginWhitelisted(p.image) THEN Approved(p, {}) ELSE Rejected("image")
           /\ UNCHANGED plugins
  /\ UNCHANGED adminVars

\* The rules, then AddSubGoal.
EndNode ==
  /\ v.at = "plugins" /\ v.next > Len(v.job.plugins)
  /\ v' = Validating("nodes", v.user, v.job, v.nodes,
            [n \in DOMAIN v.goal \cup {v.node} |-> IF n = v.node THEN v.approved ELSE v.goal[n]],
            v.errors \cup IF \E i \in DOMAIN v.job.rules : ~ RuleParses(v.job.rules[i])
                          THEN {"rule"} ELSE {})
  /\ UNCHANGED <<plugins, adminVars>>

Finish ==
  /\ v.at = "nodes" /\ v.nodes = {}
  /\ v' = [v EXCEPT !.at = "done"]
  /\ UNCHANGED <<plugins, adminVars>>

Answer ==
  /\ v.at \in {"done", "panicked"}
  /\ v' = Idle
  /\ UNCHANGED <<plugins, adminVars>>

-----------------------------------------------------------------------------
(* The whitelist: handleDataPluginsWhitelist                               *)

\* No request waits for another.
Requested(r, op) ==
  /\ op \in AdminOps /\ admin[r] = Idle /\ Len(changes) < MaxChanges
  /\ changes' = Append(changes, op)

OnWhitelist == {r \in Admins : admin[r].at \in {"open", "write", "scan", "read"}}

WhitelistRequested(r, op) == Requested(r, op) /\ alone' = (OnWhitelist = {})

\* The goroutines that range over the map of the whitelist.  Those that range over
\* a map that a reload has replaced still write it.
Ranging == {r \in Admins : admin[r].at = "write" /\ admin[r].live}

\* The map gets p, and r continues with `next'.  Who ranges over the map reaches
\* a new entry or not.
Entered(r, p, next) ==
  /\ whitelist' = whitelist \cup {p}
  /\ \E S \in SUBSET (IF p \in whitelist THEN {} ELSE Ranging) :
       admin' = [s \in Admins |-> IF s = r THEN next
                                  ELSE IF s \in S THEN [admin[s] EXCEPT !.left = @ \cup {p}]
                                  ELSE admin[s]]

AddPluginWhitelist(r, p) ==
  /\ WhitelistRequested(r, "add")
  /\ Entered(r, p, [at |-> "open"])
  /\ UNCHANGED <<plugins, nodes, file, v>>

\* Who ranges over the map does not reach p, unless it has it already in hand.
RemovePluginWhitelist(r, p) ==
  /\ WhitelistRequested(r, "remove")
  /\ whitelist' = whitelist \ {p}
  /\ \E S \in SUBSET Ranging :
       admin' = [s \in Admins |-> IF s = r THEN [at |-> "open"]
                                  ELSE IF s \in S THEN [admin[s] EXCEPT !.left = @ \ {p}]
                                  ELSE admin[s]]
  /\ UNCHANGED <<plugins, nodes, file, v>>

\* The file is opened without truncation, by each request for itself, and written
\* from its start.
WritePluginWhitelist(r) ==
  /\ admin[r].at = "open"
  /\ admin' = [admin EXCEPT ![r] = [at |-> "write", left |-> whitelist, line |-> 1, live |-> TRUE]]
  /\ UNCHANGED <<plugins, nodes, listVars, changes, v>>

LineWritten(k, p) == IF k <= Len(file) THEN [file EXCEPT ![k] = p] ELSE Append(file, p)

\* Mutant: every line is written over the one before.
WriteLine_SameLine(r, p) ==
  /\ admin[r].at = "write" /\ p \in admin[r].left
  /\ file' = LineWritten(admin[r].line, p)
  /\ admin' = [admin EXCEPT ![r] = IF admin[r].left = {p} THEN Idle
                                   ELSE [admin[r] EXCEPT !.left = @ \ {p}]]
  /\ UNCHANGED <<plugins, nodes, whitelist, alone, changes, v>>

\* One line, in the order of a map's iteration.  Patterns are taken to be
\* equally long: a line that is written replaces one line of the old file.
WriteLine(r, p) ==
  /\ admin[r].at = "write" /\ p \in admin[r].left
  /\ file' = LineWritten(admin[r].line, p)
  /\ admin' = [admin EXCEPT ![r] = IF admin[r].left = {p} THEN Idle
                                   ELSE [admin[r] EXCEPT !.left = @ \ {p}, !.line = @ + 1]]
  /\ UNCHANGED <<plugins, nodes, whitelist, alone, changes, v>>

WriteNothing(r) ==
  /\ admin[r].at = "write" /\ admin[r].left = {}
  /\ admin' = [admin EXCEPT ![r] = Idle]
  /\ UNCHANGED <<plugins, nodes, listVars, changes, v>>

\* reload=true: a new map, ...
LoadPluginWhitelist(r) ==
  /\ WhitelistRequested(r, "reload")
  /\ whitelist' = {}
  /\ admin' = [s \in Admins |-> IF s = r THEN [at |-> "scan"]
                                ELSE IF s \in Ranging THEN [admin[s] EXCEPT !.live = FALSE]
                                ELSE admin[s]]
  /\ UNCHANGED <<plugins, nodes, file, v>>

\* ... the scanner's buffer, which a whitelist is taken to fit into, ...
ScanFile(r) ==
  /\ admin[r].at = "scan"
  /\ admin' = [admin EXCEPT ![r] = [at |-> "read", lines |-> file, line |-> 1]]
  /\ UNCHANGED <<plugins, nodes, listVars, changes, v>>

\* ... and its lines.
ReadLine(r) ==
  /\ admin[r].at = "read"
  /\ IF admin[r].line <= Len(admin[r].lines)
     THEN Entered(r, admin[r].lines[admin[r].line], [admin[r] EXCEPT !.line = @ + 1])
     ELSE admin' = [admin EXCEPT ![r] = Idle] /\ UNCHANGED whitelist
  /\ UNCHANGED <<plugins, nodes, file, alone, changes, v>>

-----------------------------------------------------------------------------
(* The manifests: handleDataPlugins and handleDataNodes, reload=true        *)

\* LoadDatabase: each map is emptied, then filled with what a request to its
\* server answers; when that fails the map stays empty.
LoadDatabase(r) ==
  /\ Requested(r, "database")
  /\ plugins' = {}
  /\ admin' = [admin EXCEPT ![r] = [at |-> "apps", left |-> Loaded]]
  /\ UNCHANGED <<nodes, listVars, v>>

LoadApp(r, p) ==
  /\ admin[r].at = "apps" /\ p \in admin[r].left
  /\ plugins' = plugins \cup {p}
  /\ admin' = [admin EXCEPT ![r].left = @ \ {p}]
  /\ UNCHANGED <<nodes, listVars, changes, v>>

LoadNodes(r) ==
  /\ admin[r] = [at |-> "apps", left |-> {}]
  /\ nodes' = {}
  /\ admin' = [admin EXCEPT ![r] = [at |-> "manifests", left |-> DOMAIN Manifests]]
  /\ UNCHANGED <<plugins, listVars, changes, v>>

LoadNode(r, n) ==
  /\ admin[r].at = "manifests" /\ n \in admin[r].left
  /\ nodes' = nodes \cup {n}
  /\ admin' = [admin EXCEPT ![r] = IF admin[r].left = {n} THEN Idle
                                   ELSE [admin[r] EXCEPT !.left = @ \ {n}]]
  /\ UNCHANGED <<plugins, listVars, changes, v>>

LoadFails(r) ==
  /\ admin[r] \in {[at |-> "apps", left |-> Loaded],
                   [at |-> "manifests", left |-> DOMAIN Manifests]}
  /\ admin' = [admin EXCEPT ![r] = Idle]
  /\ UNCHANGED <<plugins, nodes, listVars, changes, v>>

-----------------------------------------------------------------------------
Init ==
  /\ plugins = Loaded
  /\ nodes = DOMAIN Manifests
  /\ file = FirstFile
  /\ whitelist = Range(FirstFile)
  /\ alone = TRUE
  /\ admin = [r \in Admins |-> Idle]
  /\ changes = <<>>
  /\ v = Idle

Validate ==
  \/ \E u \in Users, job \in Jobs : Begin(u, job)
  \/ v.at = "nodes" /\ \E n \in v.nodes : BeginNode(n)
  \/ CheckPlugin \/ EndNode \/ Finish \/ Answer

Administer == \E r \in Admins :
  \/ \E p \in DOMAIN Patterns :
       AddPluginWhitelist(r, p) \/ RemovePluginWhitelist(r, p) \/ WriteLine(r, p)
  \/ WritePluginWhitelist(r) \/ WriteNothing(r)
  \/ LoadPluginWhitelist(r) \/ ScanFile(r) \/ ReadLine(r)
  \/ LoadDatabase(r) \/ LoadNodes(r) \/ LoadFails(r)
  \/ \E p \in Loaded : LoadApp(r, p)
  \/ \E n \in DOMAIN Manifests : LoadNode(r, n)

\* The process dies, as the runtime makes it when it sees two goroutines at one
\* map, and starts again.
Restart ==
  /\ "restart" \in AdminOps /\ Len(changes) < MaxChanges
  /\ changes' = Append(changes, "restart")
  /\ plugins' = Loaded /\ nodes' = DOMAIN Manifests
  /\ whitelist' = Range(file) /\ alone' = TRUE
  /\ admin' = [r \in Admins |-> Idle] /\ v' = Idle
  /\ UNCHANGED file

Next == Validate \/ Administer \/ Restart

Spec == Init /\ [][Next]_vars
=============================================================================
