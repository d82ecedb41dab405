---------------------------- MODULE PodTemplate ----------------------------
(***************************************************************************)
(* What a plugin becomes in the cluster: the pod template that the         *)
(* resource manager makes of a specification (resourcemanager.go,          *)
(* createPodTemplateSpecForPlugin) and the objects that wrap it.  A        *)
(* specification is a record                                               *)
(*   name, image, tag, node, entrypoint  ("" when not given),              *)
(*   options   a subset of Option,                                         *)
(*   selector  [label -> value],                                           *)
(*   resource  the set of keys, each with a quantity that parses or not,   *)
(*   env       [variable -> "value", or the secret it is read from].       *)
(* What is constant for all plugins (images, commands, hosts) is left out. *)
(***************************************************************************)
EXTENDS Integers, Sequences, FiniteSets, Functions

Option == {"privileged", "develop", "controller"}

\* The variables that the resource manager sets itself.
SystemEnv ==
  {"PULSE_SERVER", "WAGGLE_PLUGIN_HOST", "WAGGLE_PLUGIN_PORT",
   "WAGGLE_PLUGIN_USERNAME", "WAGGLE_PLUGIN_PASSWORD", "WAGGLE_GPS_SERVER",
   "WAGGLE_APP_ID", "ROS_IP", "ROS_MASTER_URI", "WAGGLE_SCOREBOARD", "HOST"}

CONSTANT NoTemplate   \* stands for a template that could not be made

\* The name of the object; generateJobNameForSpec makes one from the image and
\* a hash when the plugin has none, and needs a tag.
ObjectName(spec) ==
  IF spec.name # "" THEN spec.name
  ELSE IF spec.tag # "" THEN "generated" ELSE ""

Named(spec) == ObjectName(spec) # "" /\ spec.name # "Not_RFC1123"

\* labelsForPlugin; the labels with a constant value and those of the node
\* scheduler's goals aside.
Labels(spec) ==
  [app |-> spec.name,
   role |-> IF "develop" \in spec.options THEN "" ELSE "plugin"]

\* nodeSelectorForConfig: the selector is copied over the node.
NodeSelector(spec) ==
  LET host == IF spec.node = "" THEN << >> ELSE [k \in {"k3s.io/hostname"} |-> spec.node]
  IN [k \in DOMAIN host \cup DOMAIN spec.selector |->
        IF k \in DOMAIN spec.selector THEN spec.selector[k] ELSE host[k]]

\* resourceListForConfig: an unknown key is a limit of that name.
Limit(key) ==
  CASE key = "limit.cpu"    -> "cpu"
    [] key = "limit.memory" -> "memory"
    [] key = "limit.gpu"    -> "nvidia.com/gpu"
    [] OTHER                -> key
Requested(key) == IF key = "request.cpu" THEN "cpu" ELSE "memory"

Resources(spec) ==
  LET requests == {"request.cpu", "request.memory"}
  IN [limits   |-> {Limit(r.key) : r \in {q \in spec.resource : q.key \notin requests}},
      requests |-> {Requested(r.key) : r \in {q \in spec.resource : q.key \in requests}}]

ResourcesParse(spec) == \A r \in spec.resource : r.parses

\* parseEnv: a variable read from a secret that does not exist is an error.
EnvParses(spec, secrets) ==
  \A k \in DOMAIN spec.env : spec.env[k] \in {"value"} \cup secrets

\* The variables in the order of the container: Kubernetes lets a later entry
\* override an earlier one of that name.
UserEnvEntries(spec)   == {[name |-> k, from |-> "user"] : k \in DOMAIN spec.env}
SystemEnvEntries       == {[name |-> k, from |-> "system"] : k \in SystemEnv}

\* Mutant: what the user sets comes last.
Env_UserLast(spec) == <<SystemEnvEntries, UserEnvEntries(spec)>>

\* Two groups, each without repeated names, whose inner order does not matter.
Env(spec) == <<UserEnvEntries(spec), SystemEnvEntries>>

\* The variables a container finally sees.
Effective(env) ==
  LET last == {e.name : e \in env[2]}
  IN env[2] \cup {e \in env[1] : e.name \notin last}

Volumes(spec) ==
  {"uploads", "waggle-data-config", "wes-audio-server-plugin-conf"}
    \cup {v \in {"local-share"} : "controller" \in spec.options}
    \cup {v \in {"dev"} : "privileged" \in spec.options}

\* The volumes the plugin's container mounts, and where.
PluginMounts(spec) ==
  {<<"uploads", "/run/waggle/uploads">>,
   <<"waggle-data-config", "/run/waggle/data-config.json">>,
   <<"wes-audio-server-plugin-conf", "/etc/asound.conf">>}
    \cup {m \in {<<"local-share", "/waggle">>} : "controller" \in spec.options}
    \cup {m \in {<<"dev", "/host/dev">>} : "privileged" \in spec.options}

PluginContainer(spec) ==
  [name |-> spec.name, command |-> spec.entrypoint, env |-> Env(spec),
   resources |-> Resources(spec), mounts |-> PluginMounts(spec),
   privileged |-> "privileged" \in spec.options,
   started |-> "controller" \in spec.options]

\* The sidecar is told the process of the plugin when the user names one.
ControllerContainer(spec) ==
  [name |-> "plugin-controller", command |-> "", process |-> spec.entrypoint,
   mounts |-> {<<"local-share", "/app/">>}]

Containers(spec) ==
  <<PluginContainer(spec)>>
    \o (IF "controller" \in spec.options THEN <<ControllerContainer(spec)>> ELSE <<>>)

InitContainers == <<[name |-> "init-app-meta-cache", mounts |-> {}]>>

\* createPodTemplateSpecForPlugin; an image with two tags is an error.
TemplateFor(spec, secrets) ==
  IF EnvParses(spec, secrets) /\ spec.tag # "invalid" /\ ResourcesParse(spec)
  THEN [labels |-> Labels(spec), nodeSelector |-> NodeSelector(spec),
        initContainers |-> InitContainers, containers |-> Containers(spec),
        volumes |-> Volumes(spec), restart |-> "Always"]
  ELSE NoTemplate

\* CreatePodTemplate, CreateJobTemplate, CreateDeploymentTemplate,
\* CreateDaemonSetTemplate.
ObjectFor(spec, type, secrets) ==
  LET template == TemplateFor(spec, secrets)
  IN IF ~ Named(spec) \/ template = NoTemplate THEN NoTemplate
     ELSE [name |-> ObjectName(spec), type |-> type,
           template |-> [template EXCEPT !.restart = IF type \in {"pod", "job"} THEN "Never" ELSE @],
           selects |-> IF type \in {"deployment", "daemonset"} THEN {template.labels} ELSE {}]

\* What Kubernetes refuses to store: a container without a name, or two of one
\* name, and a resource it does not know.
KnownResource == {"cpu", "memory", "nvidia.com/gpu"}
Admitted(object) ==
  LET c == object.template.containers
  IN /\ \A i \in DOMAIN c : c[i].name # ""
     /\ \A i, j \in DOMAIN c : c[i].name = c[j].name => i = j
     /\ c[1].resources.limits \subseteq KnownResource
=============================================================================
