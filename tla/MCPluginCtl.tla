---------------------------- MODULE MCPluginCtl ----------------------------
(***************************************************************************)
(* A small instance of PluginCtl: deployments that differ in what the      *)
(* template and the updates tell apart, also some that are refused.        *)
(***************************************************************************)
EXTENDS PluginCtlProperties, TLC

CONSTANTS c1, c2

Plain ==
  [name |-> "p", tag |-> "1.0", node |-> "", entrypoint |-> "", options |-> {},
   selector |-> << >>, resource |-> {}, env |-> <<>>, envFromFile |-> <<>>,
   selectorParses |-> TRUE, type |-> "pod", force |-> FALSE, dryRun |-> FALSE]

MCDeployments ==
  { Plain,
    [Plain EXCEPT !.force = TRUE],
    [Plain EXCEPT !.type = "deployment", !.options = {"develop"}],
    \* everything at once, and a variable that the system sets itself
    [Plain EXCEPT !.options = Option, !.entrypoint = "python", !.node = "n",
       !.selector = [k \in {"resource.gpu"} |-> "true"],
       !.resource = {[key |-> "limit.gpu", parses |-> TRUE], [key |-> "request.cpu", parses |-> TRUE]},
       !.env = <<<<"HOST", "value">>>>, !.envFromFile = << <<"TOKEN", "secret">>, << >>, <<"LOST", "value">> >>],
    [Plain EXCEPT !.type = "job", !.force = TRUE],
    [Plain EXCEPT !.type = "daemonset", !.dryRun = TRUE],
    \* refused by pluginctl, and by Kubernetes for want of a container's name
    [Plain EXCEPT !.env = <<<<"TOKEN", "nosecret">>>>],
    [Plain EXCEPT !.name = ""],
    \* and for a resource it does not know, the example of pluginctl's help
    [Plain EXCEPT !.resource = {[key |-> "resource.cpu", parses |-> TRUE]}] }
=============================================================================
