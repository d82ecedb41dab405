----------------------------- MODULE GoalStream -----------------------------
(***************************************************************************)
(* How a node learns its science goals: it opens a stream of server-sent   *)
(* events (http.go, Subscribe), which a handler of the cloud's API server  *)
(* serves (api_server.go, handlerGoalStreamForNode), first with the list   *)
(* of the node's goals, then with what the cloud pushes into a channel of  *)
(* capacity one.  A pushed value is a pointer to an event (cloudscheduler  *)
(* .go:254) and the handler asserts an event (api_server.go:640): the      *)
(* handler panics, net/http ends the connection, and the node comes back   *)
(* and is sent a fresh list.                                               *)
(***************************************************************************)
EXTENDS Integers, Sequences, FiniteSets

CONSTANTS
  Nodes,            \* edge nodes
  PushNotification, \* whether the cloud offers streams (its configuration)
  ScannerLimit,     \* number of goals of a list that fits the client's scanner
  StreamFaults,     \* what may go wrong with a connection
  MaxStreamFaults   \* bound: how often something goes wrong

\* "drop": the connection breaks and what is under way is lost
\* "eof":  a proxy ends the response cleanly, as if the cloud had finished
ASSUME StreamAssumption ==
  /\ PushNotification \in BOOLEAN
  /\ ScannerLimit \in Nat
  /\ StreamFaults \subseteq {"drop", "eof"}
  /\ MaxStreamFaults \in Nat

VARIABLES
  handler,       \* [Nodes -> where the node's stream handler is]
  pushed,        \* [Nodes -> whether its channel holds an event]
  wire,          \* [Nodes -> lists written and not yet read by the node]
  client,        \* [Nodes -> where the node's subscription loop is]
  nodeGoals,     \* [Nodes -> the newest list the node has received]
  streamFaults   \* how often something went wrong

streamVars == <<handler, pushed, wire, client, nodeGoals, streamFaults>>

\* A handler that is "subscribed" has not read the goals yet, one that has
\* "listed" them has not flushed them yet.
HandlerState == {"none", "subscribed", "listed", "streaming"}

\* "away" before a request, also while it backs off; "spinning" after a clean
\* end of the response: Scan returns false, Err returns nil, for ever.
ClientState == {"away", "reading", "spinning"}

StreamInit ==
  /\ handler = [n \in Nodes |-> "none"]
  /\ pushed = [n \in Nodes |-> FALSE]
  /\ wire = [n \in Nodes |-> <<>>]
  /\ client = [n \in Nodes |-> "away"]
  /\ nodeGoals = [n \in Nodes |-> {}]
  /\ streamFaults = 0

-----------------------------------------------------------------------------
\* The node's request reaches the cloud, whose handler subscribes a new channel.
Connect(n) ==
  /\ PushNotification
  /\ client[n] = "away" /\ handler[n] = "none"
  /\ client' = [client EXCEPT ![n] = "reading"]
  /\ handler' = [handler EXCEPT ![n] = "subscribed"]
  /\ pushed' = [pushed EXCEPT ![n] = FALSE]
  /\ UNCHANGED <<wire, nodeGoals, streamFaults>>

\* The handler reads the goals of the node, `list', and writes them.
ListGoals(n, list) ==
  /\ handler[n] = "subscribed"
  /\ handler' = [handler EXCEPT ![n] = "listed"]
  /\ wire' = [wire EXCEPT ![n] = Append(@, list)]
  /\ UNCHANGED <<pushed, client, nodeGoals, streamFaults>>

\* It flushes them and enters its loop.
Flush(n) ==
  /\ handler[n] = "listed"
  /\ handler' = [handler EXCEPT ![n] = "streaming"]
  /\ UNCHANGED <<pushed, wire, client, nodeGoals, streamFaults>>

\* Mutant: the handler subscribes after it has listed the goals.
PushTo_SubscribeLate(n) == [pushed EXCEPT ![n] = handler[n] = "streaming"]

\* The channels after a push to n: a full channel is passed over, and a
\* node without a handler has no channel.
PushTo(n) == [pushed EXCEPT ![n] = handler[n] # "none"]

\* The handler receives what was pushed, and panics: unsubscribe, end of the
\* connection.  The node can still read what was written before.
TakePushed(n) ==
  /\ handler[n] = "streaming" /\ pushed[n]
  /\ handler' = [handler EXCEPT ![n] = "none"]
  /\ pushed' = [pushed EXCEPT ![n] = FALSE]
  /\ UNCHANGED <<wire, client, nodeGoals, streamFaults>>

\* The node scans one event.  A list longer than the scanner's buffer is an
\* error, after which Subscribe closes the response and retries.
Deliver(n) ==
  /\ client[n] = "reading" /\ wire[n] # <<>> /\ handler[n] # "listed"
  /\ IF Cardinality(Head(wire[n])) <= ScannerLimit
     THEN /\ nodeGoals' = [nodeGoals EXCEPT ![n] = Head(wire[n])]
          /\ wire' = [wire EXCEPT ![n] = Tail(@)]
          /\ UNCHANGED <<handler, pushed, client>>
     ELSE /\ client' = [client EXCEPT ![n] = "away"]
          /\ handler' = [handler EXCEPT ![n] = "none"]
          /\ pushed' = [pushed EXCEPT ![n] = FALSE]
          /\ wire' = [wire EXCEPT ![n] = <<>>]
          /\ UNCHANGED nodeGoals
  /\ UNCHANGED streamFaults

\* Mutant: the subscription ends at the first error.
StreamBroken_NoRetry(n) ==
  /\ client[n] = "reading" /\ wire[n] = <<>> /\ handler[n] = "none"
  /\ client' = [client EXCEPT ![n] = "spinning"]
  /\ UNCHANGED <<handler, pushed, wire, nodeGoals, streamFaults>>

\* The node has read everything and sees that the connection is broken.
StreamBroken(n) ==
  /\ client[n] = "reading" /\ wire[n] = <<>> /\ handler[n] = "none"
  /\ client' = [client EXCEPT ![n] = "away"]
  /\ UNCHANGED <<handler, pushed, wire, nodeGoals, streamFaults>>

-----------------------------------------------------------------------------
\* A fault; the handler sees its context done and unsubscribes.
LoseConnection(n) ==
  /\ streamFaults < MaxStreamFaults
  /\ handler[n] = "streaming"
  /\ streamFaults' = streamFaults + 1
  /\ handler' = [handler EXCEPT ![n] = "none"]
  /\ pushed' = [pushed EXCEPT ![n] = FALSE]
  /\ UNCHANGED nodeGoals
  /\ \/ /\ "drop" \in StreamFaults
        /\ wire' = [wire EXCEPT ![n] = <<>>]
        /\ UNCHANGED client
     \/ /\ "eof" \in StreamFaults /\ wire[n] = <<>>
        /\ client' = [client EXCEPT ![n] = "spinning"]
        /\ UNCHANGED wire

\* The cloud is restarted: every connection breaks.
StreamReset ==
  /\ handler' = [n \in Nodes |-> "none"]
  /\ pushed' = [n \in Nodes |-> FALSE]
  /\ wire' = [n \in Nodes |-> <<>>]
  /\ UNCHANGED <<client, nodeGoals, streamFaults>>

\* What the node and the handler of a connection do by themselves.
StreamStep(n) ==
  Flush(n) \/ TakePushed(n) \/ Deliver(n) \/ StreamBroken(n)

=============================================================================
