------------------------- MODULE MessagePublication -------------------------
(***************************************************************************)
(* How a node publishes its events (pkg/interfacing/rmq.go): goroutines of *)
(* the node scheduler put messages into a bounded channel and ignore the   *)
(* error they get when it is full; one goroutine takes them out, connects  *)
(* to RabbitMQ when there is no connection, and publishes them without     *)
(* confirmation.  A message that fails is logged and given up.             *)
(*                                                                         *)
(* The AMQP library and the broker are external: a connection and the      *)
(* channel opened on it fail together, but the broker may also close the   *)
(* channel alone (a missing exchange, a wrong user ID); what was written   *)
(* and not yet read by the broker is lost with either of them.             *)
(***************************************************************************)
EXTENDS Integers, Sequences, SequencesExt

CONSTANTS
  Senders,     \* goroutines that send messages
  ChannelCap,  \* capacity of chanToPublish (100)
  Faults,      \* what may go wrong
  MaxCalls,    \* bound: messages of each sender
  MaxFaults,   \* bound: how often something goes wrong
  MaxRestarts  \* bound: deaths of the process for other reasons

\* "dial":       no connection is made
\* "open":       a connection is made, and no channel on it
\* "connection": the connection breaks
\* "channel":    the broker closes the channel and keeps the connection
ASSUME PublicationAssumption ==
  /\ ChannelCap \in Nat \ {0}
  /\ Faults \subseteq {"dial", "open", "connection", "channel"}
  /\ MaxCalls \in Nat /\ MaxFaults \in Nat /\ MaxRestarts \in Nat

VARIABLES
  calls,          \* [Senders -> number of its newest message]
  sending,        \* [Senders -> whether it is at the send to the channel]
  chanToPublish,
  publishing,     \* the message the loop has taken out, if any
  connected,      \* whether publish has passed its look at the connection
  rabbitmqConn,
  rabbitmqChan,
  wire,           \* messages written and not yet read by the broker
  received,       \* messages the broker has routed
  lost,           \* messages refused, failed or dropped (history)
  faults, restarts

senderVars == <<calls, sending>>
connVars   == <<rabbitmqConn, rabbitmqChan>>
brokerVars == <<wire, received>>
boundVars  == <<faults, restarts>>
vars == <<senderVars, chanToPublish, publishing, connected, connVars, brokerVars,
          lost, boundVars>>

Message  == [from : Senders, seq : 1..MaxCalls]
ConnState == {"nil", "open", "closed"}

Newest(s) == [from |-> s, seq |-> calls[s]]

\* The messages of senders that have found room in the channel.
Pending == {Newest(s) : s \in {s \in Senders : sending[s]}}

TypeOK ==
  /\ calls \in [Senders -> 0..MaxCalls]
  /\ sending \in [Senders -> BOOLEAN]
  /\ chanToPublish \in Seq(Message) /\ Len(chanToPublish) <= ChannelCap
  /\ publishing \in {<<>>} \cup {<<m>> : m \in Message}
  /\ connected \in BOOLEAN
  /\ rabbitmqConn \in ConnState /\ rabbitmqChan \in ConnState
  /\ wire \in Seq(Message) /\ received \in Seq(Message)
  /\ lost \subseteq Message
  /\ faults \in 0..MaxFaults /\ restarts \in 0..MaxRestarts
  /\ Pending \subseteq Message

Init ==
  /\ calls = [s \in Senders |-> 0]
  /\ sending = [s \in Senders |-> FALSE]
  /\ chanToPublish = <<>> /\ publishing = <<>> /\ connected = FALSE
  /\ rabbitmqConn = "nil" /\ rabbitmqChan = "nil"
  /\ wire = <<>> /\ received = <<>> /\ lost = {}
  /\ faults = 0 /\ restarts = 0

-----------------------------------------------------------------------------
(* SendWaggleMessageOnNodeAsync                                            *)

\* Mutant: one more message than fits passes the comparison.
Full_OffByOne == Len(chanToPublish) > ChannelCap

Full == Len(chanToPublish) = ChannelCap

\* The length is compared first: the message is refused ...
Call(s) ==
  /\ ~ sending[s] /\ calls[s] < MaxCalls
  /\ calls' = [calls EXCEPT ![s] = @ + 1]
  /\ IF Full
     THEN lost' = lost \cup {Newest(s)'} /\ UNCHANGED sending
     ELSE sending' = [sending EXCEPT ![s] = TRUE] /\ UNCHANGED lost
  /\ UNCHANGED <<chanToPublish, publishing, connected, connVars, brokerVars, boundVars>>

\* Mutant: the send does not wait when others have filled the channel meanwhile.
Send_Drops(s) ==
  /\ sending[s]
  /\ sending' = [sending EXCEPT ![s] = FALSE]
  /\ chanToPublish' = IF Full THEN chanToPublish ELSE Append(chanToPublish, Newest(s))
  /\ UNCHANGED <<calls, publishing, connected, connVars, brokerVars, lost, boundVars>>

\* Mutant: the channel has no capacity.
Send_Unbounded(s) ==
  /\ sending[s]
  /\ sending' = [sending EXCEPT ![s] = FALSE]
  /\ chanToPublish' = Append(chanToPublish, Newest(s))
  /\ UNCHANGED <<calls, publishing, connected, connVars, brokerVars, lost, boundVars>>

\* ... or sent, which waits while others have filled the channel meanwhile.
Send(s) ==
  /\ sending[s] /\ Len(chanToPublish) < ChannelCap
  /\ sending' = [sending EXCEPT ![s] = FALSE]
  /\ chanToPublish' = Append(chanToPublish, Newest(s))
  /\ UNCHANGED <<calls, publishing, connected, connVars, brokerVars, lost, boundVars>>

-----------------------------------------------------------------------------
(* StartLoop                                                               *)

Receive ==
  /\ publishing = <<>> /\ chanToPublish # <<>>
  /\ publishing' = <<Head(chanToPublish)>>
  /\ chanToPublish' = Tail(chanToPublish)
  /\ UNCHANGED <<senderVars, connected, connVars, brokerVars, lost, boundVars>>

\* Mutant: a message that failed goes back into the channel.
Failed_Requeued ==
  /\ chanToPublish' = chanToPublish \o publishing
  /\ publishing' = <<>> /\ connected' = FALSE
  /\ UNCHANGED lost

\* Mutant: a message that failed is published again, without a look at the connection.
Failed_Retried == UNCHANGED <<chanToPublish, publishing, connected, lost>>

\* publish returns an error, which is logged.
Failed ==
  /\ lost' = lost \cup ToSet(publishing)
  /\ publishing' = <<>> /\ connected' = FALSE
  /\ UNCHANGED chanToPublish

Fault(kind) == kind \in Faults /\ faults < MaxFaults /\ faults' = faults + 1

\* Mutant: a connection that was closed is used on.
Disconnected_NilOnly == rabbitmqConn = "nil"

\* There is none, or IsClosed.
Disconnected == rabbitmqConn # "open"

\* publish, its first half.  Connect keeps a connection on which it could not open
\* a channel, beside the channel of an earlier one.
Connect ==
  /\ publishing # <<>> /\ ~ connected
  /\ \/ /\ ~ Disconnected
        /\ connected' = TRUE
        /\ UNCHANGED <<chanToPublish, publishing, connVars, lost, faults>>
     \/ /\ Disconnected
        /\ rabbitmqConn' = "open" /\ rabbitmqChan' = "open" /\ connected' = TRUE
        /\ UNCHANGED <<chanToPublish, publishing, lost, faults>>
     \/ /\ Disconnected /\ Fault("dial")
        /\ Failed /\ UNCHANGED connVars
     \/ /\ Disconnected /\ Fault("open")
        /\ rabbitmqConn' = "open" /\ UNCHANGED rabbitmqChan
        /\ Failed
  /\ UNCHANGED <<senderVars, brokerVars, restarts>>

\* The process dies and is started again; the broker keeps what it has read.
Restarted ==
  /\ lost' = lost \cup Pending \cup ToSet(chanToPublish) \cup ToSet(publishing)
                  \cup ToSet(wire)
  /\ sending' = [s \in Senders |-> FALSE]
  /\ chanToPublish' = <<>> /\ publishing' = <<>> /\ connected' = FALSE
  /\ rabbitmqConn' = "nil" /\ rabbitmqChan' = "nil"
  /\ wire' = <<>>
  /\ UNCHANGED <<calls, received, faults>>

\* publish, its second half: the message is written, or the channel is closed, or
\* there never was one and the nil dereference ends the process.
Publish ==
  /\ publishing # <<>> /\ connected
  /\ \/ /\ rabbitmqChan = "open"
        /\ wire' = wire \o publishing
        /\ publishing' = <<>> /\ connected' = FALSE
        /\ UNCHANGED <<senderVars, chanToPublish, connVars, received, lost, faults>>
     \/ /\ rabbitmqChan = "closed"
        /\ Failed
        /\ UNCHANGED <<senderVars, connVars, brokerVars, faults>>
     \/ rabbitmqChan = "nil" /\ Restarted
  /\ UNCHANGED restarts

-----------------------------------------------------------------------------
(* The broker and the connection to it                                     *)

Arrive ==
  /\ wire # <<>>
  /\ received' = Append(received, Head(wire))
  /\ wire' = Tail(wire)
  /\ UNCHANGED <<senderVars, chanToPublish, publishing, connected, connVars, lost, boundVars>>

\* The connection breaks, or the broker closes the channel because of a message.
Break ==
  /\ rabbitmqConn = "open"
  /\ \/ Fault("connection") /\ rabbitmqConn' = "closed"
     \/ Fault("channel") /\ wire # <<>> /\ UNCHANGED rabbitmqConn
  /\ rabbitmqChan' = IF rabbitmqChan = "nil" THEN "nil" ELSE "closed"
  /\ lost' = lost \cup ToSet(wire)
  /\ wire' = <<>>
  /\ UNCHANGED <<senderVars, chanToPublish, publishing, connected, received, restarts>>

Restart ==
  /\ restarts < MaxRestarts
  /\ restarts' = restarts + 1
  /\ Restarted

Next ==
  \/ \E s \in Senders : Call(s) \/ Send(s)
  \/ Receive \/ Connect \/ Publish
  \/ Arrive \/ Break \/ Restart

Spec == Init /\ [][Next]_vars

\* Waiting senders are served in their order when the channel has room, whence the
\* strong fairness; the loop runs, and the broker reads.
Fairness ==
  /\ \A s \in Senders : SF_vars(Send(s))
  /\ WF_vars(Receive) /\ WF_vars(Connect) /\ WF_vars(Publish) /\ WF_vars(Arrive)

FairSpec == Spec /\ Fairness
=============================================================================
