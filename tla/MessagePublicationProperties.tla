-------------------- MODULE MessagePublicationProperties --------------------
(***************************************************************************)
(* What is checked and proved of MessagePublication.                       *)
(***************************************************************************)
EXTENDS MessagePublication

\* The messages of each sender are in p in the order in which it sent them, and
\* those in p come before those in q.
InOrder(p) ==
  \A i, j \in DOMAIN p : i < j /\ p[i].from = p[j].from => p[i].seq < p[j].seq

Precedes(p, q) ==
  \A m \in ToSet(p), n \in ToSet(q) : m.from = n.from => m.seq < n.seq

\* A message whose sender has left it to the channel, or was refused.
Sent(m) ==
  /\ m.seq <= calls[m.from]
  /\ sending[m.from] => m.seq < calls[m.from]

\* The messages that may still be received.
InFlight == Pending \cup ToSet(chanToPublish) \cup ToSet(publishing) \cup ToSet(wire)

\* The broker receives the messages of a sender at most once and in the order of the
\* calls, whatever is lost between them by full channels, failed publications,
\* broken connections and restarts (rmq.go:182-193, 260-265).
ReceivedInOrder == InOrder(received)

\* Every message a sender has asked for is on its way, received, or was reported:
\* refused to its sender, or logged as failed or dropped with the connection or the
\* process.  In particular one that passed the comparison of the length is never
\* dropped, also when other senders fill the channel first (rmq.go:183-186).
NothingVanishes ==
  \A s \in Senders : \A k \in 1..calls[s] :
    [from |-> s, seq |-> k] \in InFlight \cup ToSet(received) \cup lost

\* A message that was refused, failed or dropped is not received after all.
LostIsLost == lost \cap (InFlight \cup ToSet(received)) = {}

\* The channel never has all senders wait: at a full channel one of them has returned
\* since it was filled, and the comparison of the length refuses its next message.
\* A sole sender, hence, never waits (rmq.go:183).
SomeSenderFree ==
  Len(chanToPublish) = ChannelCap => \E s \in Senders : ~ sending[s]

\* ReceivedInOrder and LostIsLost as an inductive invariant: the stages a message
\* goes through hold the messages of a sender in their order, and a sender's newest
\* message comes after them.
PublicationInvariant ==
  /\ InOrder(received) /\ InOrder(wire) /\ InOrder(chanToPublish)
  /\ Precedes(received, wire) /\ Precedes(received, publishing)
  /\ Precedes(received, chanToPublish)
  /\ Precedes(wire, publishing) /\ Precedes(wire, chanToPublish)
  /\ Precedes(publishing, chanToPublish)
  /\ \A m \in ToSet(received) \cup ToSet(wire) \cup ToSet(publishing)
                \cup ToSet(chanToPublish) \cup lost : Sent(m)
  /\ LostIsLost

-----------------------------------------------------------------------------
(* Liveness                                                                *)

\* A sender returns: the loop goes on after an error, so that a full channel never
\* stops the main goroutine of the scheduler, which is one of the senders, for ever.
SendReturns == \A s \in Senders : sending[s] ~> ~ sending[s]

\* Nothing goes wrong any more.
Quiet == faults = MaxFaults /\ restarts = MaxRestarts

\* publish does not connect again, or has just decided not to, although there is no
\* channel to publish through: the broker has closed it, or the connection was made
\* without one (rmq.go:87, 146).
Unusable == rabbitmqChan # "open" /\ (rabbitmqConn = "open" \/ connected)

\* Once something has gone wrong for the last time, and unless it has left an
\* unusable channel, "the background routine will push messages asynchronously"
\* (rmq.go:181): what is in the channel is received.
CachedIsPublished ==
  \A m \in Message :
    (m \in ToSet(chanToPublish) /\ Quiet /\ ~ Unusable) ~> m \in ToSet(received)
=============================================================================
