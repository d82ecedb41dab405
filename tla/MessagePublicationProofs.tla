---------------------- MODULE MessagePublicationProofs ----------------------
(***************************************************************************)
(* The safety properties of MessagePublication, proved for any number of   *)
(* senders, any capacity of the channel, all faults and all bounds.        *)
(***************************************************************************)
EXTENDS MessagePublicationProperties, SequenceTheorems, TLAPS

-----------------------------------------------------------------------------
(* Sequences of messages                                                   *)

LEMMA ToSetFacts ==
  ASSUME NEW S, NEW q \in Seq(S)
  PROVE  /\ ToSet(q) = {q[i] : i \in 1..Len(q)} /\ ToSet(q) \subseteq S
         /\ Len(q) \in Nat /\ DOMAIN q = 1..Len(q)
BY LenProperties, ElementOfSeq DEF ToSet

LEMMA ToSetEmpty == ToSet(<<>>) = {}
BY EmptySeq DEF ToSet

LEMMA ToSetOne == ASSUME NEW S, NEW m \in S PROVE <<m>> \in Seq(S) /\ ToSet(<<m>>) = {m}
BY DEF ToSet

LEMMA ToSetAppend ==
  ASSUME NEW S, NEW q \in Seq(S), NEW m \in S
  PROVE  ToSet(Append(q, m)) = ToSet(q) \cup {m}
<1>1. /\ Append(q, m) \in Seq(S) /\ Len(Append(q, m)) = Len(q) + 1
      /\ \A i \in 1..Len(q) : Append(q, m)[i] = q[i]
      /\ Append(q, m)[Len(q) + 1] = m
  BY AppendProperties
<1>2. 1..(Len(q) + 1) = 1..Len(q) \cup {Len(q) + 1}
  BY ToSetFacts
<1>3. /\ ToSet(Append(q, m)) = {Append(q, m)[i] : i \in 1..(Len(q) + 1)}
      /\ ToSet(q) = {q[i] : i \in 1..Len(q)}
  BY <1>1, ToSetFacts
<1> DEFINE t == Append(q, m)
<1>4. \A x : x \in ToSet(t) <=> \E i \in 1..Len(q) \cup {Len(q) + 1} : x = t[i]
  BY <1>2, <1>3
<1> HIDE DEF t
<1>5. \A x : x \in ToSet(t) <=> x = m \/ \E i \in 1..Len(q) : x = q[i]
  BY <1>1, <1>4 DEF t
<1>6. \A x : x \in ToSet(q) <=> \E i \in 1..Len(q) : x = q[i]
  BY <1>3
<1> QED  BY <1>5, <1>6 DEF t

LEMMA ToSetHeadTail ==
  ASSUME NEW S, NEW q \in Seq(S), q # <<>>
  PROVE  /\ Head(q) \in S /\ Tail(q) \in Seq(S)
         /\ ToSet(q) = {Head(q)} \cup ToSet(Tail(q))
<1>1. /\ Head(q) = q[1] /\ Head(q) \in S
      /\ Tail(q) \in Seq(S) /\ Len(Tail(q)) = Len(q) - 1
      /\ \A i \in 1..(Len(q) - 1) : Tail(q)[i] = q[i + 1]
      /\ Len(q) \in Nat /\ Len(q) >= 1
  BY HeadTailProperties, EmptySeq, LenProperties
<1>2. ToSet(Tail(q)) = {q[i] : i \in 2..Len(q)}
  <2>1. ToSet(Tail(q)) = {Tail(q)[i] : i \in 1..(Len(q) - 1)}
    BY <1>1, ToSetFacts
  <2>2. \A i \in 2..Len(q) : i - 1 \in 1..(Len(q) - 1) /\ Tail(q)[i - 1] = q[i]
    BY <1>1
  <2>3. \A i \in 1..(Len(q) - 1) : i + 1 \in 2..Len(q)
    BY <1>1
  <2>4. ASSUME NEW x, x \in ToSet(Tail(q)) PROVE \E i \in 2..Len(q) : x = q[i]
    <3>1. PICK i \in 1..(Len(q) - 1) : x = Tail(q)[i]
      BY <2>1, <2>4
    <3> QED  BY <1>1, <2>3, <3>1
  <2>5. ASSUME NEW i \in 2..Len(q) PROVE q[i] \in ToSet(Tail(q))
    BY <2>1, <2>2
  <2> QED  BY <2>4, <2>5
<1>3. 1..Len(q) = {1} \cup 2..Len(q)
  BY <1>1
<1> QED  BY <1>1, <1>2, <1>3, ToSetFacts

LEMMA OrderEmpty == InOrder(<<>>)
BY EmptySeq DEF InOrder

LEMMA OrderAppend ==
  ASSUME NEW q \in Seq(Message), NEW m \in Message, InOrder(q),
         \A k \in ToSet(q) : k.from = m.from => k.seq < m.seq
  PROVE  InOrder(Append(q, m))
<1> DEFINE t == Append(q, m)
<1>1. /\ Len(q) \in Nat /\ DOMAIN q = 1..Len(q) /\ DOMAIN t = 1..(Len(q) + 1)
      /\ \A i \in 1..Len(q) : t[i] = q[i] /\ t[i] \in ToSet(q)
      /\ t[Len(q) + 1] = m
  BY AppendProperties, ToSetFacts
<1> SUFFICES ASSUME NEW i \in DOMAIN t, NEW j \in DOMAIN t, i < j, t[i].from = t[j].from
             PROVE  t[i].seq < t[j].seq
  BY DEF InOrder
<1> HIDE DEF t
<1>2. CASE j \in 1..Len(q)
  BY <1>1, <1>2 DEF InOrder
<1>3. CASE j = Len(q) + 1
  <2>1. i \in 1..Len(q)
    BY <1>1, <1>3
  <2> QED  BY <1>1, <1>3, <2>1
<1> QED  BY <1>1, <1>2, <1>3

LEMMA OrderTail ==
  ASSUME NEW q \in Seq(Message), q # <<>>, InOrder(q)
  PROVE  /\ InOrder(Tail(q))
         /\ \A k \in ToSet(Tail(q)) : k.from = Head(q).from => Head(q).seq < k.seq
<1>1. /\ Head(q) = q[1] /\ Tail(q) \in Seq(Message)
      /\ Len(q) \in Nat /\ Len(q) >= 1
      /\ DOMAIN q = 1..Len(q) /\ DOMAIN Tail(q) = 1..(Len(q) - 1)
      /\ \A i \in 1..(Len(q) - 1) : Tail(q)[i] = q[i + 1]
  BY HeadTailProperties, EmptySeq, LenProperties
<1>2. InOrder(Tail(q))
  BY <1>1 DEF InOrder
<1>3. \A i \in 1..(Len(q) - 1) : q[1].from = q[i + 1].from => q[1].seq < q[i + 1].seq
  BY <1>1 DEF InOrder
<1>4. \A k \in ToSet(Tail(q)) : \E i \in 1..(Len(q) - 1) : k = q[i + 1]
  BY <1>1 DEF ToSet
<1> QED  BY <1>1, <1>2, <1>3, <1>4

\* What is in the hands of the loop is nothing or one message.
LEMMA PublishingFacts ==
  ASSUME TypeOK
  PROVE  /\ publishing \in Seq(Message)
         /\ publishing # <<>> => \E m \in Message : publishing = <<m>>
<1>1. <<>> \in Seq(Message) /\ \A m \in Message : <<m>> \in Seq(Message)
  BY EmptySeq, ToSetOne
<1>2. publishing \in {<<>>} \cup {<<m>> : m \in Message}
  BY DEF TypeOK
<1> QED  BY <1>1, <1>2

-----------------------------------------------------------------------------
(* Type correctness                                                        *)

\* What is written for a message at hand.
LEMMA WireAppend ==
  ASSUME TypeOK, NEW m \in Message, publishing = <<m>>
  PROVE  /\ wire \o publishing = Append(wire, m)
         /\ wire \o publishing \in Seq(Message)
<1>1. wire \in Seq(Message)
  BY DEF TypeOK
<1>2. Append(wire, m) = wire \o <<m>> /\ Append(wire, m) \in Seq(Message)
  BY <1>1, AppendIsConcat, AppendProperties
<1> QED  BY <1>2

LEMMA StageTypes ==
  ASSUME TypeOK
  PROVE  /\ ToSet(chanToPublish) \subseteq Message /\ ToSet(publishing) \subseteq Message
         /\ ToSet(wire) \subseteq Message /\ ToSet(received) \subseteq Message
<1>1. /\ chanToPublish \in Seq(Message) /\ publishing \in Seq(Message)
      /\ wire \in Seq(Message) /\ received \in Seq(Message)
  BY PublishingFacts DEF TypeOK
<1> QED  BY <1>1, ToSetFacts

\* A newest message of a sender at the channel keeps its number.
LEMMA PendingShrinks ==
  ASSUME TypeOK, UNCHANGED calls, sending' \in [Senders -> BOOLEAN],
         \A s \in Senders : sending'[s] => sending[s]
  PROVE  Pending' \subseteq Pending
BY DEF Pending, Newest

LEMMA TypeInit == Init => TypeOK
<1> SUFFICES ASSUME Init PROVE TypeOK
  OBVIOUS
<1>1. <<>> \in Seq(Message) /\ Len(<<>>) = 0
  BY EmptySeq
<1>2. Pending = {}
  BY DEF Init, Pending
<1>3. /\ calls \in [Senders -> 0..MaxCalls] /\ sending \in [Senders -> BOOLEAN]
      /\ faults \in 0..MaxFaults /\ restarts \in 0..MaxRestarts
  BY PublicationAssumption DEF Init
<1>4. /\ chanToPublish \in Seq(Message) /\ Len(chanToPublish) <= ChannelCap
      /\ wire \in Seq(Message) /\ received \in Seq(Message)
  BY <1>1, PublicationAssumption DEF Init
<1> QED  BY <1>2, <1>3, <1>4 DEF Init, TypeOK, ConnState

LEMMA TypeCall ==
  ASSUME TypeOK, NEW s \in Senders, Call(s)
  PROVE  TypeOK'
<1>1. /\ calls[s] \in 0..MaxCalls /\ calls[s] < MaxCalls
      /\ calls' = [calls EXCEPT ![s] = calls[s] + 1]
      /\ calls \in [Senders -> 0..MaxCalls] /\ sending \in [Senders -> BOOLEAN]
      /\ MaxCalls \in Nat
  BY PublicationAssumption DEF Call, TypeOK
<1>2. /\ calls' \in [Senders -> 0..MaxCalls]
      /\ calls'[s] = calls[s] + 1 /\ calls'[s] \in 1..MaxCalls
      /\ \A t \in Senders \ {s} : calls'[t] = calls[t]
  BY <1>1
<1>3. Newest(s)' \in Message
  BY <1>2 DEF Newest, Message
<1>4. sending' = sending \/ sending' = [sending EXCEPT ![s] = TRUE]
  BY DEF Call
<1>5. sending' \in [Senders -> BOOLEAN] /\ \A t \in Senders \ {s} : sending'[t] = sending[t]
  BY <1>1, <1>4
<1>6. \A t \in Senders \ {s} : Newest(t)' = Newest(t)
  BY <1>2 DEF Newest
<1>7. Pending' \subseteq Pending \cup {Newest(s)'}
  BY <1>5, <1>6 DEF Pending
<1>8. lost' \subseteq lost \cup {Newest(s)'}
  BY DEF Call
<1>9. Pending' \subseteq Message /\ lost' \subseteq Message
  BY <1>3, <1>7, <1>8 DEF TypeOK
<1>10. UNCHANGED <<chanToPublish, publishing, connected, connVars, brokerVars, boundVars>>
  BY DEF Call
<1> QED
  BY <1>2, <1>5, <1>9, <1>10 DEF TypeOK, connVars, brokerVars, boundVars

LEMMA TypeSend ==
  ASSUME TypeOK, NEW s \in Senders, Send(s)
  PROVE  TypeOK' /\ Newest(s) \in Message /\ Pending' \subseteq Pending
<1>1. Newest(s) \in Pending /\ Newest(s) \in Message
  BY DEF Send, Pending, TypeOK
<1>2. /\ sending' \in [Senders -> BOOLEAN]
      /\ \A t \in Senders : sending'[t] => sending[t]
      /\ UNCHANGED calls
  BY DEF Send, TypeOK
<1>3. Pending' \subseteq Pending
  BY <1>2, PendingShrinks
<1>4. /\ chanToPublish' \in Seq(Message)
      /\ Len(chanToPublish') <= ChannelCap
  <2>1. /\ chanToPublish \in Seq(Message) /\ Len(chanToPublish) < ChannelCap
        /\ chanToPublish' = Append(chanToPublish, Newest(s))
    BY DEF Send, TypeOK
  <2>2. /\ chanToPublish' \in Seq(Message)
        /\ Len(chanToPublish') = Len(chanToPublish) + 1
        /\ Len(chanToPublish) \in Nat
    BY <1>1, <2>1, AppendProperties, LenProperties
  <2> QED  BY <2>1, <2>2, PublicationAssumption
<1> QED
  BY <1>1, <1>2, <1>3, <1>4 DEF TypeOK, Send, connVars, brokerVars, boundVars

LEMMA TypeReceive ==
  ASSUME TypeOK, Receive
  PROVE  TypeOK' /\ Pending' = Pending
<1>1. /\ chanToPublish \in Seq(Message) /\ chanToPublish # <<>>
      /\ chanToPublish' = Tail(chanToPublish) /\ publishing' = <<Head(chanToPublish)>>
  BY DEF Receive, TypeOK
<1>2. /\ Head(chanToPublish) \in Message /\ chanToPublish' \in Seq(Message)
      /\ Len(chanToPublish') = Len(chanToPublish) - 1
      /\ Len(chanToPublish) \in Nat /\ Len(chanToPublish) <= ChannelCap
  BY <1>1, HeadTailProperties, LenProperties DEF TypeOK
<1>3. Pending' = Pending
  BY DEF Receive, senderVars, Pending, Newest
<1>4. publishing' \in {<<>>} \cup {<<m>> : m \in Message}
  BY <1>1, <1>2
<1>5. Len(chanToPublish') <= ChannelCap
  BY <1>2, PublicationAssumption
<1>6. UNCHANGED <<senderVars, connected, connVars, brokerVars, lost, boundVars>>
  BY DEF Receive
<1> QED
  BY <1>2, <1>3, <1>4, <1>5, <1>6 DEF TypeOK, senderVars, connVars, brokerVars, boundVars

\* The parts of the steps of the loop.
LEMMA TypeFailed ==
  ASSUME TypeOK, Failed
  PROVE  /\ chanToPublish' = chanToPublish /\ publishing' = <<>> /\ connected' = FALSE
         /\ lost' = lost \cup ToSet(publishing) /\ lost' \subseteq Message
BY StageTypes DEF Failed, TypeOK

LEMMA TypeFault ==
  ASSUME TypeOK, NEW kind, Fault(kind)
  PROVE  faults' \in 0..MaxFaults
BY PublicationAssumption DEF Fault, TypeOK

LEMMA TypeConnect ==
  ASSUME TypeOK, Connect
  PROVE  TypeOK' /\ Pending' = Pending
<1>1. UNCHANGED <<senderVars, brokerVars, restarts>>
  BY DEF Connect
<1>2. Pending' = Pending
  BY <1>1 DEF senderVars, Pending, Newest
<1>3. CASE UNCHANGED <<chanToPublish, publishing, lost, faults>> /\ connected' = TRUE
  BY <1>1, <1>2, <1>3 DEF Connect, TypeOK, ConnState, senderVars, brokerVars, connVars
<1>4. CASE Failed /\ (Fault("dial") \/ Fault("open"))
  <2>1. faults' \in 0..MaxFaults
    BY <1>4, TypeFault
  <2>2. /\ chanToPublish' = chanToPublish /\ publishing' = <<>> /\ connected' = FALSE
        /\ lost' \subseteq Message
    BY <1>4, TypeFailed
  <2>3. rabbitmqConn' \in ConnState /\ rabbitmqChan' \in ConnState
    BY <1>4 DEF Connect, TypeOK, ConnState, connVars
  <2> QED  BY <1>1, <1>2, <2>1, <2>2, <2>3 DEF TypeOK, senderVars, brokerVars
<1> QED  BY <1>3, <1>4 DEF Connect

LEMMA TypeRestarted ==
  ASSUME TypeOK, Restarted, restarts' \in 0..MaxRestarts
  PROVE  TypeOK' /\ Pending' = {}
<1>1. <<>> \in Seq(Message) /\ Len(<<>>) = 0
  BY EmptySeq
<1>2. Pending' = {}
  BY DEF Restarted, Pending
<1>3. lost' \subseteq Message
  BY StageTypes DEF Restarted, TypeOK
<1>4. /\ chanToPublish' \in Seq(Message) /\ Len(chanToPublish') <= ChannelCap
      /\ wire' \in Seq(Message)
  BY <1>1, PublicationAssumption DEF Restarted
<1>5. sending' \in [Senders -> BOOLEAN] /\ UNCHANGED <<calls, received, faults>>
  BY DEF Restarted
<1>6. publishing' = <<>> /\ connected' = FALSE /\ rabbitmqConn' = "nil" /\ rabbitmqChan' = "nil"
  BY DEF Restarted
<1> QED  BY <1>2, <1>3, <1>4, <1>5, <1>6 DEF TypeOK, ConnState

LEMMA TypePublish ==
  ASSUME TypeOK, Publish
  PROVE  TypeOK'
<1>1. PICK m \in Message : publishing = <<m>>
  BY PublishingFacts DEF Publish
<1>2. UNCHANGED restarts
  BY DEF Publish
<1>3. CASE /\ wire' = wire \o publishing /\ publishing' = <<>> /\ connected' = FALSE
           /\ UNCHANGED <<senderVars, chanToPublish, connVars, received, lost, faults>>
  <2>1. wire' \in Seq(Message)
    BY <1>1, <1>3, WireAppend
  <2>2. Pending' = Pending
    BY <1>3 DEF senderVars, Pending, Newest
  <2> QED  BY <1>2, <1>3, <2>1, <2>2 DEF TypeOK, senderVars, connVars
<1>4. CASE Failed /\ UNCHANGED <<senderVars, connVars, brokerVars, faults>>
  <2>1. Pending' = Pending
    BY <1>4 DEF senderVars, Pending, Newest
  <2>2. /\ chanToPublish' = chanToPublish /\ publishing' = <<>> /\ connected' = FALSE
        /\ lost' \subseteq Message
    BY <1>4, TypeFailed
  <2> QED  BY <1>2, <1>4, <2>1, <2>2 DEF TypeOK, senderVars, connVars, brokerVars
<1>5. CASE Restarted
  BY <1>2, <1>5, TypeRestarted DEF TypeOK
<1> QED  BY <1>3, <1>4, <1>5 DEF Publish

LEMMA TypeArrive ==
  ASSUME TypeOK, Arrive
  PROVE  TypeOK' /\ Pending' = Pending
<1>1. wire \in Seq(Message) /\ received \in Seq(Message) /\ wire # <<>>
  BY DEF Arrive, TypeOK
<1>2. /\ Head(wire) \in Message
      /\ Tail(wire) \in Seq(Message)
  BY <1>1, HeadTailProperties
<1>3. Append(received, Head(wire)) \in Seq(Message)
  BY <1>1, <1>2, AppendProperties
<1>4. /\ wire' \in Seq(Message) /\ received' \in Seq(Message)
      /\ UNCHANGED <<senderVars, chanToPublish, publishing, connected, connVars, lost,
                     boundVars>>
  BY <1>2, <1>3 DEF Arrive
<1>5. Pending' = Pending
  BY <1>4 DEF senderVars, Pending, Newest
<1> QED  BY <1>4, <1>5 DEF TypeOK, senderVars, connVars, boundVars

LEMMA TypeBreak ==
  ASSUME TypeOK, Break
  PROVE  TypeOK' /\ Pending' = Pending
<1>1. /\ lost' = lost \cup ToSet(wire) /\ wire' = <<>>
      /\ UNCHANGED <<senderVars, chanToPublish, publishing, connected, received, restarts>>
  BY DEF Break
<1>2. faults' \in 0..MaxFaults
  BY TypeFault DEF Break
<1>3. rabbitmqConn' \in ConnState /\ rabbitmqChan' \in ConnState
  BY DEF Break, TypeOK, ConnState
<1>4. <<>> \in Seq(Message) /\ lost' \subseteq Message
  BY <1>1, EmptySeq, StageTypes DEF TypeOK
<1>5. Pending' = Pending
  BY <1>1 DEF senderVars, Pending, Newest
<1> QED  BY <1>1, <1>2, <1>3, <1>4, <1>5 DEF TypeOK, senderVars

LEMMA TypeRestart ==
  ASSUME TypeOK, Restart
  PROVE  TypeOK'
<1>1. Restarted /\ restarts' \in 0..MaxRestarts
  BY PublicationAssumption DEF Restart, TypeOK
<1> QED  BY <1>1, TypeRestarted

LEMMA TypeNext ==
  ASSUME TypeOK, [Next]_vars
  PROVE  TypeOK'
<1>1. ASSUME NEW s \in Senders, Call(s) PROVE TypeOK'
  BY <1>1, TypeCall
<1>2. ASSUME NEW s \in Senders, Send(s) PROVE TypeOK'
  BY <1>2, TypeSend
<1>3. CASE UNCHANGED vars
  BY <1>3 DEF TypeOK, Pending, Newest, vars, senderVars, connVars, brokerVars, boundVars
<1> QED
  BY <1>1, <1>2, <1>3, TypeReceive, TypeConnect, TypePublish, TypeArrive, TypeBreak,
     TypeRestart DEF Next

\* Every variable stays in its type: in particular the channel never holds more than
\* its capacity, and what is sent, published and received are messages.
THEOREM TypeCorrect == Spec => []TypeOK
<1>1. Init => TypeOK
  BY TypeInit
<1>2. TypeOK /\ [Next]_vars => TypeOK'
  BY TypeNext
<1> QED  BY <1>1, <1>2, PTL DEF Spec


-----------------------------------------------------------------------------
(* What each step does to the stages of a message                          *)

\* Where a message may be.
Accounted == InFlight \cup ToSet(received) \cup lost

LEMMA StagesSend ==
  ASSUME TypeOK, NEW s \in Senders, Send(s)
  PROVE  /\ ToSet(chanToPublish') = ToSet(chanToPublish) \cup {Newest(s)}
         /\ Pending \subseteq Pending' \cup {Newest(s)}
<1>1. /\ chanToPublish \in Seq(Message) /\ Newest(s) \in Message
      /\ chanToPublish' = Append(chanToPublish, Newest(s))
  BY TypeSend DEF Send, TypeOK
<1>2. /\ UNCHANGED calls
      /\ \A t \in Senders \ {s} : sending'[t] = sending[t]
  BY DEF Send, TypeOK
<1>3. \A t \in Senders : Newest(t)' = Newest(t)
  BY <1>2 DEF Newest
<1> QED  BY <1>1, <1>2, <1>3, ToSetAppend DEF Pending

LEMMA StagesReceive ==
  ASSUME TypeOK, Receive
  PROVE  /\ publishing = <<>> /\ ToSet(publishing) = {}
         /\ ToSet(publishing') = {Head(chanToPublish)}
         /\ ToSet(chanToPublish) = {Head(chanToPublish)} \cup ToSet(chanToPublish')
<1>1. /\ chanToPublish \in Seq(Message) /\ chanToPublish # <<>>
      /\ chanToPublish' = Tail(chanToPublish) /\ publishing' = <<Head(chanToPublish)>>
  BY DEF Receive, TypeOK
<1>2. /\ Head(chanToPublish) \in Message
      /\ ToSet(chanToPublish) = {Head(chanToPublish)} \cup ToSet(Tail(chanToPublish))
  BY <1>1, ToSetHeadTail
<1>3. ToSet(<<Head(chanToPublish)>>) = {Head(chanToPublish)}
  BY <1>2, ToSetOne
<1> QED  BY <1>1, <1>2, <1>3, ToSetEmpty DEF Receive

LEMMA StagesWritten ==
  ASSUME TypeOK, publishing # <<>>, wire' = wire \o publishing, publishing' = <<>>
  PROVE  ToSet(wire') = ToSet(wire) \cup ToSet(publishing) /\ ToSet(publishing') = {}
<1>1. PICK m \in Message : publishing = <<m>>
  BY PublishingFacts
<1>2. wire' = Append(wire, m) /\ wire \in Seq(Message)
  BY <1>1, WireAppend DEF TypeOK
<1>3. ToSet(<<m>>) = {m} /\ ToSet(Append(wire, m)) = ToSet(wire) \cup {m}
  BY <1>2, ToSetOne, ToSetAppend
<1> QED  BY <1>1, <1>2, <1>3, ToSetEmpty

LEMMA StagesArrive ==
  ASSUME TypeOK, Arrive
  PROVE  /\ ToSet(wire) = {Head(wire)} \cup ToSet(wire')
         /\ ToSet(received') = ToSet(received) \cup {Head(wire)}
<1>1. wire \in Seq(Message) /\ received \in Seq(Message) /\ wire # <<>>
  BY DEF Arrive, TypeOK
<1>2. Head(wire) \in Message /\ ToSet(wire) = {Head(wire)} \cup ToSet(Tail(wire))
  BY <1>1, ToSetHeadTail
<1>3. ToSet(Append(received, Head(wire))) = ToSet(received) \cup {Head(wire)}
  BY <1>1, <1>2, ToSetAppend
<1> QED  BY <1>2, <1>3 DEF Arrive

-----------------------------------------------------------------------------
(* No message vanishes                                                     *)

VanishesNot == \A s \in Senders : \A k \in 1..calls[s] : [from |-> s, seq |-> k] \in Accounted

\* A step that takes no message out of all stages.
LEMMA AccountedKept ==
  ASSUME VanishesNot, UNCHANGED calls, Accounted \subseteq Accounted'
  PROVE  VanishesNot'
BY DEF VanishesNot

LEMMA AccountedCall ==
  ASSUME TypeOK, NEW s \in Senders, Call(s), VanishesNot
  PROVE  VanishesNot'
<1>1. /\ ~ sending[s] /\ calls[s] \in Nat
      /\ calls'[s] = calls[s] + 1
      /\ \A t \in Senders \ {s} : calls'[t] = calls[t]
  BY PublicationAssumption DEF Call, TypeOK
<1>2. /\ UNCHANGED <<chanToPublish, publishing, wire, received>>
      /\ lost \subseteq lost'
      /\ \A t \in Senders \ {s} : sending'[t] = sending[t]
  BY DEF Call, brokerVars, TypeOK
<1>3. \A t \in Senders \ {s} : Newest(t)' = Newest(t)
  BY <1>1 DEF Newest
<1>4. Pending \subseteq Pending'
  BY <1>1, <1>2, <1>3 DEF Pending
<1>5. Accounted \subseteq Accounted'
  BY <1>2, <1>4 DEF Accounted, InFlight
<1>6. Newest(s)' \in Accounted'
  <2>1. CASE Full
    BY <2>1 DEF Call, Accounted
  <2>2. CASE ~ Full
    <3>1. sending'[s]
      BY <2>2 DEF Call, TypeOK
    <3> QED  BY <3>1 DEF Pending, Accounted, InFlight
  <2> QED  BY <2>1, <2>2
<1> SUFFICES ASSUME NEW t \in Senders, NEW k \in 1..calls'[t]
             PROVE  [from |-> t, seq |-> k] \in Accounted'
  BY DEF VanishesNot
<1>7. CASE t = s /\ k = calls'[s]
  BY <1>6, <1>7 DEF Newest
<1>8. CASE k \in 1..calls[t]
  BY <1>5, <1>8 DEF VanishesNot
<1> QED  BY <1>1, <1>7, <1>8

LEMMA AccountedStep ==
  ASSUME TypeOK, [Next]_vars, VanishesNot
  PROVE  VanishesNot'
<1>1. ASSUME NEW s \in Senders, Call(s) PROVE VanishesNot'
  BY <1>1, AccountedCall
<1>2. ASSUME NEW s \in Senders, Send(s) PROVE VanishesNot'
  <2>1. UNCHANGED <<calls, publishing, wire, received, lost>>
    BY <1>2 DEF Send, brokerVars
  <2> QED  BY <1>2, <2>1, StagesSend, AccountedKept DEF Accounted, InFlight
<1>3. CASE Receive
  <2>1. UNCHANGED <<calls, wire, received, lost>> /\ Pending' = Pending
    BY <1>3, TypeReceive DEF Receive, brokerVars, senderVars
  <2> QED  BY <1>3, <2>1, StagesReceive, AccountedKept DEF Accounted, InFlight
<1>4. CASE Connect
  <2>1. UNCHANGED <<calls, wire, received>> /\ Pending' = Pending
    BY <1>4, TypeConnect DEF Connect, brokerVars, senderVars
  <2>2. chanToPublish' = chanToPublish
    BY <1>4, TypeFailed DEF Connect
  <2>3. /\ lost \subseteq lost'
        /\ publishing' = publishing \/ ToSet(publishing) \subseteq lost'
    BY <1>4, TypeFailed DEF Connect
  <2>4. Accounted \subseteq Accounted'
    <3>1. CASE publishing' = publishing
      BY <2>1, <2>2, <2>3, <3>1 DEF Accounted, InFlight
    <3>2. CASE ToSet(publishing) \subseteq lost'
      BY <2>1, <2>2, <2>3, <3>2 DEF Accounted, InFlight
    <3> QED  BY <2>3, <3>1, <3>2
  <2> QED  BY <2>1, <2>4, AccountedKept
<1>5. ASSUME Restarted PROVE VanishesNot'
  <2>1. UNCHANGED <<calls, received>>
        /\ lost' = lost \cup Pending \cup ToSet(chanToPublish) \cup ToSet(publishing)
                       \cup ToSet(wire)
    BY <1>5 DEF Restarted
  <2>2. Accounted \subseteq Accounted'
    BY <2>1 DEF Accounted, InFlight
  <2> QED  BY <2>1, <2>2, AccountedKept
<1>6. CASE Publish
  <2>1. CASE /\ wire' = wire \o publishing /\ publishing' = <<>>
             /\ UNCHANGED <<senderVars, chanToPublish, received, lost>>
    <3>1. ToSet(wire') = ToSet(wire) \cup ToSet(publishing)
      BY <1>6, <2>1, StagesWritten DEF Publish
    <3>2. Pending' = Pending /\ UNCHANGED calls
      BY <2>1 DEF senderVars, Pending, Newest
    <3>3. Accounted \subseteq Accounted'
      BY <2>1, <3>1, <3>2 DEF Accounted, InFlight
    <3> QED  BY <3>2, <3>3, AccountedKept
  <2>2. CASE Failed /\ UNCHANGED <<senderVars, brokerVars>>
    <3>1. Pending' = Pending /\ UNCHANGED <<calls, wire, received>>
      BY <2>2 DEF senderVars, brokerVars, Pending, Newest
    <3>2. UNCHANGED chanToPublish /\ lost' = lost \cup ToSet(publishing)
      BY <2>2, TypeFailed
    <3>3. Accounted \subseteq Accounted'
      BY <3>1, <3>2 DEF Accounted, InFlight
    <3> QED  BY <3>1, <3>3, AccountedKept
  <2> QED  BY <1>5, <1>6, <2>1, <2>2 DEF Publish, connVars
<1>7. CASE Arrive
  <2>1. UNCHANGED <<calls, chanToPublish, publishing, lost>> /\ Pending' = Pending
    BY <1>7, TypeArrive DEF Arrive, senderVars
  <2> QED  BY <1>7, <2>1, StagesArrive, AccountedKept DEF Accounted, InFlight
<1>8. CASE Break
  <2>1. /\ UNCHANGED <<calls, chanToPublish, publishing, received>> /\ Pending' = Pending
        /\ lost' = lost \cup ToSet(wire)
    BY <1>8, TypeBreak DEF Break, senderVars
  <2>2. Accounted \subseteq Accounted'
    BY <2>1 DEF Accounted, InFlight
  <2> QED  BY <2>1, <2>2, AccountedKept
<1>9. CASE UNCHANGED vars
  BY <1>9 DEF VanishesNot, Accounted, InFlight, Pending, Newest, vars, senderVars, brokerVars
<1> QED
  BY <1>1, <1>2, <1>3, <1>4, <1>5, <1>6, <1>7, <1>8, <1>9 DEF Next, Restart

\* Whatever is refused, fails, breaks or restarts, every message a sender has asked
\* for is on its way, received, or reported as refused, failed or dropped: no
\* interleaving of senders at a nearly full channel overwrites or skips a message.
THEOREM NothingVanishesHolds == Spec => []NothingVanishes
<1>1. VanishesNot <=> NothingVanishes
  BY DEF VanishesNot, NothingVanishes, Accounted
<1>2. Init => VanishesNot
  BY DEF Init, VanishesNot
<1>3. TypeOK /\ VanishesNot /\ [Next]_vars => VanishesNot'
  BY AccountedStep
<1> QED  BY <1>1, <1>2, <1>3, TypeCorrect, PTL DEF Spec

-----------------------------------------------------------------------------
(* One sender is free                                                      *)

LEMMA FreeStep ==
  ASSUME TypeOK, [Next]_vars, SomeSenderFree
  PROVE  SomeSenderFree'
<1>1. ASSUME NEW s \in Senders, Call(s) PROVE SomeSenderFree'
  <2>1. UNCHANGED chanToPublish /\ (Full => UNCHANGED sending)
    BY <1>1 DEF Call
  <2> QED  BY <2>1 DEF SomeSenderFree, Full
<1>2. ASSUME NEW s \in Senders, Send(s) PROVE SomeSenderFree'
  BY <1>2 DEF Send, SomeSenderFree, TypeOK
<1>3. CASE Receive
  <2>1. chanToPublish \in Seq(Message) /\ chanToPublish # <<>>
        /\ chanToPublish' = Tail(chanToPublish)
    BY <1>3 DEF Receive, TypeOK
  <2>2. Len(chanToPublish') = Len(chanToPublish) - 1 /\ Len(chanToPublish) \in Nat
    BY <2>1, HeadTailProperties, LenProperties
  <2> QED  BY <2>2, PublicationAssumption DEF SomeSenderFree, Full, TypeOK
<1>4. ASSUME Restarted PROVE SomeSenderFree'
  <2>1. Len(chanToPublish') = 0
    BY <1>4, EmptySeq DEF Restarted
  <2> QED  BY <2>1, PublicationAssumption DEF SomeSenderFree, Full
<1>5. ASSUME UNCHANGED <<chanToPublish, senderVars>> PROVE SomeSenderFree'
  BY <1>5 DEF SomeSenderFree, Full, senderVars
<1>6. CASE Connect
  BY <1>5, <1>6 DEF Connect, Failed
<1>7. CASE Publish
  BY <1>4, <1>5, <1>7 DEF Publish, Failed
<1>8. CASE Arrive \/ Break \/ UNCHANGED vars
  BY <1>5, <1>8 DEF Arrive, Break, vars
<1> QED
  BY <1>1, <1>2, <1>3, <1>4, <1>6, <1>7, <1>8 DEF Next, Restart

\* A full channel never has all senders wait, whatever their number and the state of
\* the broker: a sole sender never waits.
THEOREM SomeSenderFreeHolds == Spec => []SomeSenderFree
<1>1. Init => SomeSenderFree
  <2>1. Len(<<>>) = 0
    BY EmptySeq
  <2> QED  BY <2>1, PublicationAssumption DEF Init, SomeSenderFree, Full
<1>2. TypeOK /\ SomeSenderFree /\ [Next]_vars => SomeSenderFree'
  BY FreeStep
<1> QED  BY <1>1, <1>2, TypeCorrect, PTL DEF Spec


-----------------------------------------------------------------------------
(* The order of the messages                                               *)

\* Precedes sees sequences as sets; a message does not precede itself.
Before(S, T) == \A m \in S, n \in T : m.from = n.from => m.seq < n.seq

\* PublicationInvariant for the messages received, written, in the hands of the loop
\* and in the channel.
Staged(R, W, P, C) ==
  /\ Before(R, W) /\ Before(R, P) /\ Before(R, C)
  /\ Before(W, P) /\ Before(W, C)
  /\ Before(P, C)

Stages == Staged(ToSet(received), ToSet(wire), ToSet(publishing), ToSet(chanToPublish))

AllSent ==
  /\ \A m \in ToSet(received) : Sent(m)
  /\ \A m \in ToSet(wire) : Sent(m)
  /\ \A m \in ToSet(publishing) : Sent(m)
  /\ \A m \in ToSet(chanToPublish) : Sent(m)
  /\ \A m \in lost : Sent(m)

Ordered == InOrder(received) /\ InOrder(wire) /\ InOrder(chanToPublish)

LEMMA InvariantParts ==
  PublicationInvariant <=> Ordered /\ Stages /\ AllSent /\ LostIsLost
BY DEF PublicationInvariant, Ordered, Stages, Staged, Before, Precedes, AllSent

LEMMA InvariantPartsNext ==
  Ordered' /\ Stages' /\ AllSent' /\ LostIsLost' => PublicationInvariant'
BY DEF PublicationInvariant, Ordered, Stages, Staged, Before, Precedes, AllSent

LEMMA BeforeDisjoint ==
  ASSUME NEW S, NEW T, S \subseteq Message, Before(S, T)
  PROVE  S \cap T = {}
BY DEF Before, Message

\* The stages have no message in common with each other, nor with those that wait.
LEMMA StagesDisjoint ==
  ASSUME TypeOK, PublicationInvariant
  PROVE  /\ ToSet(received) \cap InFlight = {}
         /\ ToSet(wire) \cap (Pending \cup ToSet(publishing) \cup ToSet(chanToPublish)) = {}
         /\ ToSet(publishing) \cap (Pending \cup ToSet(chanToPublish)) = {}
         /\ ToSet(chanToPublish) \cap Pending = {}
<1>1. Stages /\ AllSent
  BY InvariantParts
<1>2. \A m \in Pending : ~ Sent(m)
  BY DEF Pending, Newest, Sent, TypeOK
<1>3. /\ ToSet(received) \cap ToSet(wire) = {} /\ ToSet(received) \cap ToSet(publishing) = {}
      /\ ToSet(received) \cap ToSet(chanToPublish) = {}
      /\ ToSet(wire) \cap ToSet(publishing) = {} /\ ToSet(wire) \cap ToSet(chanToPublish) = {}
      /\ ToSet(publishing) \cap ToSet(chanToPublish) = {}
  BY <1>1, StageTypes, BeforeDisjoint DEF Stages, Staged
<1>4. /\ ToSet(received) \cap Pending = {} /\ ToSet(wire) \cap Pending = {}
      /\ ToSet(publishing) \cap Pending = {} /\ ToSet(chanToPublish) \cap Pending = {}
  BY <1>1, <1>2 DEF AllSent
<1> QED  BY <1>3, <1>4 DEF InFlight

\* A step that gives up what it takes out of a stage, and takes all of it.
LEMMA GivenUp ==
  ASSUME TypeOK, PublicationInvariant,
         UNCHANGED <<calls, received>>,
         sending' \in [Senders -> BOOLEAN], \A s \in Senders : sending'[s] => sending[s],
         wire' \in {wire, <<>>}, publishing' \in {publishing, <<>>},
         chanToPublish' \in {chanToPublish, <<>>},
         \A m \in lost' : m \in lost \/ (m \in InFlight /\ m \notin InFlight'),
         \A m \in lost' : Sent(m)'
  PROVE  PublicationInvariant'
<1>1. Ordered /\ Stages /\ AllSent /\ LostIsLost
  BY InvariantParts
<1>2. /\ ToSet(received') = ToSet(received) /\ ToSet(wire') \subseteq ToSet(wire)
      /\ ToSet(publishing') \subseteq ToSet(publishing)
      /\ ToSet(chanToPublish') \subseteq ToSet(chanToPublish)
  BY ToSetEmpty
<1>3. Ordered'
  BY <1>1, OrderEmpty DEF Ordered
<1>4. Stages'
  BY <1>1, <1>2 DEF Stages, Staged, Before
<1>5. \A m \in Message : Sent(m) => Sent(m)'
  BY DEF Sent, Message
<1>6. AllSent'
  BY <1>1, <1>2, <1>5, StageTypes DEF AllSent
<1>7. Pending' \subseteq Pending
  BY PendingShrinks
<1>8. InFlight' \subseteq InFlight
  BY <1>2, <1>7 DEF InFlight
<1>9. LostIsLost'
  BY <1>1, <1>2, <1>8, StagesDisjoint DEF LostIsLost
<1> QED  BY <1>3, <1>4, <1>6, <1>9, InvariantPartsNext


\* A message that was sent stays so: its sender's number only grows.
LEMMA SentCall ==
  ASSUME TypeOK, NEW s \in Senders, Call(s), NEW m \in Message, Sent(m)
  PROVE  Sent(m)'
<1>1. /\ calls[s] \in Nat /\ calls'[s] = calls[s] + 1
      /\ \A t \in Senders \ {s} : calls'[t] = calls[t] /\ sending'[t] = sending[t]
  BY PublicationAssumption DEF Call, TypeOK
<1>2. m.from \in Senders /\ m.seq \in Nat
  BY PublicationAssumption DEF Message
<1>3. CASE m.from = s
  BY <1>1, <1>2, <1>3 DEF Sent
<1>4. CASE m.from # s
  BY <1>1, <1>2, <1>4 DEF Sent
<1> QED  BY <1>3, <1>4

LEMMA InvariantCall ==
  ASSUME TypeOK, PublicationInvariant, NEW s \in Senders, Call(s)
  PROVE  PublicationInvariant'
<1>1. Ordered /\ Stages /\ AllSent /\ LostIsLost
  BY InvariantParts
<1>2. UNCHANGED <<chanToPublish, publishing, wire, received>>
  BY DEF Call, brokerVars
<1>3. Ordered' /\ Stages'
  BY <1>1, <1>2 DEF Ordered, Stages
<1>4. /\ ~ sending[s] /\ calls[s] \in Nat /\ calls'[s] = calls[s] + 1
      /\ \A t \in Senders \ {s} : calls'[t] = calls[t] /\ sending'[t] = sending[t]
  BY PublicationAssumption DEF Call, TypeOK
<1>5. PICK n : Newest(s)' = n /\ n.from = s /\ n.seq = calls[s] + 1
  <2>1. Newest(s)' = [from |-> s, seq |-> calls[s] + 1]
    BY <1>4 DEF Newest
  <2> QED  BY <2>1
<1>6. /\ Pending' \subseteq Pending \cup {n}
      /\ \A m \in Pending : m.from # s
  BY <1>4, <1>5 DEF Pending, Newest
<1>7. ~ Sent(n)
  BY <1>4, <1>5 DEF Sent
<1>8. \A m \in Message : Sent(m) => Sent(m)'
  BY SentCall
<1>9. /\ n \notin ToSet(received) \cup ToSet(wire) \cup ToSet(publishing)
                   \cup ToSet(chanToPublish) \cup lost
      /\ n \notin Pending
  BY <1>1, <1>5, <1>6, <1>7 DEF AllSent
<1>10. CASE Full
  <2>1. lost' = lost \cup {n} /\ UNCHANGED sending
    BY <1>5, <1>10 DEF Call
  <2>2. Sent(n)'
    BY <1>4, <1>5, <2>1 DEF Sent
  <2>3. AllSent'
    BY <1>1, <1>2, <1>8, <2>1, <2>2, StageTypes DEF AllSent, TypeOK
  <2>4. Pending' \subseteq Pending
    BY <1>4, <2>1 DEF Pending, Newest
  <2>5. LostIsLost'
    BY <1>1, <1>2, <1>9, <2>1, <2>4 DEF LostIsLost, InFlight
  <2> QED  BY <1>3, <2>3, <2>5, InvariantPartsNext
<1>11. CASE ~ Full
  <2>1. UNCHANGED lost
    BY <1>11 DEF Call
  <2>2. AllSent'
    BY <1>1, <1>2, <1>8, <2>1, StageTypes DEF AllSent, TypeOK
  <2>3. LostIsLost'
    BY <1>1, <1>2, <1>6, <1>9, <2>1 DEF LostIsLost, InFlight
  <2> QED  BY <1>3, <2>2, <2>3, InvariantPartsNext
<1> QED  BY <1>10, <1>11

LEMMA InvariantSend ==
  ASSUME TypeOK, PublicationInvariant, NEW s \in Senders, Send(s)
  PROVE  PublicationInvariant'
<1>1. Ordered /\ Stages /\ AllSent /\ LostIsLost
  BY InvariantParts
<1>2. UNCHANGED <<calls, publishing, wire, received, lost>>
  BY DEF Send, brokerVars
<1>3. /\ sending[s] /\ sending' = [sending EXCEPT ![s] = FALSE]
      /\ chanToPublish' = Append(chanToPublish, Newest(s))
      /\ chanToPublish \in Seq(Message) /\ sending \in [Senders -> BOOLEAN]
  BY DEF Send, TypeOK
<1>4. Newest(s) \in Message /\ Pending' \subseteq Pending
  BY TypeSend
<1>5. \A m \in Message : Sent(m) /\ m.from = s => m.seq < Newest(s).seq
  BY <1>3 DEF Sent, Newest
<1>6. Newest(s).from = s
  BY DEF Newest
<1>7. ToSet(chanToPublish') = ToSet(chanToPublish) \cup {Newest(s)}
  BY StagesSend
<1>8. Ordered'
  <2>1. InOrder(chanToPublish')
    BY <1>1, <1>3, <1>4, <1>5, <1>6, StageTypes, OrderAppend DEF AllSent, Ordered
  <2> QED  BY <1>1, <1>2, <2>1 DEF Ordered
<1>9. Stages'
  <2>1. /\ Before(ToSet(received), {Newest(s)}) /\ Before(ToSet(wire), {Newest(s)})
        /\ Before(ToSet(publishing), {Newest(s)})
    BY <1>1, <1>5, <1>6, StageTypes DEF AllSent, Before
  <2> QED  BY <1>1, <1>2, <1>7, <2>1 DEF Stages, Staged, Before
<1>10. \A m \in Message : Sent(m) => Sent(m)'
  BY <1>2, <1>3 DEF Sent, Message
<1>11. Sent(Newest(s))'
  <2>1. Newest(s)' = Newest(s) /\ ~ sending'[s]
    BY <1>2, <1>3 DEF Newest
  <2>2. calls[s] \in Nat
    BY PublicationAssumption DEF TypeOK
  <2> QED  BY <1>2, <2>1, <2>2 DEF Sent, Newest
<1>12. AllSent'
  <2>1. Newest(s)' = Newest(s)
    BY <1>2 DEF Newest
  <2> QED  BY <1>1, <1>2, <1>7, <1>10, <1>11, <2>1, StageTypes DEF AllSent, TypeOK
<1>13. LostIsLost'
  <2>1. Newest(s) \in Pending
    BY <1>3 DEF Pending
  <2> QED  BY <1>1, <1>2, <1>4, <1>7, <2>1 DEF LostIsLost, InFlight
<1> QED  BY <1>8, <1>9, <1>12, <1>13, InvariantPartsNext

LEMMA InvariantReceive ==
  ASSUME TypeOK, PublicationInvariant, Receive
  PROVE  PublicationInvariant'
<1>1. Ordered /\ Stages /\ AllSent /\ LostIsLost
  BY InvariantParts
<1>2. UNCHANGED <<calls, sending, wire, received, lost>> /\ Pending' = Pending
  BY TypeReceive DEF Receive, brokerVars, senderVars
<1>3. PICK h \in Message :
        /\ ToSet(publishing) = {} /\ ToSet(publishing') = {h}
        /\ ToSet(chanToPublish) = {h} \cup ToSet(chanToPublish')
        /\ InOrder(chanToPublish')
        /\ \A k \in ToSet(chanToPublish') : k.from = h.from => h.seq < k.seq
  <2>1. /\ chanToPublish \in Seq(Message) /\ chanToPublish # <<>>
        /\ chanToPublish' = Tail(chanToPublish)
    BY DEF Receive, TypeOK
  <2>2. Head(chanToPublish) \in Message
    BY <2>1, ToSetHeadTail
  <2> QED  BY <1>1, <2>1, <2>2, StagesReceive, OrderTail DEF Ordered
<1>4. Ordered'
  BY <1>1, <1>2, <1>3 DEF Ordered
<1>5. Stages'
  BY <1>1, <1>2, <1>3 DEF Stages, Staged, Before
<1>6. AllSent'
  BY <1>1, <1>2, <1>3 DEF AllSent, Sent
<1>7. LostIsLost'
  BY <1>1, <1>2, <1>3 DEF LostIsLost, InFlight
<1> QED  BY <1>4, <1>5, <1>6, <1>7, InvariantPartsNext

LEMMA InvariantFailed ==
  ASSUME TypeOK, PublicationInvariant, Failed, UNCHANGED <<senderVars, brokerVars>>
  PROVE  PublicationInvariant'
<1>1. Ordered /\ Stages /\ AllSent /\ LostIsLost
  BY InvariantParts
<1>2. UNCHANGED <<calls, sending, wire, received>>
  BY DEF senderVars, brokerVars
<1>3. publishing' = <<>> /\ UNCHANGED chanToPublish /\ lost' = lost \cup ToSet(publishing)
  BY TypeFailed
<1>4. InFlight' = Pending \cup ToSet(chanToPublish) \cup ToSet(wire)
  BY <1>2, <1>3, ToSetEmpty DEF InFlight, Pending, Newest
<1>5. \A m \in lost' : m \in lost \/ (m \in InFlight /\ m \notin InFlight')
  BY <1>3, <1>4, StagesDisjoint DEF InFlight
<1>6. \A m \in lost' : Sent(m)'
  BY <1>1, <1>2, <1>3 DEF AllSent, Sent
<1> QED  BY <1>2, <1>3, <1>5, <1>6, GivenUp DEF TypeOK

LEMMA InvariantRestarted ==
  ASSUME TypeOK, PublicationInvariant, Restarted
  PROVE  PublicationInvariant'
<1>1. Ordered /\ Stages /\ AllSent /\ LostIsLost
  BY InvariantParts
<1>2. /\ UNCHANGED <<calls, received>> /\ sending' = [s \in Senders |-> FALSE]
      /\ wire' = <<>> /\ publishing' = <<>> /\ chanToPublish' = <<>>
      /\ lost' = lost \cup InFlight
  BY DEF Restarted, InFlight
<1>3. InFlight' = {}
  BY <1>2, ToSetEmpty DEF InFlight, Pending
<1>4. \A m \in Message : Sent(m) => Sent(m)'
  BY <1>2 DEF Sent, Message
<1>5. \A m \in Pending : Sent(m)'
  <2>1. \A s \in Senders : calls[s] \in Nat
    BY PublicationAssumption DEF TypeOK
  <2> QED  BY <1>2, <2>1 DEF Pending, Newest, Sent
<1>6. \A m \in lost' : Sent(m)'
  BY <1>1, <1>2, <1>4, <1>5, StageTypes DEF AllSent, InFlight, TypeOK
<1> QED  BY <1>2, <1>3, <1>6, GivenUp

LEMMA InvariantWritten ==
  ASSUME TypeOK, PublicationInvariant, publishing # <<>>,
         wire' = wire \o publishing, publishing' = <<>>,
         UNCHANGED <<senderVars, chanToPublish, received, lost>>
  PROVE  PublicationInvariant'
<1>1. Ordered /\ Stages /\ AllSent /\ LostIsLost
  BY InvariantParts
<1>2. UNCHANGED <<calls, sending>> /\ Pending' = Pending
  BY DEF senderVars, Pending, Newest
<1>3. PICK m \in Message : publishing = <<m>>
  BY PublishingFacts
<1>4. /\ ToSet(publishing) = {m} /\ ToSet(publishing') = {}
      /\ ToSet(wire') = ToSet(wire) \cup {m}
  BY <1>3, ToSetOne, StagesWritten
<1>5. Ordered'
  <2>1. wire' = Append(wire, m) /\ wire \in Seq(Message)
    BY <1>3, WireAppend DEF TypeOK
  <2>2. \A k \in ToSet(wire) : k.from = m.from => k.seq < m.seq
    BY <1>1, <1>4 DEF Stages, Staged, Before
  <2>3. InOrder(wire')
    BY <1>1, <2>1, <2>2, OrderAppend DEF Ordered
  <2> QED  BY <1>1, <2>3 DEF Ordered
<1>6. Stages'
  BY <1>1, <1>4 DEF Stages, Staged, Before
<1>7. AllSent'
  BY <1>1, <1>2, <1>4 DEF AllSent, Sent
<1>8. LostIsLost'
  BY <1>1, <1>2, <1>4 DEF LostIsLost, InFlight
<1> QED  BY <1>5, <1>6, <1>7, <1>8, InvariantPartsNext

LEMMA InvariantArrive ==
  ASSUME TypeOK, PublicationInvariant, Arrive
  PROVE  PublicationInvariant'
<1>1. Ordered /\ Stages /\ AllSent /\ LostIsLost
  BY InvariantParts
<1>2. UNCHANGED <<calls, sending, chanToPublish, publishing, lost>> /\ Pending' = Pending
  BY TypeArrive DEF Arrive, senderVars
<1>3. PICK h \in Message :
        /\ ToSet(wire) = {h} \cup ToSet(wire')
        /\ ToSet(received') = ToSet(received) \cup {h}
        /\ received' = Append(received, h)
        /\ InOrder(wire')
        /\ \A k \in ToSet(wire') : k.from = h.from => h.seq < k.seq
  <2>1. wire \in Seq(Message) /\ wire # <<>> /\ wire' = Tail(wire)
        /\ received' = Append(received, Head(wire))
    BY DEF Arrive, TypeOK
  <2>2. Head(wire) \in Message
    BY <2>1, ToSetHeadTail
  <2> QED  BY <1>1, <2>1, <2>2, StagesArrive, OrderTail DEF Ordered
<1>4. Ordered'
  <2>1. \A k \in ToSet(received) : k.from = h.from => k.seq < h.seq
    BY <1>1, <1>3 DEF Stages, Staged, Before
  <2>2. InOrder(received')
    BY <1>1, <1>3, <2>1, OrderAppend DEF Ordered, TypeOK
  <2> QED  BY <1>1, <1>2, <1>3, <2>2 DEF Ordered
<1>5. Stages'
  BY <1>1, <1>2, <1>3 DEF Stages, Staged, Before
<1>6. AllSent'
  BY <1>1, <1>2, <1>3 DEF AllSent, Sent
<1>7. LostIsLost'
  BY <1>1, <1>2, <1>3 DEF LostIsLost, InFlight
<1> QED  BY <1>4, <1>5, <1>6, <1>7, InvariantPartsNext

LEMMA InvariantBreak ==
  ASSUME TypeOK, PublicationInvariant, Break
  PROVE  PublicationInvariant'
<1>1. Ordered /\ Stages /\ AllSent /\ LostIsLost
  BY InvariantParts
<1>2. /\ UNCHANGED <<calls, sending, chanToPublish, publishing, received>>
      /\ lost' = lost \cup ToSet(wire) /\ wire' = <<>> /\ Pending' = Pending
  BY TypeBreak DEF Break, senderVars
<1>3. InFlight' = Pending \cup ToSet(chanToPublish) \cup ToSet(publishing)
  BY <1>2, ToSetEmpty DEF InFlight
<1>4. \A m \in lost' : m \in lost \/ (m \in InFlight /\ m \notin InFlight')
  BY <1>2, <1>3, StagesDisjoint DEF InFlight
<1>5. \A m \in lost' : Sent(m)'
  BY <1>1, <1>2 DEF AllSent, Sent
<1> QED  BY <1>2, <1>4, <1>5, GivenUp DEF TypeOK

\* Between its look at the connection and its end, Connect changes no stage.
LEMMA InvariantFrame ==
  ASSUME PublicationInvariant,
         UNCHANGED <<senderVars, chanToPublish, publishing, brokerVars, lost>>
  PROVE  PublicationInvariant'
<1>1. Ordered /\ Stages /\ AllSent /\ LostIsLost
  BY InvariantParts
<1>2. Ordered' /\ Stages' /\ AllSent' /\ LostIsLost'
  BY <1>1 DEF Ordered, Stages, AllSent, Sent, LostIsLost, InFlight, Pending, Newest,
              senderVars, brokerVars
<1> QED  BY <1>2, InvariantPartsNext

LEMMA InvariantStep ==
  ASSUME TypeOK, PublicationInvariant, [Next]_vars
  PROVE  PublicationInvariant'
<1>1. ASSUME NEW s \in Senders, Call(s) PROVE PublicationInvariant'
  BY <1>1, InvariantCall
<1>2. ASSUME NEW s \in Senders, Send(s) PROVE PublicationInvariant'
  BY <1>2, InvariantSend
<1>3. CASE Receive
  BY <1>3, InvariantReceive
<1>4. CASE Connect
  <2>1. UNCHANGED <<senderVars, brokerVars>>
    BY <1>4 DEF Connect
  <2>2. Failed \/ UNCHANGED <<chanToPublish, publishing, lost>>
    BY <1>4 DEF Connect
  <2> QED  BY <2>1, <2>2, InvariantFailed, InvariantFrame
<1>5. CASE Publish
  <2>1. CASE /\ wire' = wire \o publishing /\ publishing' = <<>>
             /\ UNCHANGED <<senderVars, chanToPublish, received, lost>>
    BY <1>5, <2>1, InvariantWritten DEF Publish
  <2>2. CASE Failed /\ UNCHANGED <<senderVars, brokerVars>>
    BY <2>2, InvariantFailed
  <2>3. CASE Restarted
    BY <2>3, InvariantRestarted
  <2> QED  BY <1>5, <2>1, <2>2, <2>3 DEF Publish
<1>6. CASE Arrive
  BY <1>6, InvariantArrive
<1>7. CASE Break
  BY <1>7, InvariantBreak
<1>8. CASE Restart
  BY <1>8, InvariantRestarted DEF Restart
<1>9. CASE UNCHANGED vars
  BY <1>9, InvariantFrame DEF vars
<1> QED
  BY <1>1, <1>2, <1>3, <1>4, <1>5, <1>6, <1>7, <1>8, <1>9 DEF Next

\* The stages of a message hold the messages of each sender in the order of its
\* calls, one stage after the other, and nothing that was given up is in any of them.
THEOREM PublicationInvariantHolds == Spec => []PublicationInvariant
<1>1. Init => PublicationInvariant
  BY OrderEmpty, ToSetEmpty
  DEF Init, PublicationInvariant, Precedes, LostIsLost
<1>2. TypeOK /\ PublicationInvariant /\ [Next]_vars => PublicationInvariant'
  BY InvariantStep
<1> QED  BY <1>1, <1>2, TypeCorrect, PTL DEF Spec

\* What the broker receives of a sender is in the order of its calls and holds no
\* message twice, for any number of senders, capacity, faults and restarts.
THEOREM ReceivedInOrderHolds == Spec => []ReceivedInOrder
<1>1. PublicationInvariant => ReceivedInOrder
  BY DEF PublicationInvariant, ReceivedInOrder
<1> QED  BY <1>1, PublicationInvariantHolds, PTL
=============================================================================
