---------------------------- MODULE QuicStart_proofs ----------------------------
(***************************************************************************)
(* Theorems about subscribing and the start order README.md asks for: what *)
(* a confirmation and an ACK mean, for subscribers of at most one match.   *)
(***************************************************************************)
EXTENDS QuicSystem_proofs

\* The list a SUBSCRIBE leaves has what it had, and the address announced.
LEMMA AddSubscriberElems ==
  ASSUME NEW subs \in Seq(Addresses), NEW a \in Addresses
  PROVE  Elems(AddSubscriber(subs, a)) = Elems(subs) \cup {a}
<1>1. CASE a \in Elems(subs)
  BY <1>1 DEF AddSubscriber
<1>2. CASE a \notin Elems(subs)
  BY <1>2, ElemsAppend DEF AddSubscriber
<1> QED
  BY <1>1, <1>2

\* The subscriber a SUBSCRIBE in the network comes from, its only possible
\* sender as its source address is nobody else's.
LEMMA SubscribeSender ==
  ASSUME OrderInv, NEW pkt \in net, pkt.type = "SUBSCRIBE"
  PROVE  \E s \in Subscribers :
           /\ pkt.peer = SeenAs[s] /\ DeliverAddr(pkt) = s
           /\ pkt.topic \in Topics /\ pkt.topic \in Elems(Wants[s])
           /\ \A r \in Subscribers : pkt.peer = SeenAs[r] => r = s
<1>1. pkt \in SubscribePackets
  BY PacketKinds DEF OrderInv, TypeOK
<1>2. PICK s \in Subscribers, t \in Topics : pkt = Subscribe(s, t)
  BY <1>1 DEF SubscribePackets
<1>3. pkt.peer = SeenAs[s] /\ pkt.body[1] = s
  BY <1>2 DEF Subscribe
<1> QED
  BY <1>1, <1>3, SubscribeFields, QuicAssumption
  DEF OrderInv, NetInv, PacketOK, Wanted

\* Until the broker is killed nobody is taken off a list.
LEMMA ListsGrow ==
  ASSUME OrderInv, BrokerNext, restarts' = restarts
  PROVE  \A t \in Topics : Elems(topic_subscribers[t]) \subseteq Elems(topic_subscribers'[t])
<1> USE DEF OrderInv, TypeOK
<1>1. CASE \E pkt \in net : RecvSubscribe(pkt)
  <2>1. PICK pkt \in net : RecvSubscribe(pkt)
    BY <1>1
  <2>2. PICK s \in Subscribers : DeliverAddr(pkt) = s /\ pkt.topic \in Topics
    BY <2>1, SubscribeSender DEF RecvSubscribe
  <2>3. s \in Addresses
    BY QuicAssumption
  <2> QED
    BY <2>1, <2>2, <2>3, AddSubscriberElems DEF RecvSubscribe, BrokerTypeOK
<1>2. CASE ~ \E pkt \in net : RecvSubscribe(pkt)
  <2>1. ~Restart
    BY DEF Restart, BrokerTypeOK
  <2>2. UNCHANGED topic_subscribers
    BY <1>2, <2>1 DEF BrokerNext, PubSocketStep, SubSocketStep, RetransmitStep,
       RecvPublish, Forward, AckPublish, RecvSubAck, Sweep
  <2> QED
    BY <2>2
<1> QED
  BY <1>1, <1>2

---------------------------------------------------------------------------
(* A confirmed match is registered. *)

\* RegisteredInv survives a step that adds no ACK for a subscriber, confirms
\* no match and takes nobody off a list.
LEMMA RegisteredKept ==
  ASSUME RegisteredInv, OrderInv, UNCHANGED subscriptions,
         restarts' = 0 => restarts = 0,
         restarts' = 0 => \A t \in Topics : \A s \in Subscribers :
                            Listed(s, t) => Listed(s, t)',
         \A pkt \in net' \ net : pkt.type = "ACK" => pkt.peer \in Publishers
  PROVE  RegisteredInv'
<1> SUFFICES ASSUME restarts' = 0 PROVE RegisteredInv'
  BY DEF RegisteredInv
<1>1. \A s \in Subscribers : Elems(Wants[s]) \subseteq Topics
  BY ElemsOf, QuicAssumption
<1>2. \A s \in Subscribers : SeenAs[s] \notin Publishers
  BY QuicAssumption
<1> QED
  BY <1>1, <1>2 DEF RegisteredInv

\* The ACK of a SUBSCRIBE finds the subscriber on the list.
LEMMA RegisteredSubscribe ==
  ASSUME OrderInv, RegisteredInv, NEW pkt \in net, RecvSubscribe(pkt),
         UNCHANGED subVars, BrokerNext
  PROVE  RegisteredInv'
<1> SUFFICES ASSUME restarts = 0 PROVE RegisteredInv'
  BY DEF RegisteredInv, RecvSubscribe
<1>1. PICK s \in Subscribers :
        /\ pkt.peer = SeenAs[s] /\ DeliverAddr(pkt) = s
        /\ pkt.topic \in Topics /\ pkt.topic \in Elems(Wants[s])
        /\ \A r \in Subscribers : pkt.peer = SeenAs[r] => r = s
  BY SubscribeSender DEF RecvSubscribe
<1>2. topic_subscribers[pkt.topic] \in Seq(Addresses) /\ s \in Addresses
  BY <1>1, QuicAssumption DEF OrderInv, TypeOK, BrokerTypeOK
<1>3. Listed(s, pkt.topic)'
  BY <1>1, <1>2, AddSubscriberElems
  DEF RecvSubscribe, Listed, OrderInv, TypeOK, BrokerTypeOK
<1>4. \A t \in Topics : \A r \in Subscribers : Listed(r, t) => Listed(r, t)'
  BY ListsGrow DEF RecvSubscribe, Listed
<1>5. \A r \in Subscribers : Elems(Wants[r]) \subseteq Topics
  BY ElemsOf, QuicAssumption
<1>6. \A m \in net' : m \in net \/ m = Ack(pkt.peer, pkt.num, pkt.topic)
  BY DEF RecvSubscribe, Exchange
<1>7. ASSUME NEW r \in Subscribers, NEW m \in net', m.type = "ACK", m.peer = SeenAs[r]
      PROVE  m.topic \in Elems(Wants[r]) /\ Listed(r, m.topic)'
  <2>1. CASE m \in net
    BY <1>4, <1>5, <1>7, <2>1 DEF RegisteredInv
  <2>2. CASE m = Ack(pkt.peer, pkt.num, pkt.topic)
    BY <1>1, <1>3, <1>7, <2>2 DEF Ack
  <2> QED
    BY <1>6, <2>1, <2>2
<1> QED
  BY <1>4, <1>5, <1>7 DEF RegisteredInv, subVars, RecvSubscribe

\* With one match, the match an ACK confirms is the one it is for.
LEMMA RegisteredReceive ==
  ASSUME OneMatchEach, OrderInv, RegisteredInv, UNCHANGED brokerVars,
         NEW s \in Subscribers, NEW pkt \in net, SubReceive(s, pkt)
  PROVE  RegisteredInv'
<1> SUFFICES ASSUME restarts = 0 PROVE RegisteredInv'
  BY DEF RegisteredInv, brokerVars
<1>1. net' \subseteq net
  BY DEF SubReceive, Exchange
<1>2. \A r \in Subscribers : \A t : Listed(r, t)' = Listed(r, t)
  BY DEF Listed, brokerVars
<1>3. CASE UNCHANGED subscriptions
  BY <1>1, <1>2, <1>3 DEF RegisteredInv
<1>4. CASE /\ pkt.type = "ACK" /\ pkt.peer = SeenAs[s]
           /\ subscriptions' = [subscriptions EXCEPT
                                  ![s] = Append(@, Wants[s][sub[s].idx])]
  <2> DEFINE t == Wants[s][sub[s].idx]
  <2>1. sub[s].idx \in DOMAIN Wants[s] /\ t \in Topics /\ t \in Elems(Wants[s])
    BY CurrentTopic DEF SubReceive, OrderInv, TypeOK
  <2>2. pkt.topic \in Elems(Wants[s]) /\ Listed(s, pkt.topic)
    BY <1>4 DEF RegisteredInv
  <2>3. pkt.topic = t
    <3>1. Len(Wants[s]) \in Nat /\ Len(Wants[s]) <= 1 /\ DOMAIN Wants[s] = 1..Len(Wants[s])
      BY QuicAssumption DEF OneMatchEach
    <3>2. \A i, j \in DOMAIN Wants[s] : i = j
      BY <3>1
    <3> QED
      BY <2>1, <2>2, <3>2 DEF Elems
  <2>4. Elems(subscriptions'[s]) = Elems(subscriptions[s]) \cup {t}
    BY <1>4, <2>1, ElemsAppend DEF OrderInv, TypeOK, SubTypeOK
  <2>5. \A r \in Subscribers \ {s} : subscriptions'[r] = subscriptions[r]
    BY <1>4 DEF OrderInv, TypeOK, SubTypeOK
  <2> HIDE DEF t
  <2> QED
    BY <1>1, <1>2, <2>1, <2>2, <2>3, <2>4, <2>5 DEF RegisteredInv
<1> QED
  BY <1>3, <1>4 DEF SubReceive, For

\* RegisteredInv is inductive on top of OrderInv.
LEMMA RegisteredStep ==
  ASSUME OneMatchEach, OrderInv, RegisteredInv, [Next]_vars
  PROVE  RegisteredInv'
<1> USE DEF OrderInv, TypeOK
<1>1. CASE PublisherNext
  <2>1. \A pkt \in net' \ net : pkt.type # "ACK"
    BY <1>1 DEF PublisherNext, PubSend, PubStep, PubTimeout, PubReceive,
       Transmit, Exchange, Publish
  <2> QED
    BY <1>1, <2>1, RegisteredKept DEF PublisherNext, brokerVars, subVars, Listed
<1>2. CASE BrokerNext
  <2>1. UNCHANGED subVars
    BY <1>2 DEF BrokerNext
  <2>2. CASE \E pkt \in net : RecvSubscribe(pkt)
    BY <1>2, <2>1, <2>2, RegisteredSubscribe
  <2>3. CASE Restart
    BY <2>3 DEF Restart, RegisteredInv, BrokerTypeOK
  <2>4. CASE \/ PubSocketStep \/ RetransmitStep
             \/ \E pkt \in net : RecvSubAck(pkt)
    <3>1. UNCHANGED <<topic_subscribers, restarts>>
      BY <2>4 DEF PubSocketStep, RecvPublish, Forward, AckPublish, RecvSubAck,
         RetransmitStep, Sweep
    <3>2. CASE AckPublish
      <4>1. pub_loop.pkt \in PublishPackets
        BY <3>2 DEF AckPublish, BrokerTypeOK, Idle
      <4>2. \A pkt \in net' \ net : pkt.peer \in Publishers
        BY <3>2, <4>1, PublishFields DEF AckPublish, Transmit, Ack
      <4> QED
        BY <2>1, <3>1, <4>2, RegisteredKept DEF subVars, Listed
    <3>3. CASE ~AckPublish
      <4>1. \A k \in Unacked : pending[k].packet.type = "DELIVER"
        <5>1. \A k \in Unacked : pending[k].packet \in DeliverPackets
          BY DEF Unacked, BrokerTypeOK, PendingDelivery
        <5> QED
          BY <5>1 DEF DeliverPackets
      <4>2. \A pkt \in net' \ net : pkt.type # "ACK"
        <5>1. CASE RetransmitStep
          BY <4>1, <5>1 DEF RetransmitStep, Sweep, Transmit
        <5>2. CASE Forward
          BY <5>2 DEF Forward, Transmit, Deliveries, DeliveryTo, Deliver
        <5>3. CASE \E pkt \in net : RecvPublish(pkt) \/ RecvSubAck(pkt)
          BY <5>3 DEF RecvPublish, RecvSubAck, Exchange
        <5> QED
          BY <2>4, <3>3, <5>1, <5>2, <5>3 DEF PubSocketStep
      <4> QED
        BY <2>1, <3>1, <4>2, RegisteredKept DEF subVars, Listed
    <3> QED
      BY <3>2, <3>3
  <2> QED
    BY <1>2, <2>2, <2>3, <2>4 DEF BrokerNext, SubSocketStep
<1>3. CASE SubscriberNext
  <2>1. UNCHANGED brokerVars
    BY <1>3 DEF SubscriberNext
  <2>2. CASE \E s \in Subscribers, pkt \in net : SubReceive(s, pkt)
    BY <2>1, <2>2, RegisteredReceive
  <2>3. CASE ~ \E s \in Subscribers, pkt \in net : SubReceive(s, pkt)
    <3>1. UNCHANGED subscriptions
      BY <1>3, <2>3 DEF SubscriberNext, SubSend, SubStep, SubTimeout, ListenStep,
         RecvDeliver, RecvOther, Close, subVars
    <3>2. \A pkt \in net' \ net : pkt.type # "ACK"
      BY <1>3, <2>3 DEF SubscriberNext, SubSend, SubStep, SubTimeout, ListenStep,
         RecvDeliver, RecvOther, Close, Transmit, Exchange, Subscribe, SubAck
    <3> QED
      BY <2>1, <3>1, <3>2, RegisteredKept DEF brokerVars, Listed
  <2> QED
    BY <2>2, <2>3
<1>4. CASE NetworkNext \/ UNCHANGED vars
  <2>1. net' \subseteq net /\ UNCHANGED <<brokerVars, subVars>>
    BY <1>4 DEF NetworkNext, Lose, vars
  <2> QED
    BY <2>1, RegisteredKept DEF brokerVars, subVars, Listed
<1> QED
  BY <1>1, <1>2, <1>3, <1>4 DEF Next

\* ConfirmedInv holds at first and after every step.
LEMMA ConfirmedInit == Init => ConfirmedInv
<1> SUFFICES ASSUME Init PROVE ConfirmedInv
  OBVIOUS
<1>1. RegisteredInv
  BY DEF Init, NetInit, SubInit, RegisteredInv, Elems
<1> QED
  BY <1>1, OrderInit DEF ConfirmedInv

LEMMA ConfirmedStep ==
  ASSUME OneMatchEach
  PROVE  ConfirmedInv /\ [Next]_vars => ConfirmedInv'
BY OrderStep, RegisteredStep DEF ConfirmedInv

\* Subscribers of one match are told the truth: whatever the network does, a
\* match reported "Suscrito a" is registered at the broker, until it is killed.
\* (With two matches a late ACK of the first can confirm the second: the
\* assumption is what subscribe_to_match needs.)
THEOREM ConfirmationIsTrue ==
  ASSUME OneMatchEach
  PROVE  Spec => []ConfirmedIsRegistered
<1>1. Init => ConfirmedInv
  BY ConfirmedInit
<1>2. ConfirmedInv /\ [Next]_vars => ConfirmedInv'
  BY ConfirmedStep
<1>3. ConfirmedInv => ConfirmedIsRegistered
  BY DEF ConfirmedInv, RegisteredInv, ConfirmedIsRegistered, Listed
<1> QED
  BY <1>1, <1>2, <1>3, PTL DEF Spec
---------------------------------------------------------------------------
(* ACK with the documented start order. *)

\* A PUBLISH is sent when every subscriber has its match confirmed, so listed.
LEMMA PublishFindsAll ==
  ASSUME OneMatchEach, ConfirmedInv, OrderedStart, restarts = 0, MayPublish,
         NEW s \in Subscribers, NEW t, Wanted(s, t)
  PROVE  Listed(s, t)
<1>1. /\ Len(Wants[s]) \in Nat /\ Len(Wants[s]) <= 1
      /\ DOMAIN Wants[s] = 1..Len(Wants[s])
  BY QuicAssumption DEF OneMatchEach
<1>2. PICK i \in DOMAIN Wants[s] : Wants[s][i] = t
  BY DEF Wanted, Elems
<1>3. i = 1 /\ Len(Wants[s]) = 1
  <2> DEFINE len == Len(Wants[s])
  <2>1. len \in Nat /\ len <= 1 /\ i \in 1..len
    BY <1>1, <1>2
  <2> HIDE DEF len
  <2>2. i = 1 /\ len = 1
    BY <2>1
  <2> QED
    BY <2>2 DEF len
<1>4. subscriptions[s] \in Seq(Topics) /\ Len(subscriptions[s]) = 1
  BY <1>3 DEF MayPublish, AllConfirmed, ConfirmedInv, OrderInv, TypeOK, SubTypeOK
<1>5. subscriptions[s][1] \in Elems(subscriptions[s])
  <2>1. 1 \in DOMAIN subscriptions[s]
    BY <1>4
  <2> QED
    BY <2>1 DEF Elems
<1>6. subscriptions[s][1] \in Elems(Wants[s]) /\ Listed(s, subscriptions[s][1])
  BY <1>5 DEF ConfirmedInv, RegisteredInv
<1>7. subscriptions[s][1] = t
  BY <1>1, <1>2, <1>3, <1>6 DEF Elems
<1> QED
  BY <1>6, <1>7

\* StartInv survives a step that touches neither pub_loop nor what publishers
\* acknowledged, adds no PUBLISH and no ACK for a publisher to the network,
\* and takes nothing from the lists or from what was forwarded.
LEMMA StartKept ==
  ASSUME StartInv, OrderInv, UNCHANGED <<pub_loop, acked>>,
         restarts' = 0 => restarts = 0,
         restarts' = 0 => forwarded \subseteq forwarded',
         restarts' = 0 => \A t \in Topics : \A s \in Subscribers :
                            Listed(s, t) => Listed(s, t)',
         \A pkt \in net' \ net :
           /\ pkt.type # "PUBLISH"
           /\ pkt.type = "ACK" => pkt.peer \notin Publishers
  PROVE  StartInv'
<1> SUFFICES ASSUME OrderedStart, restarts' = 0 PROVE StartInv'
  BY DEF StartInv
<1>1. \A s \in Subscribers : \A t : Wanted(s, t) => t \in Topics
  BY ElemsOf, QuicAssumption DEF Wanted
<1>2. \A pkt : SentToAll(pkt) => SentToAll(pkt)'
  BY DEF SentToAll, Wanted
<1>3. \A pkt \in net' : pkt.type = "PUBLISH" =>
        \A s \in Subscribers : Wanted(s, pkt.topic) => Listed(s, pkt.topic)'
  BY <1>1 DEF StartInv
<1>4. pub_loop'.pc # "recv" =>
        \A s \in Subscribers : Wanted(s, pub_loop'.pkt.topic) =>
          s \in Elems(pub_loop'.targets)
  BY DEF StartInv
<1>5. pub_loop'.pc = "ack" => SentToAll(pub_loop.pkt)'
  BY <1>2 DEF StartInv
<1>6. \A pkt \in net' : \A p \in Publishers :
        pkt.type = "ACK" /\ pkt.peer = p => SentToAll(Publish(p, pkt.num))'
  BY <1>2 DEF StartInv
<1>7. \A p \in Publishers : \A n \in acked'[p] : SentToAll(Publish(p, n))'
  BY <1>2 DEF StartInv
<1> QED
  BY <1>3, <1>4, <1>5, <1>6, <1>7 DEF StartInv, SentToAll, Wanted

\* A publisher sends when everyone is listed, and takes an ACK at its word.
LEMMA StartPublisher ==
  ASSUME OneMatchEach, ConfirmedInv, StartInv, PublisherNext
  PROVE  StartInv'
<1> USE DEF ConfirmedInv, OrderInv, TypeOK
<1> SUFFICES ASSUME OrderedStart, restarts = 0 PROVE StartInv'
  BY DEF StartInv, PublisherNext, brokerVars
<1>1. UNCHANGED <<topic_subscribers, pub_loop, forwarded, restarts>>
  BY DEF PublisherNext, brokerVars
<1>2. \A s, t : Listed(s, t)' = Listed(s, t)
  BY <1>1 DEF Listed
<1>3. \A pkt : SentToAll(pkt)' = SentToAll(pkt)
  BY <1>1 DEF SentToAll, Wanted
<1>4. CASE \E p \in Publishers : MayPublish /\ PubSend(p)
  <2>1. PICK p \in Publishers : MayPublish /\ PubSend(p)
    BY <1>4
  <2>2. /\ \A pkt \in net' : pkt \in net \/ pkt = Publish(p, pub[p].seq)
        /\ UNCHANGED acked
    BY <2>1 DEF PubSend, Transmit
  <2>3. \A s \in Subscribers : \A t : Wanted(s, t) => Listed(s, t)
    BY <2>1, PublishFindsAll
  <2> QED
    BY <1>1, <1>2, <1>3, <2>2, <2>3 DEF StartInv, Publish, SentToAll, Wanted
<1>5. CASE \E p \in Publishers : PubStep(p)
  <2>1. net' \subseteq net
    BY <1>5 DEF PubStep, PubTimeout, PubReceive, Exchange
  <2>2. \A p \in Publishers : \A n \in acked'[p] :
          \/ n \in acked[p]
          \/ \E pkt \in net : pkt.type = "ACK" /\ pkt.peer = p /\ pkt.num = n
    BY <1>5 DEF PubStep, PubTimeout, PubReceive, PubTypeOK
  <2>3. \A p \in Publishers : \A n \in acked'[p] : SentToAll(Publish(p, n))'
    BY <1>3, <2>2 DEF StartInv
  <2> QED
    BY <1>1, <1>2, <1>3, <2>1, <2>3 DEF StartInv, SentToAll, Wanted
<1> QED
  BY <1>4, <1>5 DEF PublisherNext

\* The turn of pub_socket_loop: it copies a list everyone is on, sends the
\* event to all of it, and only then acknowledges.
LEMMA StartPubSocket ==
  ASSUME ConfirmedInv, StartInv, PubSocketStep, UNCHANGED <<pubVars, subVars>>
  PROVE  StartInv'
<1> USE DEF ConfirmedInv, OrderInv, TypeOK
<1> SUFFICES ASSUME OrderedStart, restarts = 0 PROVE StartInv'
  BY DEF StartInv, PubSocketStep, RecvPublish, Forward, AckPublish
<1>1. UNCHANGED <<topic_subscribers, restarts, acked>>
  BY DEF PubSocketStep, RecvPublish, Forward, AckPublish, pubVars
<1>2. \A s, t : Listed(s, t)' = Listed(s, t)
  BY <1>1 DEF Listed
<1>3. ASSUME NEW pkt \in net, RecvPublish(pkt)
      PROVE  StartInv'
  <2>1. net' \subseteq net /\ UNCHANGED forwarded
    BY <1>3 DEF RecvPublish, Exchange
  <2>2. \A x : SentToAll(x)' = SentToAll(x)
    BY <2>1 DEF SentToAll, Wanted
  <2>3. /\ pub_loop'.pc = "forward" /\ pub_loop'.pkt = pkt
        /\ pub_loop'.targets = topic_subscribers[pkt.topic]
    BY <1>3 DEF RecvPublish
  <2>4. \A s \in Subscribers : Wanted(s, pkt.topic) =>
          s \in Elems(topic_subscribers[pkt.topic])
    BY <1>3 DEF RecvPublish, StartInv, Listed
  <2> QED
    BY <1>1, <1>2, <2>1, <2>2, <2>3, <2>4 DEF StartInv, SentToAll, Wanted
<1>4. CASE Forward
  <2>1. /\ pub_loop.pkt \in PublishPackets
        /\ \A x \in net' : x \in net \/ x.type = "DELIVER"
    BY <1>4, DeliveriesOK DEF Forward, Transmit, Deliveries, DeliveryTo, Deliver
  <2>2. \A x : SentToAll(x) => SentToAll(x)'
    BY <1>4 DEF Forward, SentToAll, Wanted
  <2>3. /\ pub_loop'.pc = "ack" /\ pub_loop'.pkt = pub_loop.pkt
        /\ pub_loop'.targets = pub_loop.targets
    BY <1>4 DEF Forward, BrokerTypeOK, Idle
  <2>4. SentToAll(pub_loop.pkt)'
    <3>1. \A s \in Subscribers : Wanted(s, pub_loop.pkt.topic) =>
            s \in Elems(pub_loop.targets)
      BY <1>4 DEF Forward, StartInv
    <3> QED
      BY <1>4, <3>1 DEF Forward, SentToAll, Wanted, Deliveries, DeliveryTo
  <2> QED
    BY <1>1, <1>2, <1>4, <2>1, <2>2, <2>3, <2>4
    DEF Forward, StartInv, SentToAll, Wanted
<1>5. CASE AckPublish
  <2>1. /\ pub_loop.pkt \in PublishPackets
        /\ SentToAll(pub_loop.pkt)
        /\ UNCHANGED forwarded
    BY <1>5 DEF AckPublish, BrokerTypeOK, Idle, StartInv
  <2>2. pub_loop.pkt = Publish(pub_loop.pkt.peer, pub_loop.pkt.num)
    <3>1. PICK p \in Publishers, n \in Seqs : pub_loop.pkt = Publish(p, n)
      BY <2>1 DEF PublishPackets
    <3>2. pub_loop.pkt.peer = p /\ pub_loop.pkt.num = n
      BY <3>1 DEF Publish
    <3> QED
      BY <3>1, <3>2
  <2>3. \A x : SentToAll(x)' = SentToAll(x)
    BY <2>1 DEF SentToAll, Wanted
  <2> DEFINE ack == Ack(pub_loop.pkt.peer, pub_loop.pkt.num, pub_loop.pkt.topic)
  <2>4. /\ ack.type = "ACK" /\ ack.peer = pub_loop.pkt.peer /\ ack.num = pub_loop.pkt.num
        /\ \A x \in net' : x \in net \/ x = ack
    BY <1>5 DEF AckPublish, Transmit, Ack
  <2> HIDE DEF ack
  <2>5. \A x \in net' : \A p \in Publishers :
          x.type = "ACK" /\ x.peer = p => SentToAll(Publish(p, x.num))'
    BY <2>1, <2>2, <2>3, <2>4 DEF StartInv
  <2>6. pub_loop'.pc = "recv"
    BY <1>5 DEF AckPublish, Idle
  <2> QED
    BY <1>1, <1>2, <2>3, <2>4, <2>5, <2>6 DEF StartInv, SentToAll, Wanted
<1> QED
  BY <1>3, <1>4, <1>5 DEF PubSocketStep

\* StartInv is inductive on top of ConfirmedInv.
LEMMA StartStep ==
  ASSUME OneMatchEach, ConfirmedInv, StartInv, [Next]_vars
  PROVE  StartInv'
<1> USE DEF ConfirmedInv, OrderInv, TypeOK
<1>1. CASE PublisherNext
  BY <1>1, StartPublisher
<1>2. CASE BrokerNext
  <2>1. UNCHANGED <<pubVars, subVars, acked>>
    BY <1>2 DEF BrokerNext, pubVars
  <2>2. CASE PubSocketStep
    BY <2>1, <2>2, StartPubSocket
  <2>3. CASE Restart
    BY <2>3 DEF Restart, StartInv, BrokerTypeOK
  <2>4. CASE SubSocketStep \/ RetransmitStep
    <3>1. UNCHANGED <<pub_loop, forwarded, restarts>>
      BY <2>4 DEF SubSocketStep, RecvSubscribe, RecvSubAck, RetransmitStep, Sweep
    <3>2. \A t \in Topics : \A s \in Subscribers : Listed(s, t) => Listed(s, t)'
      BY <1>2, <3>1, ListsGrow DEF Listed
    <3>3. ASSUME NEW x \in net' \ net
          PROVE  x.type # "PUBLISH" /\ (x.type = "ACK" => x.peer \notin Publishers)
      <4>1. CASE RetransmitStep
        <5>1. \A k \in Unacked : pending[k].packet \in DeliverPackets
          BY DEF Unacked, BrokerTypeOK, PendingDelivery
        <5> QED
          BY <4>1, <5>1 DEF RetransmitStep, Sweep, Transmit, DeliverPackets
      <4>2. CASE \E pkt \in net : RecvSubAck(pkt)
        BY <4>2 DEF RecvSubAck, Exchange
      <4>3. CASE \E pkt \in net : RecvSubscribe(pkt)
        <5>1. PICK pkt \in net : RecvSubscribe(pkt)
          BY <4>3
        <5>2. x = Ack(pkt.peer, pkt.num, pkt.topic)
          BY <5>1 DEF RecvSubscribe, Exchange
        <5>3. pkt.peer \in Addresses
          BY <5>1, PacketKinds, SubscribeFields DEF RecvSubscribe
        <5> QED
          BY <5>2, <5>3, QuicAssumption DEF Ack
      <4> QED
        BY <2>4, <4>1, <4>2, <4>3 DEF SubSocketStep
    <3> QED
      BY <2>1, <3>1, <3>2, <3>3, StartKept
  <2> QED
    BY <1>2, <2>2, <2>3, <2>4 DEF BrokerNext
<1>3. CASE SubscriberNext
  <2>1. UNCHANGED <<brokerVars, acked>>
    BY <1>3 DEF SubscriberNext, pubVars
  <2>2. \A x \in net' \ net : x.type # "PUBLISH" /\ x.type # "ACK"
    BY <1>3 DEF SubscriberNext, SubSend, SubStep, SubTimeout, SubReceive, ListenStep,
       RecvDeliver, RecvOther, Close, Transmit, Exchange, Subscribe, SubAck
  <2> QED
    BY <2>1, <2>2, StartKept DEF brokerVars, Listed
<1>4. CASE NetworkNext \/ UNCHANGED vars
  <2>1. net' \subseteq net /\ UNCHANGED <<brokerVars, acked>>
    BY <1>4 DEF NetworkNext, Lose, vars, pubVars
  <2> QED
    BY <2>1, StartKept DEF brokerVars, Listed
<1> QED
  BY <1>1, <1>2, <1>3, <1>4 DEF Next

\* With the documented start order and one match each, an event whose publisher
\* got its ACK has been sent to every subscriber of its match, whatever the
\* network did, as long as the broker was not killed.
THEOREM AckMeansForwarded ==
  ASSUME OneMatchEach
  PROVE  Spec => []AckedIsForwarded
<1>1. Init => ForwardInv
  <2>1. Init => StartInv
    BY DEF Init, NetInit, PubInit, BrokerInit, StartInv, Idle
  <2> QED
    BY <2>1, ConfirmedInit DEF ForwardInv
<1>2. ForwardInv /\ [Next]_vars => ForwardInv'
  BY ConfirmedStep, StartStep DEF ForwardInv
<1>3. ForwardInv => AckedIsForwarded
  <2>1. TypeOK => \A p \in Publishers : \A n \in acked[p] : n \in Seqs
    BY DEF TypeOK, PubTypeOK
  <2> QED
    BY <2>1 DEF ForwardInv, ConfirmedInv, OrderInv, StartInv, AckedIsForwarded,
       SentToAll, Publish, Wanted
<1> QED
  BY <1>1, <1>2, <1>3, PTL DEF Spec
---------------------------------------------------------------------------
(* The lists. *)

Distinct(q) == \A i, j \in DOMAIN q : q[i] = q[j] => i = j

\* A list without repetitions stays one.
LEMMA AddSubscriberDistinct ==
  ASSUME NEW subs \in Seq(Addresses), NEW a \in Addresses, Distinct(subs)
  PROVE  Distinct(AddSubscriber(subs, a))
<1>1. CASE a \in Elems(subs)
  BY <1>1 DEF AddSubscriber
<1>2. CASE a \notin Elems(subs)
  <2>1. /\ Len(subs) \in Nat /\ DOMAIN subs = 1..Len(subs)
        /\ DOMAIN Append(subs, a) = 1..(Len(subs) + 1)
        /\ \A i \in 1..Len(subs) : Append(subs, a)[i] = subs[i]
        /\ Append(subs, a)[Len(subs) + 1] = a
    OBVIOUS
  <2>2. \A i \in 1..Len(subs) : subs[i] # a
    BY <1>2, <2>1 DEF Elems
  <2>3. \A i \in 1..(Len(subs) + 1) : i \in 1..Len(subs) \/ i = Len(subs) + 1
    BY <2>1
  <2>4. Distinct(Append(subs, a))
    BY <2>1, <2>2, <2>3 DEF Distinct
  <2> QED
    BY <1>2, <2>4 DEF AddSubscriber
<1> QED
  BY <1>1, <1>2

\* However often SUBSCRIBEs are repeated by subscribers or by the network, and
\* whenever the broker is started again, no address is on a list twice.
THEOREM NeverListedTwice == Spec => []RegisteredOnce
<1> DEFINE Inv == OrderInv /\ RegisteredOnce
<1>1. Init => Inv
  BY OrderInit DEF Init, BrokerInit, RegisteredOnce
<1>2. Inv /\ [Next]_vars => Inv'
  <2> SUFFICES ASSUME OrderInv, RegisteredOnce, [Next]_vars PROVE RegisteredOnce'
    BY OrderStep
  <2> USE DEF OrderInv, TypeOK
  <2>1. CASE \E pkt \in net : RecvSubscribe(pkt)
    <3>1. PICK pkt \in net : RecvSubscribe(pkt)
      BY <2>1
    <3>2. DeliverAddr(pkt) \in Addresses /\ pkt.topic \in Topics
      BY <3>1, SubscribeSender, QuicAssumption DEF RecvSubscribe
    <3>3. \A t \in Topics : Distinct(topic_subscribers[t])
      BY DEF RegisteredOnce, Distinct
    <3>4. \A t \in Topics : Distinct(topic_subscribers'[t])
      BY <3>1, <3>2, <3>3, AddSubscriberDistinct DEF RecvSubscribe, BrokerTypeOK
    <3> QED
      BY <3>4 DEF RegisteredOnce, Distinct
  <2>2. CASE Restart
    BY <2>2 DEF Restart, RegisteredOnce
  <2>3. CASE ~Restart /\ ~ \E pkt \in net : RecvSubscribe(pkt)
    <3>1. UNCHANGED topic_subscribers
      BY <2>3 DEF Next, PublisherNext, SubscriberNext, NetworkNext, BrokerNext, vars,
         brokerVars, PubSocketStep, SubSocketStep, RetransmitStep, RecvPublish,
         Forward, AckPublish, RecvSubAck, Sweep
    <3> QED
      BY <3>1 DEF RegisteredOnce
  <2> QED
    BY <2>1, <2>2, <2>3
<1> QED
  BY <1>1, <1>2, PTL DEF Spec
=============================================================================
