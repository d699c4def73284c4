-------------------------- MODULE QuicSystem_proofs --------------------------
(***************************************************************************)
(* Theorems about QuicSystem for every value of its constants.             *)
(***************************************************************************)
EXTENDS QuicInvariant, WellFoundedInduction, TLAPS

---------------------------------------------------------------------------
(* Packets. *)

\* The type field tells which set of packets a packet belongs to.
LEMMA PacketKinds ==
  ASSUME NEW pkt \in Packets
  PROVE  /\ pkt.type = "PUBLISH" => pkt \in PublishPackets
         /\ pkt.type = "ACK" => pkt \in AckPackets
         /\ pkt.type = "SUBSCRIBE" => pkt \in SubscribePackets
         /\ pkt.type = "DELIVER" => pkt \in DeliverPackets
         /\ pkt.type = "SUB_ACK" => pkt \in SubAckPackets
<1>1. \A x \in PublishPackets : x.type = "PUBLISH"
  BY DEF PublishPackets, Publish
<1>2. \A x \in AckPackets : x.type = "ACK"
  BY DEF AckPackets
<1>3. \A x \in SubscribePackets : x.type = "SUBSCRIBE"
  BY DEF SubscribePackets, Subscribe
<1>4. \A x \in DeliverPackets : x.type = "DELIVER"
  BY DEF DeliverPackets
<1>5. \A x \in SubAckPackets : x.type = "SUB_ACK"
  BY DEF SubAckPackets
<1> QED
  BY <1>1, <1>2, <1>3, <1>4, <1>5 DEF Packets

\* What the fields of a PUBLISH, a SUBSCRIBE and a DELIVER hold.
LEMMA PublishFields ==
  ASSUME NEW pkt \in PublishPackets
  PROVE  /\ pkt.peer \in Publishers /\ pkt.num \in Seqs
         /\ pkt.topic = TopicOf[pkt.peer] /\ pkt.topic \in Topics
         /\ pkt.body = <<pkt.peer, pkt.num>> /\ pkt.body \in Events
  BY QuicAssumption DEF PublishPackets, Publish, Event, Events

\* A SUBSCRIBE names the subscriber it comes from and a match.
LEMMA SubscribeFields ==
  ASSUME NEW pkt \in SubscribePackets
  PROVE  /\ pkt.topic \in Topics /\ pkt.num = 0
         /\ pkt.peer \in Addresses
         /\ pkt.body[1] \in Subscribers
         /\ DeliverAddr(pkt) = pkt.body[1]
<1>1. PICK s \in Subscribers, t \in Topics : pkt = Subscribe(s, t)
  BY DEF SubscribePackets
<1>2. /\ pkt.topic = t /\ pkt.num = 0 /\ pkt.peer = SeenAs[s] /\ pkt.body = <<s>>
  BY <1>1 DEF Subscribe
<1>3. pkt.body # <<>>
  BY <1>2
<1> QED
  BY <1>2, <1>3, QuicAssumption DEF DeliverAddr

\* Deliver builds a DELIVER packet.
LEMMA DeliverTyped ==
  ASSUME NEW a \in Addresses, NEW n \in Seqs, NEW t \in Topics, NEW b \in Events
  PROVE  Deliver(a, n, t, b) \in DeliverPackets
  BY DEF Deliver, DeliverPackets

\* Sending and receiving keep net a set of packets.
LEMMA NetTyped ==
  ASSUME net \subseteq Packets, NEW out \in SUBSET Packets
  PROVE  /\ Transmit(out) => net' \subseteq Packets
         /\ \A pkt : Exchange(pkt, out) => net' \subseteq Packets
  BY DEF Transmit, Exchange

---------------------------------------------------------------------------
(* Sequences and the reordering buffer. *)

\* The elements of a sequence belong to the set it is a sequence over.
LEMMA ElemsOf ==
  ASSUME NEW S, NEW q \in Seq(S)
  PROVE  Elems(q) \subseteq S
  BY DEF Elems

\* Append adds one element.
LEMMA ElemsAppend ==
  ASSUME NEW S, NEW q \in Seq(S), NEW x \in S
  PROVE  Elems(Append(q, x)) = Elems(q) \cup {x}
<1>1. Len(q) \in Nat /\ DOMAIN q = 1..Len(q) /\ DOMAIN Append(q, x) = 1..(Len(q) + 1)
  OBVIOUS
<1>2. \A i \in 1..Len(q) : Append(q, x)[i] = q[i]
  OBVIOUS
<1>3. Append(q, x)[Len(q) + 1] = x
  OBVIOUS
<1> QED
  BY <1>1, <1>2, <1>3 DEF Elems

\* drain_buffer stops: at a number the buffer lacks, past a run it has.
LEMMA DrainEndFound ==
  ASSUME NEW buf, DOMAIN buf \subseteq Seqs, NEW n \in 1..(NumEvents + 1)
  PROVE  LET end == DrainEnd(buf, n)
         IN  /\ end \in n..(NumEvents + 1)
             /\ end \notin DOMAIN buf
             /\ n..(end - 1) \subseteq DOMAIN buf
<1> DEFINE Missing == {m \in n..(NumEvents + 1) : m \notin DOMAIN buf}
<1>1. NumEvents \in Nat
  BY QuicAssumption
<1>2. Missing \subseteq Nat /\ NumEvents + 1 \in Missing
  BY <1>1 DEF Seqs
<1>3. PICK m \in Missing : \A k \in Missing : ~ (<<k, m>> \in OpToRel(<, Nat))
  BY <1>2, NatLessThanWellFounded, WFMin
<1>4. \A k \in Missing : ~ (k < m)
  BY <1>2, <1>3 DEF OpToRel
<1>5. m \in n..(NumEvents + 1) /\ m \notin DOMAIN buf
  OBVIOUS
<1>6. n..(m - 1) \subseteq DOMAIN buf
  <2> SUFFICES ASSUME NEW k \in n..(m - 1), k \notin DOMAIN buf
               PROVE  FALSE
    OBVIOUS
  <2>1. k \in Missing /\ k < m
    BY <1>1, <1>5
  <2> QED
    BY <1>4, <2>1
<1> QED
  BY <1>5, <1>6 DEF DrainEnd

---------------------------------------------------------------------------
(* Types, one component at a time. *)

\* publish_events moving on keeps the publisher's types.
LEMMA NextEventType ==
  ASSUME PubTypeOK, NEW p \in Publishers, pub[p].seq \in Seqs, NextEvent(p)
  PROVE  /\ pub' \in [Publishers -> [pc : {"send", "wait", "done"},
                                     seq : 1..(NumEvents + 1),
                                     attempt : 0..SendRetries]]
         /\ \A q \in Publishers : pub'[q].pc # "done" => pub'[q].seq \in Seqs
<1> DEFINE next == [pc |-> IF pub[p].seq = NumEvents THEN "done" ELSE "send",
                    seq |-> pub[p].seq + 1, attempt |-> 0]
<1>1. NumEvents \in Nat \ {0} /\ SendRetries \in Nat
  BY QuicAssumption
<1>2. /\ next \in [pc : {"send", "wait", "done"}, seq : 1..(NumEvents + 1),
                   attempt : 0..SendRetries]
      /\ next.pc # "done" => next.seq \in Seqs
  BY <1>1 DEF Seqs
<1>3. pub' = [pub EXCEPT ![p] = next]
  BY DEF NextEvent
<1> HIDE DEF next
<1> QED
  BY <1>2, <1>3 DEF PubTypeOK

\* Every publisher step keeps its types and sends packets.
LEMMA PublisherType ==
  ASSUME net \subseteq Packets, PubTypeOK, PublisherNext
  PROVE  net' \subseteq Packets /\ PubTypeOK'
<1> USE QuicAssumption DEF Seqs
<1>1. ASSUME NEW p \in Publishers, pub[p].pc = "wait", Retry(p)
      PROVE  /\ pub' \in [Publishers -> [pc : {"send", "wait", "done"},
                                         seq : 1..(NumEvents + 1),
                                         attempt : 0..SendRetries]]
             /\ \A q \in Publishers : pub'[q].pc # "done" => pub'[q].seq \in Seqs
             /\ lost' \in [Publishers -> SUBSET Seqs]
  <2>1. /\ pub[p].seq \in Seqs /\ pub[p].attempt \in 0..SendRetries
        /\ NumEvents \in Nat /\ SendRetries \in Nat
    BY <1>1 DEF PubTypeOK
  <2>2. CASE pub[p].attempt < SendRetries
    <3>1. pub[p].attempt + 1 \in 0..SendRetries
      BY <2>1, <2>2
    <3>2. pub' = [pub EXCEPT ![p].pc = "send", ![p].attempt = @ + 1] /\ lost' = lost
      <4>1. pub[p].attempt # SendRetries
        BY <2>1, <2>2
      <4> HIDE QuicAssumption
      <4> QED
        BY <1>1, <4>1 DEF Retry
    <3>3. pub[p] \in [pc : {"send", "wait", "done"}, seq : 1..(NumEvents + 1),
                      attempt : 0..SendRetries]
      BY DEF PubTypeOK
    <3>4. [pub[p] EXCEPT !.pc = "send", !.attempt = @ + 1]
            \in [pc : {"send", "wait", "done"}, seq : 1..(NumEvents + 1),
                attempt : 0..SendRetries]
      BY <3>1, <3>3
    <3>5. pub' = [pub EXCEPT ![p] = [pub[p] EXCEPT !.pc = "send", !.attempt = @ + 1]]
      BY <3>2
    <3> QED
      BY <2>1, <3>2, <3>4, <3>5 DEF PubTypeOK
  <2>3. CASE pub[p].attempt = SendRetries
    <3>1. NextEvent(p) /\ lost' = [lost EXCEPT ![p] = @ \cup {pub[p].seq}]
      <4>1. ~ pub[p].attempt < SendRetries
        BY <2>1, <2>3
      <4> HIDE QuicAssumption
      <4> QED
        BY <1>1, <4>1 DEF Retry
    <3>2. pub[p].seq \in Seqs
      BY <2>1
    <3> HIDE QuicAssumption DEF Seqs
    <3> QED
      BY <3>1, <3>2, NextEventType DEF PubTypeOK
  <2> QED
    BY <2>1, <2>2, <2>3
<1>2. ASSUME NEW p \in Publishers, PubSend(p)
      PROVE  net' \subseteq Packets /\ PubTypeOK'
  <2>1. pub[p].seq \in Seqs
    BY <1>2 DEF PubSend, PubTypeOK
  <2>2. Publish(p, pub[p].seq) \in Packets
    BY <2>1 DEF Packets, PublishPackets
  <2>3. net' \subseteq Packets
    BY <1>2, <2>2, NetTyped DEF PubSend
  <2>4. pub' = [pub EXCEPT ![p].pc = "wait"] /\ acked' = acked /\ lost' = lost
    BY <1>2 DEF PubSend
  <2>5. pub' \in [Publishers -> [pc : {"send", "wait", "done"},
                                seq : 1..(NumEvents + 1),
                                attempt : 0..SendRetries]]
    BY <2>4 DEF PubTypeOK
  <2>6. \A q \in Publishers : pub'[q].pc # "done" => pub'[q].seq \in Seqs
    BY <2>1, <2>4 DEF PubTypeOK
  <2> QED
    BY <2>3, <2>4, <2>5, <2>6 DEF PubTypeOK
<1>3. ASSUME NEW p \in Publishers, PubTimeout(p)
      PROVE  net' \subseteq Packets /\ PubTypeOK'
  BY <1>1, <1>3 DEF PubTimeout, PubTypeOK
<1>4. ASSUME NEW p \in Publishers, NEW pkt \in net, PubReceive(p, pkt)
      PROVE  net' \subseteq Packets /\ PubTypeOK'
  <2>1. net' \subseteq Packets
    BY <1>4, NetTyped DEF PubReceive
  <2>2. CASE pkt.num = pub[p].seq
    <3>1. pub[p].seq \in Seqs
      BY <1>4 DEF PubReceive, PubTypeOK
    <3>2. /\ NextEvent(p) /\ lost' = lost
          /\ acked' = [acked EXCEPT ![p] = @ \cup {pub[p].seq}]
      BY <1>4, <2>2 DEF PubReceive
    <3>3. acked' \in [Publishers -> SUBSET Seqs] /\ lost' \in [Publishers -> SUBSET Seqs]
      BY <3>1, <3>2 DEF PubTypeOK
    <3> QED
      BY <2>1, <3>1, <3>2, <3>3, NextEventType DEF PubTypeOK
  <2>3. CASE pkt.num # pub[p].seq
    BY <1>1, <1>4, <2>1, <2>3 DEF PubReceive, PubTypeOK
  <2> QED
    BY <2>2, <2>3
<1> QED
  BY <1>2, <1>3, <1>4 DEF PublisherNext, PubStep

\* Every broker step keeps its types and sends packets.
LEMMA BrokerType ==
  ASSUME net \subseteq Packets, BrokerTypeOK, BrokerNext
  PROVE  net' \subseteq Packets /\ BrokerTypeOK'
<1> USE QuicAssumption
<1>1. ASSUME NEW pkt \in net, RecvPublish(pkt)
      PROVE  net' \subseteq Packets /\ BrokerTypeOK'
  <2>1. pkt \in PublishPackets
    BY <1>1, PacketKinds DEF RecvPublish
  <2>2. topic_subscribers[pkt.topic] \in Seq(Addresses)
    BY <2>1, PublishFields DEF BrokerTypeOK
  <2>3. net' \subseteq Packets
    BY <1>1, NetTyped DEF RecvPublish
  <2> QED
    BY <1>1, <2>1, <2>2, <2>3 DEF RecvPublish, BrokerTypeOK
<1>2. ASSUME Forward
      PROVE  net' \subseteq Packets /\ BrokerTypeOK'
  <2>1. /\ pub_loop.pkt \in PublishPackets /\ pub_loop.targets \in Seq(Addresses)
        /\ pub_loop' \in [pc : {"forward", "ack"}, pkt : PublishPackets,
                          targets : Seq(Addresses)]
    <3>1. pub_loop \in [pc : {"forward", "ack"}, pkt : PublishPackets,
                        targets : Seq(Addresses)]
      BY <1>2 DEF Forward, BrokerTypeOK, Idle
    <3>2. pub_loop' = [pub_loop EXCEPT !.pc = "ack"]
      BY <1>2 DEF Forward
    <3> QED
      BY <3>1, <3>2
  <2>2. \A a \in Addresses : DeliveryTo(a) \in DeliverPackets
    BY <2>1, PublishFields, DeliverTyped DEF DeliveryTo
  <2>3. Deliveries \subseteq DeliverPackets
    BY <2>1, <2>2, ElemsOf DEF Deliveries
  <2>4. net' \subseteq Packets
    BY <1>2, <2>3, NetTyped DEF Forward, Packets
  <2>5. /\ DOMAIN Registered \subseteq Keys
        /\ \A k \in DOMAIN Registered : Registered[k] \in PendingDelivery
    <3> DEFINE fresh == {PendingKey(pub_loop.pkt.num, a) : a \in Elems(pub_loop.targets)}
    <3>1. fresh \subseteq Keys /\ \A k \in fresh : k[2] \in Addresses
      BY <2>1, PublishFields, ElemsOf DEF PendingKey, Keys
    <3>2. \A k \in fresh :
            [packet |-> DeliveryTo(k[2]), retries |-> 0, acked |-> FALSE]
              \in PendingDelivery
      BY <2>2, <3>1 DEF PendingDelivery
    <3> QED
      BY <3>1, <3>2 DEF Registered, BrokerTypeOK
  <2> QED
    BY <1>2, <2>1, <2>3, <2>4, <2>5 DEF Forward, BrokerTypeOK
<1>3. ASSUME AckPublish
      PROVE  net' \subseteq Packets /\ BrokerTypeOK'
  <2>1. pub_loop.pkt \in PublishPackets
    BY <1>3 DEF AckPublish, BrokerTypeOK, Idle
  <2>2. Ack(pub_loop.pkt.peer, pub_loop.pkt.num, pub_loop.pkt.topic) \in Packets
    BY <2>1, PublishFields DEF Ack, AckPackets, Packets, Seqs
  <2>3. net' \subseteq Packets
    BY <1>3, <2>2, NetTyped DEF AckPublish
  <2> QED
    BY <1>3, <2>3 DEF AckPublish, BrokerTypeOK
<1>4. ASSUME NEW pkt \in net, RecvSubscribe(pkt)
      PROVE  net' \subseteq Packets /\ BrokerTypeOK'
  <2>1. pkt \in SubscribePackets
    BY <1>4, PacketKinds DEF RecvSubscribe
  <2>2. Ack(pkt.peer, pkt.num, pkt.topic) \in Packets
    BY <2>1, SubscribeFields DEF Ack, AckPackets, Packets
  <2>3. net' \subseteq Packets
    BY <1>4, <2>2, NetTyped DEF RecvSubscribe
  <2>4. \A subs \in Seq(Addresses) : AddSubscriber(subs, DeliverAddr(pkt)) \in Seq(Addresses)
    BY <2>1, SubscribeFields DEF AddSubscriber
  <2> QED
    BY <1>4, <2>3, <2>4 DEF RecvSubscribe, BrokerTypeOK
<1>5. ASSUME NEW pkt \in net, RecvSubAck(pkt)
      PROVE  net' \subseteq Packets /\ BrokerTypeOK'
  <2>1. net' \subseteq Packets
    BY <1>5, NetTyped DEF RecvSubAck
  <2>2. \A k \in DOMAIN pending : [pending[k] EXCEPT !.acked = TRUE] \in PendingDelivery
    BY DEF BrokerTypeOK, PendingDelivery
  <2> QED
    BY <1>5, <2>1, <2>2 DEF RecvSubAck, BrokerTypeOK
<1>6. ASSUME NEW due \in SUBSET Unacked, Sweep(due)
      PROVE  net' \subseteq Packets /\ BrokerTypeOK'
  <2> DEFINE resent == {k \in due : ~Exhausted(k)}
             given_up == due \ resent
             kept == Unacked \ given_up
  <2>1. \A k \in Unacked : k \in DOMAIN pending /\ pending[k].packet \in DeliverPackets
    BY DEF Unacked, BrokerTypeOK, PendingDelivery
  <2>2. {pending[k].packet : k \in resent} \subseteq DeliverPackets
    BY <2>1
  <2>3. net' \subseteq Packets
    BY <1>6, <2>2, NetTyped DEF Sweep, Packets
  <2>4. \A k \in resent : Again(pending[k]) \in PendingDelivery
    <3> SUFFICES ASSUME NEW k \in resent
                 PROVE  Again(pending[k]) \in PendingDelivery
      OBVIOUS
    <3>1. pending[k] \in PendingDelivery /\ pending[k].retries < MaxRetries
      BY DEF Unacked, Exhausted, BrokerTypeOK, PendingDelivery
    <3>2. pending[k].retries + 1 \in 0..MaxRetries
      BY <3>1 DEF PendingDelivery
    <3> QED
      BY <3>1, <3>2 DEF Again, PendingDelivery
  <2>5. discarded' \subseteq DeliverPackets
    BY <1>6, <2>1 DEF Sweep, BrokerTypeOK
  <2>6. DOMAIN pending' = kept /\ \A k \in kept : pending'[k] \in PendingDelivery
    BY <1>6, <2>1, <2>4 DEF Sweep, BrokerTypeOK
  <2> QED
    BY <1>6, <2>1, <2>3, <2>5, <2>6 DEF Sweep, BrokerTypeOK
<1>7. ASSUME Restart
      PROVE  net' \subseteq Packets /\ BrokerTypeOK'
  <2>1. net' \subseteq net
    BY <1>7 DEF Restart, Refuse
  <2>2. restarts' \in 0..MaxRestarts
    BY <1>7, RestartAssumption DEF Restart, BrokerTypeOK
  <2> QED
    BY <1>7, <2>1, <2>2 DEF Restart, BrokerTypeOK
<1> QED
  BY <1>1, <1>2, <1>3, <1>4, <1>5, <1>6, <1>7
  DEF BrokerNext, PubSocketStep, SubSocketStep, RetransmitStep

\* subscribe_to_match moving on keeps the subscriber's position typed.
LEMMA NextTopicType ==
  ASSUME SubTypeOK, NEW s \in Subscribers, sub[s].pc = "wait",
         SubRetry(s) \/ NextTopic(s)
  PROVE  /\ sub' \in [Subscribers -> [pc : {"send", "wait", "listen", "down"},
                                      idx : Nat \ {0}, attempt : 0..SendRetries]]
         /\ \A r \in Subscribers :
              sub'[r].pc \in {"send", "wait"} => sub'[r].idx \in DOMAIN Wants[r]
<1> DEFINE next == [pc |-> IF sub[s].idx = Len(Wants[s]) THEN "listen" ELSE "send",
                    idx |-> sub[s].idx + 1, attempt |-> 0]
<1>1. /\ sub[s].idx \in 1..Len(Wants[s]) /\ Len(Wants[s]) \in Nat
      /\ DOMAIN Wants[s] = 1..Len(Wants[s])
      /\ sub[s].attempt \in 0..SendRetries /\ SendRetries \in Nat
  BY QuicAssumption DEF SubTypeOK
<1>2. CASE NextTopic(s)
  <2>1. /\ next \in [pc : {"send", "wait", "listen", "down"},
                     idx : Nat \ {0}, attempt : 0..SendRetries]
        /\ next.pc \in {"send", "wait"} => next.idx \in DOMAIN Wants[s]
    BY <1>1
  <2>2. sub' = [sub EXCEPT ![s] = next]
    BY <1>2 DEF NextTopic
  <2> HIDE DEF next
  <2> QED
    BY <2>1, <2>2 DEF SubTypeOK
<1>3. CASE /\ sub[s].attempt < SendRetries
           /\ sub' = [sub EXCEPT ![s].pc = "send", ![s].attempt = @ + 1]
  <2>1. sub[s].attempt + 1 \in 0..SendRetries
    BY <1>1, <1>3
  <2>2. \A r \in Subscribers :
          sub'[r].pc \in {"send", "wait"} => sub'[r].idx \in DOMAIN Wants[r]
    BY <1>1, <1>3 DEF SubTypeOK
  <2> QED
    BY <1>3, <2>1, <2>2 DEF SubTypeOK
<1> QED
  BY <1>2, <1>3 DEF SubRetry

\* drain_buffer keeps the types of all it assigns.
LEMMA DrainType ==
  ASSUME SubTypeOK, NEW s \in Subscribers, UNCHANGED <<sub, subscriptions>>,
         NEW buf, DOMAIN buf \subseteq Seqs, \A k \in DOMAIN buf : buf[k] \in Lines,
         Drain(s, buf)
  PROVE  SubTypeOK'
<1> DEFINE first == next_seq[s]
           end == DrainEnd(buf, first)
           news == [i \in 1..(end - first) |-> buf[first + i - 1]]
           rest == [k \in DOMAIN buf \ (first..(end - 1)) |-> buf[k]]
<1>1. NumEvents \in Nat /\ first \in 1..(NumEvents + 1)
  BY QuicAssumption DEF SubTypeOK
<1>2. end \in first..(NumEvents + 1) /\ first..(end - 1) \subseteq DOMAIN buf
  BY <1>1, DrainEndFound
<1>3. news \in Seq(Lines)
  <2>1. end - first \in Nat
    BY <1>1, <1>2
  <2>2. \A i \in 1..(end - first) : buf[first + i - 1] \in Lines
    BY <1>1, <1>2
  <2> QED
    BY <2>1, <2>2
<1>4. /\ DOMAIN rest \subseteq Seqs
      /\ \A k \in DOMAIN rest : rest[k] \in Lines
  OBVIOUS
<1>5. first..(end - 1) \subseteq Seqs
  BY <1>2
<1>6. /\ shown' = [shown EXCEPT ![s] = @ \o news]
      /\ delivered' = [delivered EXCEPT ![s] = @ \cup first..(end - 1)]
      /\ recv_buffer' = [recv_buffer EXCEPT ![s] = rest]
      /\ next_seq' = [next_seq EXCEPT ![s] = end]
  BY DEF Drain
<1> HIDE DEF news, rest, end, first
<1>7. shown' \in [Subscribers -> Seq(Lines)]
  <2>1. shown[s] \o news \in Seq(Lines)
    BY <1>3 DEF SubTypeOK
  <2> QED
    BY <1>6, <2>1 DEF SubTypeOK
<1>8. delivered' \in [Subscribers -> SUBSET Seqs]
  BY <1>5, <1>6 DEF SubTypeOK
<1>9. next_seq' \in [Subscribers -> 1..(NumEvents + 1)]
  BY <1>1, <1>2, <1>6 DEF SubTypeOK
<1>10. /\ DOMAIN recv_buffer' = Subscribers
       /\ \A r \in Subscribers :
            /\ DOMAIN recv_buffer'[r] \subseteq Seqs
            /\ \A k \in DOMAIN recv_buffer'[r] : recv_buffer'[r][k] \in Lines
  BY <1>4, <1>6 DEF SubTypeOK
<1> QED
  BY <1>7, <1>8, <1>9, <1>10 DEF SubTypeOK

\* What reaches the drain after a DELIVER is stored.
LEMMA StoredType ==
  ASSUME SubTypeOK, NEW s \in Subscribers, NEW pkt \in DeliverPackets
  PROVE  LET buf == Stored(recv_buffer[s], pkt.num, Line(pkt))
         IN  /\ DOMAIN buf \subseteq Seqs
             /\ \A k \in DOMAIN buf : buf[k] \in Lines
<1>1. pkt.num \in Seqs /\ Line(pkt) \in Lines
  BY DEF DeliverPackets, Line, Lines
<1> QED
  BY <1>1 DEF Stored, SubTypeOK

\* A subscriber that is subscribing has a match to subscribe to.
LEMMA CurrentTopic ==
  ASSUME SubTypeOK, NEW s \in Subscribers, sub[s].pc \in {"send", "wait"}
  PROVE  /\ sub[s].idx \in DOMAIN Wants[s]
         /\ Wants[s][sub[s].idx] \in Topics
         /\ Wants[s][sub[s].idx] \in Elems(Wants[s])
<1>1. sub[s].idx \in DOMAIN Wants[s]
  BY DEF SubTypeOK
<1>2. Wants[s] \in Seq(Topics)
  BY QuicAssumption
<1> QED
  BY <1>1, <1>2, ElemsOf DEF Elems

\* Every subscriber step keeps its types and sends packets.
LEMMA SubscriberType ==
  ASSUME net \subseteq Packets, SubTypeOK, SubscriberNext
  PROVE  net' \subseteq Packets /\ SubTypeOK'
<1>1. ASSUME NEW s \in Subscribers, SubSend(s)
      PROVE  net' \subseteq Packets /\ SubTypeOK'
  <2>1. sub[s].idx \in DOMAIN Wants[s] /\ Wants[s][sub[s].idx] \in Topics
    BY <1>1, CurrentTopic DEF SubSend
  <2>2. Subscribe(s, Wants[s][sub[s].idx]) \in Packets
    BY <2>1 DEF Packets, SubscribePackets
  <2>3. net' \subseteq Packets
    BY <1>1, <2>2, NetTyped DEF SubSend
  <2>4. sub' = [sub EXCEPT ![s].pc = "wait"]
    BY <1>1 DEF SubSend
  <2>5. sub' \in [Subscribers -> [pc : {"send", "wait", "listen", "down"},
                                  idx : Nat \ {0}, attempt : 0..SendRetries]]
    BY <2>4 DEF SubTypeOK
  <2>6. \A r \in Subscribers :
          sub'[r].pc \in {"send", "wait"} => sub'[r].idx \in DOMAIN Wants[r]
    BY <2>1, <2>4 DEF SubTypeOK
  <2> QED
    BY <1>1, <2>3, <2>5, <2>6 DEF SubSend, SubTypeOK
<1>2. ASSUME NEW s \in Subscribers, SubTimeout(s)
      PROVE  net' \subseteq Packets /\ SubTypeOK'
  BY <1>2, NextTopicType DEF SubTimeout, SubTypeOK
<1>3. ASSUME NEW s \in Subscribers, NEW pkt \in net, SubReceive(s, pkt)
      PROVE  net' \subseteq Packets /\ SubTypeOK'
  <2>1. net' \subseteq Packets
    BY <1>3, NetTyped DEF SubReceive
  <2>2. sub[s].idx \in DOMAIN Wants[s] /\ Wants[s][sub[s].idx] \in Topics
    BY <1>3, CurrentTopic DEF SubReceive
  <2>3. subscriptions' \in [Subscribers -> Seq(Topics)]
    <3>1. Append(subscriptions[s], Wants[s][sub[s].idx]) \in Seq(Topics)
      BY <2>2 DEF SubTypeOK
    <3> QED
      BY <1>3, <3>1 DEF SubReceive, SubTypeOK
  <2> QED
    BY <1>3, <2>1, <2>3, NextTopicType DEF SubReceive, SubTypeOK
<1>4. ASSUME NEW s \in Subscribers, NEW pkt \in net, RecvDeliver(s, pkt)
      PROVE  net' \subseteq Packets /\ SubTypeOK'
  <2>1. pkt \in DeliverPackets
    BY <1>4, PacketKinds DEF RecvDeliver
  <2>2. SubAck(s, pkt.num, pkt.topic) \in Packets
    BY <2>1, QuicAssumption DEF DeliverPackets, SubAck, SubAckPackets, Packets
  <2>3. net' \subseteq Packets
    BY <1>4, <2>2, NetTyped DEF RecvDeliver
  <2>4. CASE pkt.num \in delivered[s]
    BY <1>4, <2>3, <2>4 DEF RecvDeliver, SubTypeOK
  <2>5. CASE pkt.num \notin delivered[s]
    BY <1>4, <2>1, <2>3, <2>5, StoredType, DrainType DEF RecvDeliver
  <2> QED
    BY <2>4, <2>5
<1>5. ASSUME NEW s \in Subscribers, NEW pkt \in net, RecvOther(s, pkt)
      PROVE  net' \subseteq Packets /\ SubTypeOK'
  <2>1. net' \subseteq Packets
    BY <1>5, NetTyped DEF RecvOther
  <2> QED
    BY <1>5, <2>1 DEF RecvOther, SubTypeOK, subVars
<1>6. ASSUME NEW s \in Subscribers, Close(s)
      PROVE  net' \subseteq Packets /\ SubTypeOK'
  <2>1. sub' = [sub EXCEPT ![s].pc = "down"]
    BY <1>6 DEF Close
  <2>2. sub' \in [Subscribers -> [pc : {"send", "wait", "listen", "down"},
                                  idx : Nat \ {0}, attempt : 0..SendRetries]]
    BY <2>1 DEF SubTypeOK
  <2> QED
    BY <1>6, <2>1, <2>2 DEF Close, SubTypeOK
<1> QED
  BY <1>1, <1>2, <1>3, <1>4, <1>5, <1>6 DEF SubscriberNext, SubStep, ListenStep

---------------------------------------------------------------------------
(* Type correctness. *)

\* The initial state is typed.
LEMMA InitTyped == Init => TypeOK
<1> SUFFICES ASSUME Init PROVE TypeOK
  OBVIOUS
<1>1. NumEvents \in Nat \ {0} /\ SendRetries \in Nat
  BY QuicAssumption
<1>2. net \subseteq Packets
  BY DEF Init, NetInit
<1>3. PubTypeOK
  BY <1>1 DEF Init, PubInit, PubTypeOK, Seqs
<1>4. BrokerTypeOK
  BY RestartAssumption DEF Init, BrokerInit, BrokerTypeOK, Idle
<1>5. SubTypeOK
  <2>1. \A s \in Subscribers : Wants[s] # <<>> => 1 \in DOMAIN Wants[s]
    BY QuicAssumption
  <2> QED
    BY <1>1, <2>1 DEF Init, SubInit, SubTypeOK
<1> QED
  BY <1>2, <1>3, <1>4, <1>5 DEF TypeOK

\* Every step keeps the types.
LEMMA StepTyped == TypeOK /\ [Next]_vars => TypeOK'
<1> SUFFICES ASSUME TypeOK, [Next]_vars PROVE TypeOK'
  OBVIOUS
<1>1. CASE PublisherNext
  BY <1>1, PublisherType DEF PublisherNext, TypeOK, brokerVars, subVars,
     BrokerTypeOK, SubTypeOK
<1>2. CASE BrokerNext
  BY <1>2, BrokerType DEF BrokerNext, TypeOK, pubVars, subVars,
     PubTypeOK, SubTypeOK
<1>3. CASE SubscriberNext
  BY <1>3, SubscriberType DEF SubscriberNext, TypeOK, pubVars, brokerVars,
     PubTypeOK, BrokerTypeOK
<1>4. CASE NetworkNext
  BY <1>4 DEF NetworkNext, Lose, TypeOK, pubVars, brokerVars, subVars,
     PubTypeOK, BrokerTypeOK, SubTypeOK
<1>5. CASE UNCHANGED vars
  BY <1>5 DEF TypeOK, vars, pubVars, brokerVars, subVars,
     PubTypeOK, BrokerTypeOK, SubTypeOK
<1> QED
  BY <1>1, <1>2, <1>3, <1>4, <1>5 DEF Next

\* Every variable keeps its type, whatever the network does: in particular
\* no publisher or delivery is ever past its last attempt.
THEOREM TypeCorrect == Spec => []TypeOK
<1>1. Init => TypeOK
  BY InitTyped
<1>2. TypeOK /\ [Next]_vars => TypeOK'
  BY StepTyped
<1> QED
  BY <1>1, <1>2, PTL DEF Spec

---------------------------------------------------------------------------
(* Order: the invariant OrderInv is inductive.                             *)

\* A step that adds only packets in order keeps the network in order.
LEMMA NetKept ==
  ASSUME NetInv, \A x \in net' \ net : PacketOK(x)
  PROVE  NetInv'
  BY DEF NetInv, PacketOK

\* ShownInOrder says LineOK of every line shown.
LEMMA ShownLines ==
  ASSUME SubTypeOK
  PROVE  ShownInOrder <=>
           \A s \in Subscribers : \A i \in 1..Len(shown[s]) : LineOK(s, i, shown[s][i])
  BY DEF ShownInOrder, LineOK, Coherent, Wanted

\* The initial state is in order: nothing is shown, sent or stored.
LEMMA OrderInit == Init => OrderInv
<1> SUFFICES ASSUME Init PROVE OrderInv
  OBVIOUS
<1>1. TypeOK
  BY InitTyped
<1>2. NetInv
  BY DEF Init, NetInit, NetInv
<1>3. BrokerInv
  BY DEF Init, BrokerInit, BrokerInv, Idle, Elems
<1>4. SubInv /\ ShownInOrder
  BY DEF Init, SubInit, SubInv, ShownInOrder
<1> QED
  BY <1>1, <1>2, <1>3, <1>4 DEF OrderInv

\* Publisher steps keep the order: they send PUBLISHes only.
LEMMA OrderPublisher ==
  ASSUME OrderInv, PublisherNext
  PROVE  NetInv' /\ BrokerInv' /\ SubInv' /\ ShownInOrder'
<1>1. \A x \in net' \ net : PacketOK(x)
  <2>1. \A p \in Publishers, n \in Seqs : PacketOK(Publish(p, n))
    BY DEF PacketOK, Publish
  <2>2. CASE \E p \in Publishers : PubSend(p)
    <3>1. PICK p \in Publishers : PubSend(p)
      BY <2>2
    <3>2. pub[p].seq \in Seqs
      BY <3>1 DEF PubSend, OrderInv, TypeOK, PubTypeOK
    <3>3. net' = net \cup {Publish(p, pub[p].seq)}
      BY <3>1 DEF PubSend, Transmit
    <3> QED
      BY <2>1, <3>2, <3>3
  <2>3. CASE \E p \in Publishers : PubStep(p)
    <3>1. net' \subseteq net
      BY <2>3 DEF PubStep, PubTimeout, PubReceive, Exchange
    <3> QED
      BY <3>1
  <2> QED
    BY <2>2, <2>3 DEF PublisherNext
<1>2. NetInv'
  BY <1>1, NetKept DEF OrderInv
<1> QED
  BY <1>2 DEF PublisherNext, OrderInv, brokerVars, subVars, BrokerInv, SubInv,
     ShownInOrder

\* The deliveries built from a PUBLISH are in order.
LEMMA DeliveriesOK ==
  ASSUME BrokerTypeOK, BrokerInv, pub_loop.pc = "forward"
  PROVE  /\ pub_loop.pkt \in PublishPackets
         /\ \A a \in Elems(pub_loop.targets) :
              /\ a \in Addresses
              /\ PacketOK(DeliveryTo(a))
              /\ DeliveryTo(a).num = pub_loop.pkt.num /\ DeliveryTo(a).peer = a
<1>1. pub_loop.pkt \in PublishPackets /\ pub_loop.targets \in Seq(Addresses)
  BY DEF BrokerTypeOK, Idle
<1>2. \A a \in Elems(pub_loop.targets) : a \in Addresses /\ Wanted(a, pub_loop.pkt.topic)
  BY <1>1, ElemsOf DEF BrokerInv
<1>3. ASSUME NEW a \in Elems(pub_loop.targets)
      PROVE  /\ PacketOK(DeliveryTo(a))
             /\ DeliveryTo(a).num = pub_loop.pkt.num /\ DeliveryTo(a).peer = a
  <2>1. /\ pub_loop.pkt.topic = TopicOf[pub_loop.pkt.peer]
        /\ pub_loop.pkt.body = <<pub_loop.pkt.peer, pub_loop.pkt.num>>
    BY <1>1, PublishFields
  <2>2. /\ DeliveryTo(a).type = "DELIVER" /\ DeliveryTo(a).peer = a
        /\ DeliveryTo(a).num = pub_loop.pkt.num
        /\ DeliveryTo(a).topic = pub_loop.pkt.topic
        /\ DeliveryTo(a).body = pub_loop.pkt.body
    BY DEF DeliveryTo, Deliver
  <2>3. Coherent(DeliveryTo(a).num, Line(DeliveryTo(a)))
    BY <2>1, <2>2 DEF Coherent, Line
  <2> QED
    BY <1>2, <2>2, <2>3 DEF PacketOK
<1> QED
  BY <1>1, <1>2, <1>3

\* Broker steps keep the order: what is registered, sent and sent again is coherent.
LEMMA OrderBroker ==
  ASSUME OrderInv, BrokerNext
  PROVE  NetInv' /\ BrokerInv'
<1> USE DEF OrderInv, TypeOK
<1>1. ASSUME NEW pkt \in net, RecvPublish(pkt)
      PROVE  NetInv' /\ BrokerInv'
  <2>1. net' \subseteq net
    BY <1>1 DEF RecvPublish, Exchange
  <2>2. NetInv'
    BY <2>1, NetKept
  <2>3. pkt.topic \in Topics
    BY <1>1, PacketKinds, PublishFields DEF RecvPublish
  <2> QED
    BY <1>1, <2>2, <2>3 DEF RecvPublish, BrokerInv
<1>2. ASSUME Forward
      PROVE  NetInv' /\ BrokerInv'
  <2>1. /\ pub_loop.pkt \in PublishPackets
        /\ \A a \in Elems(pub_loop.targets) :
             /\ a \in Addresses
             /\ PacketOK(DeliveryTo(a))
             /\ DeliveryTo(a).num = pub_loop.pkt.num /\ DeliveryTo(a).peer = a
    BY <1>2, DeliveriesOK DEF Forward
  <2>2. \A d \in Deliveries : PacketOK(d)
    BY <2>1 DEF Deliveries
  <2>3. NetInv'
    BY <1>2, <2>2, NetKept DEF Forward, Transmit
  <2>4. \A k \in DOMAIN pending' :
          PendingKey(pending'[k].packet.num, pending'[k].packet.peer) = k
            /\ PacketOK(pending'[k].packet)
    BY <1>2, <2>1 DEF Forward, Registered, PendingKey, BrokerInv
  <2>5. pub_loop'.targets = pub_loop.targets /\ pub_loop'.pkt = pub_loop.pkt
    BY <1>2 DEF Forward, BrokerTypeOK, Idle
  <2> QED
    BY <1>2, <2>3, <2>4, <2>5 DEF Forward, BrokerInv, PendingKey, PacketOK
<1>3. ASSUME AckPublish
      PROVE  NetInv' /\ BrokerInv'
  <2>1. PacketOK(Ack(pub_loop.pkt.peer, pub_loop.pkt.num, pub_loop.pkt.topic))
    BY DEF PacketOK, Ack
  <2>2. NetInv'
    BY <1>3, <2>1, NetKept DEF AckPublish, Transmit
  <2> QED
    BY <1>3, <2>2 DEF AckPublish, BrokerInv, Idle
<1>4. ASSUME NEW pkt \in net, RecvSubscribe(pkt)
      PROVE  NetInv' /\ BrokerInv'
  <2>1. pkt \in SubscribePackets
    BY <1>4, PacketKinds DEF RecvSubscribe
  <2>2. /\ pkt.topic \in Topics
        /\ DeliverAddr(pkt) \in Addresses /\ Wanted(DeliverAddr(pkt), pkt.topic)
    BY <1>4, <2>1, SubscribeFields, QuicAssumption DEF RecvSubscribe, NetInv, PacketOK
  <2>3. PacketOK(Ack(pkt.peer, pkt.num, pkt.topic))
    BY DEF PacketOK, Ack
  <2>4. NetInv'
    BY <1>4, <2>3, NetKept DEF RecvSubscribe, Exchange
  <2>5. ASSUME NEW subs \in Seq(Addresses),
               \A a \in Elems(subs) : Wanted(a, pkt.topic)
        PROVE  \A a \in Elems(AddSubscriber(subs, DeliverAddr(pkt))) : Wanted(a, pkt.topic)
    BY <2>2, <2>5, ElemsAppend DEF AddSubscriber
  <2>6. \A t \in Topics : \A a \in Elems(topic_subscribers'[t]) : Wanted(a, t)
    BY <1>4, <2>2, <2>5 DEF RecvSubscribe, BrokerTypeOK, BrokerInv
  <2> QED
    BY <1>4, <2>4, <2>6 DEF RecvSubscribe, BrokerInv
<1>5. ASSUME NEW pkt \in net, RecvSubAck(pkt)
      PROVE  NetInv' /\ BrokerInv'
  <2>1. net' \subseteq net
    BY <1>5 DEF RecvSubAck, Exchange
  <2>2. NetInv'
    BY <2>1, NetKept
  <2>3. DOMAIN pending' = DOMAIN pending
        /\ \A k \in DOMAIN pending : pending'[k].packet = pending[k].packet
    BY <1>5 DEF RecvSubAck, BrokerTypeOK, PendingDelivery
  <2> QED
    BY <1>5, <2>2, <2>3 DEF RecvSubAck, BrokerInv
<1>6. ASSUME NEW due \in SUBSET Unacked, Sweep(due)
      PROVE  NetInv' /\ BrokerInv'
  <2>1. \A k \in due : k \in DOMAIN pending /\ PacketOK(pending[k].packet)
    BY DEF Unacked, BrokerInv
  <2>2. \A x \in net' \ net : PacketOK(x)
    BY <1>6, <2>1 DEF Sweep, Transmit
  <2>3. NetInv'
    BY <2>2, NetKept
  <2>4. \A k \in DOMAIN pending' :
          k \in DOMAIN pending /\ pending'[k].packet = pending[k].packet
    BY <1>6 DEF Sweep, Unacked, Again, BrokerTypeOK, PendingDelivery
  <2> QED
    BY <1>6, <2>3, <2>4 DEF Sweep, BrokerInv
<1>7. ASSUME Restart
      PROVE  NetInv' /\ BrokerInv'
  <2>1. net' \subseteq net
    BY <1>7 DEF Restart, Refuse
  <2>2. NetInv'
    BY <2>1, NetKept
  <2>3. BrokerInv'
    BY <1>7 DEF Restart, BrokerInv, Idle, Elems
  <2> QED
    BY <2>2, <2>3
<1> QED
  BY <1>1, <1>2, <1>3, <1>4, <1>5, <1>6, <1>7
  DEF BrokerNext, PubSocketStep, SubSocketStep, RetransmitStep

\* Draining a coherent buffer shows the next lines and leaves later ones.
LEMMA OrderDrain ==
  ASSUME TypeOK, SubInv, ShownInOrder, NEW s \in Subscribers, NEW buf,
         DOMAIN buf \subseteq Seqs, \A k \in DOMAIN buf : buf[k] \in Lines,
         \A k \in DOMAIN buf : k >= next_seq[s] /\ LineOK(s, k, buf[k]),
         Drain(s, buf)
  PROVE  SubInv' /\ (\A r \in Subscribers : \A i \in 1..Len(shown'[r]) :
                        LineOK(r, i, shown'[r][i]))
<1> DEFINE first == next_seq[s]
           end == DrainEnd(buf, first)
           news == [i \in 1..(end - first) |-> buf[first + i - 1]]
           rest == [k \in DOMAIN buf \ (first..(end - 1)) |-> buf[k]]
<1>1. NumEvents \in Nat /\ first \in 1..(NumEvents + 1)
  BY QuicAssumption DEF TypeOK, SubTypeOK
<1>2. /\ end \in first..(NumEvents + 1) /\ end \notin DOMAIN buf
      /\ first..(end - 1) \subseteq DOMAIN buf
  BY <1>1, DrainEndFound
<1>3. /\ shown' = [shown EXCEPT ![s] = @ \o news]
      /\ delivered' = [delivered EXCEPT ![s] = @ \cup first..(end - 1)]
      /\ recv_buffer' = [recv_buffer EXCEPT ![s] = rest]
      /\ next_seq' = [next_seq EXCEPT ![s] = end]
  BY DEF Drain
<1>4. news \in Seq(Lines) /\ Len(news) = end - first
  <2>1. end - first \in Nat
    BY <1>1, <1>2
  <2>2. \A i \in 1..(end - first) : buf[first + i - 1] \in Lines
    BY <1>1, <1>2
  <2> QED
    BY <2>1, <2>2
<1>5. \A i \in 1..(end - first) : news[i] = buf[first + i - 1]
  OBVIOUS
<1>6. \A i \in 1..(end - first) : LineOK(s, first + i - 1, buf[first + i - 1])
  BY <1>1, <1>2
<1>7. \A k \in DOMAIN rest : k > end /\ LineOK(s, k, rest[k])
  BY <1>1, <1>2 DEF Seqs
<1> HIDE DEF news, rest, end
<1>8. shown[s] \in Seq(Lines) /\ Len(shown[s]) = first - 1
  BY DEF TypeOK, SubTypeOK, SubInv
<1>9. Len(shown[s] \o news) = end - 1
  BY <1>1, <1>2, <1>4, <1>8
<1>10. \A i \in 1..(end - 1) : LineOK(s, i, (shown[s] \o news)[i])
  <2> SUFFICES ASSUME NEW i \in 1..(end - 1)
               PROVE  LineOK(s, i, (shown[s] \o news)[i])
    OBVIOUS
  <2>1. CASE i < first
    <3>1. (shown[s] \o news)[i] = shown[s][i]
      BY <1>1, <1>2, <1>4, <1>8, <2>1
    <3>2. i \in 1..Len(shown[s])
      BY <1>1, <1>2, <1>8, <2>1
    <3> QED
      BY <3>1, <3>2, ShownLines DEF TypeOK
  <2>2. CASE i >= first
    <3>1. i - first + 1 \in 1..(end - first) /\ first + (i - first + 1) - 1 = i
      BY <1>1, <1>2, <2>2
    <3>2. (shown[s] \o news)[i] = news[i - first + 1]
      <4>1. i - Len(shown[s]) = i - first + 1 /\ i > Len(shown[s])
        BY <1>1, <1>2, <1>8, <2>2
      <4>2. i \in 1..(Len(shown[s]) + Len(news))
        BY <1>1, <1>2, <1>4, <1>8
      <4> QED
        BY <1>4, <1>8, <4>1, <4>2
    <3>3. LineOK(s, i, buf[i])
      BY <1>6, <3>1
    <3> QED
      BY <1>5, <3>1, <3>2, <3>3
  <2>3. i < first \/ i >= first
    BY <1>1, <1>2
  <2> QED
    BY <2>1, <2>2, <2>3
<1>11. SubInv'
  <2>1. Len(shown'[s]) = next_seq'[s] - 1
    BY <1>3, <1>9 DEF TypeOK, SubTypeOK
  <2>2. delivered'[s] = 1..(next_seq'[s] - 1)
    <3>1. delivered[s] = 1..(first - 1)
      BY DEF SubInv
    <3>2. 1..(first - 1) \cup first..(end - 1) = 1..(end - 1)
      BY <1>1, <1>2
    <3> QED
      BY <1>3, <3>1, <3>2 DEF TypeOK, SubTypeOK
  <2>3. \A k \in DOMAIN recv_buffer'[s] :
          k > next_seq'[s] /\ LineOK(s, k, recv_buffer'[s][k])
    BY <1>3, <1>7 DEF TypeOK, SubTypeOK
  <2>4. \A r \in Subscribers \ {s} :
          /\ shown'[r] = shown[r] /\ delivered'[r] = delivered[r]
          /\ recv_buffer'[r] = recv_buffer[r] /\ next_seq'[r] = next_seq[r]
    BY <1>3 DEF TypeOK, SubTypeOK
  <2> QED
    BY <2>1, <2>2, <2>3, <2>4 DEF SubInv
<1>12. \A r \in Subscribers : \A i \in 1..Len(shown'[r]) : LineOK(r, i, shown'[r][i])
  <2>1. shown'[s] = shown[s] \o news
        /\ \A r \in Subscribers \ {s} : shown'[r] = shown[r]
    BY <1>3 DEF TypeOK, SubTypeOK
  <2> QED
    BY <1>9, <1>10, <2>1, ShownLines DEF TypeOK
<1> QED
  BY <1>11, <1>12

\* Subscriber steps keep the order.
LEMMA OrderSubscriber ==
  ASSUME OrderInv, TypeOK', SubscriberNext
  PROVE  NetInv' /\ SubInv' /\ ShownInOrder'
<1> USE DEF OrderInv, TypeOK
<1>1. ASSUME UNCHANGED <<recv_buffer, delivered, next_seq, shown>>
      PROVE  SubInv' /\ ShownInOrder'
  BY <1>1 DEF SubInv, ShownInOrder
<1>2. ASSUME NEW s \in Subscribers, SubSend(s)
      PROVE  NetInv' /\ SubInv' /\ ShownInOrder'
  <2>1. /\ Wants[s][sub[s].idx] \in Topics
        /\ Wants[s][sub[s].idx] \in Elems(Wants[s])
    BY <1>2, CurrentTopic DEF SubSend
  <2>2. PacketOK(Subscribe(s, Wants[s][sub[s].idx]))
    BY <2>1 DEF PacketOK, Subscribe, Wanted
  <2>3. NetInv'
    BY <1>2, <2>2, NetKept DEF SubSend, Transmit
  <2> QED
    BY <1>1, <1>2, <2>3 DEF SubSend
<1>3. ASSUME NEW s \in Subscribers, SubTimeout(s)
      PROVE  NetInv' /\ SubInv' /\ ShownInOrder'
  BY <1>1, <1>3 DEF SubTimeout, NetInv, PacketOK
<1>4. ASSUME NEW s \in Subscribers, NEW pkt \in net, SubReceive(s, pkt)
      PROVE  NetInv' /\ SubInv' /\ ShownInOrder'
  <2>1. NetInv'
    BY <1>4, NetKept DEF SubReceive, Exchange
  <2> QED
    BY <1>1, <1>4, <2>1 DEF SubReceive
<1>5. ASSUME NEW s \in Subscribers, NEW pkt \in net, RecvDeliver(s, pkt)
      PROVE  NetInv' /\ SubInv' /\ ShownInOrder'
  <2>1. pkt \in DeliverPackets /\ pkt.num \in Seqs
    BY <1>5, PacketKinds DEF RecvDeliver, DeliverPackets
  <2>2. LineOK(s, pkt.num, Line(pkt))
    BY <1>5 DEF RecvDeliver, For, NetInv, PacketOK, LineOK, Line
  <2>3. PacketOK(SubAck(s, pkt.num, pkt.topic))
    BY DEF PacketOK, SubAck
  <2>4. NetInv'
    BY <1>5, <2>3, NetKept DEF RecvDeliver, Exchange
  <2>5. CASE pkt.num \in delivered[s]
    BY <1>1, <1>5, <2>4, <2>5 DEF RecvDeliver
  <2>6. CASE pkt.num \notin delivered[s]
    <3> DEFINE buf == Stored(recv_buffer[s], pkt.num, Line(pkt))
    <3>1. DOMAIN buf \subseteq Seqs /\ \A k \in DOMAIN buf : buf[k] \in Lines
      BY <2>1, StoredType
    <3>2. NumEvents \in Nat /\ next_seq[s] \in 1..(NumEvents + 1)
      BY QuicAssumption DEF SubTypeOK
    <3>3. pkt.num >= next_seq[s]
      BY <2>1, <2>6, <3>2 DEF SubInv, Seqs
    <3>4. \A k \in DOMAIN recv_buffer[s] :
            k > next_seq[s] /\ LineOK(s, k, recv_buffer[s][k])
      BY DEF SubInv
    <3>5. \A k \in DOMAIN buf : k >= next_seq[s] /\ LineOK(s, k, buf[k])
      BY <2>1, <2>2, <3>1, <3>2, <3>3, <3>4 DEF Stored, Seqs
    <3>6. Drain(s, buf)
      BY <1>5, <2>6 DEF RecvDeliver
    <3> HIDE DEF buf
    <3>7. /\ SubInv'
          /\ \A r \in Subscribers : \A i \in 1..Len(shown'[r]) :
               LineOK(r, i, shown'[r][i])
      BY <3>1, <3>5, <3>6, OrderDrain
    <3>8. ShownInOrder'
      BY <3>7 DEF ShownInOrder, LineOK, Coherent, Wanted
    <3> QED
      BY <2>4, <3>7, <3>8
  <2> QED
    BY <2>5, <2>6
<1>6. ASSUME NEW s \in Subscribers, NEW pkt \in net, RecvOther(s, pkt)
      PROVE  NetInv' /\ SubInv' /\ ShownInOrder'
  <2>1. NetInv'
    BY <1>6, NetKept DEF RecvOther, Exchange
  <2> QED
    BY <1>1, <1>6, <2>1 DEF RecvOther, subVars
<1>7. ASSUME NEW s \in Subscribers, Close(s)
      PROVE  NetInv' /\ SubInv' /\ ShownInOrder'
  BY <1>1, <1>7 DEF Close, NetInv, PacketOK
<1> QED
  BY <1>2, <1>3, <1>4, <1>5, <1>6, <1>7 DEF SubscriberNext, SubStep, ListenStep

\* OrderInv is inductive.
LEMMA OrderStep == OrderInv /\ [Next]_vars => OrderInv'
<1> SUFFICES ASSUME OrderInv, [Next]_vars PROVE OrderInv'
  OBVIOUS
<1>1. TypeOK'
  BY StepTyped DEF OrderInv
<1>2. CASE PublisherNext
  BY <1>1, <1>2, OrderPublisher DEF OrderInv
<1>3. CASE BrokerNext
  <2>1. SubInv' /\ ShownInOrder'
    BY <1>3 DEF BrokerNext, subVars, OrderInv, SubInv, ShownInOrder
  <2> QED
    BY <1>1, <1>3, <2>1, OrderBroker DEF OrderInv
<1>4. CASE SubscriberNext
  <2>1. BrokerInv'
    BY <1>4 DEF SubscriberNext, brokerVars, OrderInv, BrokerInv
  <2> QED
    BY <1>1, <1>4, <2>1, OrderSubscriber DEF OrderInv
<1>5. CASE NetworkNext \/ UNCHANGED vars
  <2>1. UNCHANGED <<pubVars, brokerVars, subVars>> /\ net' \subseteq net
    BY <1>5 DEF NetworkNext, Lose, vars
  <2>2. NetInv'
    BY <2>1, NetKept DEF OrderInv
  <2>3. BrokerInv' /\ SubInv' /\ ShownInOrder'
    BY <2>1 DEF brokerVars, subVars, OrderInv, BrokerInv, SubInv, ShownInOrder
  <2> QED
    BY <1>1, <2>2, <2>3 DEF OrderInv
<1> QED
  BY <1>2, <1>3, <1>4, <1>5 DEF Next

\* The inductive invariant behind Ordered: whatever is in the network, the
\* broker's table or a reordering buffer bears the number of its own event.
THEOREM OrderInvariant == Spec => []OrderInv
<1>1. Init => OrderInv
  BY OrderInit
<1>2. OrderInv /\ [Next]_vars => OrderInv'
  BY OrderStep
<1> QED
  BY <1>1, <1>2, PTL DEF Spec

\* Every subscriber shows the events of its matches without gap, repetition
\* or inversion, for any number of publishers, subscribers and matches, any
\* network and any address translation: the reordering buffer and the
\* duplicate filter do their work whatever reaches the socket.
THEOREM Ordered == Spec => []ShownInOrder
<1>1. OrderInv => ShownInOrder
  BY DEF OrderInv
<1> QED
  BY <1>1, OrderInvariant, PTL

---------------------------------------------------------------------------
(* Loss: with one feed each and honest addresses, LossInv is inductive.    *)

\* At a subscriber of one feed a number names one line.
LEMMA UniqueLine ==
  ASSUME OneFeedEach, NEW s \in Subscribers, NEW n,
         NEW k \in Lines, NEW l \in Lines, LineOK(s, n, k), LineOK(s, n, l)
  PROVE  k = l
<1>1. /\ k.body[1] \in Publishers /\ l.body[1] \in Publishers
      /\ k.body = <<k.body[1], k.body[2]>> /\ l.body = <<l.body[1], l.body[2]>>
  BY DEF Lines, Events
<1>2. k.body[1] = l.body[1]
  BY <1>1 DEF OneFeedEach, LineOK, Coherent, Wanted
<1>3. k.body = l.body /\ k.topic = l.topic
  BY <1>1, <1>2 DEF LineOK, Coherent
<1> QED
  BY <1>3 DEF Lines

\* A number and an address name one DELIVER.
LEMMA UniqueDelivery ==
  ASSUME OneFeedEach, NEW d \in DeliverPackets, NEW e \in DeliverPackets,
         PacketOK(d), PacketOK(e), d.num = e.num, d.peer = e.peer
  PROVE  d = e
<1>1. /\ Line(d) \in Lines /\ Line(e) \in Lines
      /\ d.peer \in Subscribers
      /\ LineOK(d.peer, d.num, Line(d)) /\ LineOK(d.peer, d.num, Line(e))
  BY DEF DeliverPackets, PacketOK, Line, Lines, LineOK, Wanted
<1>2. Line(d) = Line(e)
  BY <1>1, UniqueLine
<1>3. d.topic = e.topic /\ d.body = e.body
  BY <1>2 DEF Line
<1> QED
  BY <1>3 DEF DeliverPackets

\* What a subscriber has under the number of a DELIVER is that DELIVER's line.
LEMMA HeldLine ==
  OneFeedEach /\ OrderInv =>
    \A d \in DeliverPackets :
      PacketOK(d) /\ d.peer \in Subscribers /\ HasSeq(d.peer, d.num)
        => Holds(d.peer, Line(d))
<1> USE DEF OrderInv, TypeOK
<1> SUFFICES ASSUME OneFeedEach, OrderInv, NEW d \in DeliverPackets, PacketOK(d),
                    d.peer \in Subscribers, HasSeq(d.peer, d.num)
             PROVE  Holds(d.peer, Line(d))
  OBVIOUS
<1> DEFINE s == d.peer
<1>1. d.num \in Seqs /\ Line(d) \in Lines /\ LineOK(s, d.num, Line(d))
  BY DEF DeliverPackets, PacketOK, Line, Lines, LineOK
<1>2. CASE d.num \in delivered[s]
  <2>1. shown[s] \in Seq(Lines) /\ d.num \in 1..Len(shown[s])
    BY <1>2 DEF SubInv, SubTypeOK
  <2>2. shown[s][d.num] \in Lines /\ LineOK(s, d.num, shown[s][d.num])
    BY <2>1, ShownLines
  <2>3. shown[s][d.num] = Line(d)
    BY <1>1, <2>2, UniqueLine
  <2> QED
    BY <2>1, <2>3 DEF Holds, Elems
<1>3. CASE d.num \in DOMAIN recv_buffer[s]
  <2>1. /\ recv_buffer[s][d.num] \in Lines
        /\ LineOK(s, d.num, recv_buffer[s][d.num])
    BY <1>3 DEF SubTypeOK, SubInv
  <2>2. recv_buffer[s][d.num] = Line(d)
    BY <1>1, <2>1, UniqueLine
  <2> QED
    BY <1>3, <2>2 DEF Holds, Elems
<1> QED
  BY <1>2, <1>3 DEF HasSeq

\* The invariant is as strong as the property.
LEMMA LossInvImplies ==
  ASSUME OneFeedEach, LossInv
  PROVE  NoSilentLoss
<1> USE DEF LossInv, OrderInv, TypeOK
<1> SUFFICES ASSUME NEW d \in forwarded, NEW s \in Subscribers, d.peer = s,
                    d \notin discarded
             PROVE  \/ \E k \in Unacked : pending[k].packet = d
                    \/ Holds(s, Line(d))
  BY DEF NoSilentLoss
<1>1. d \in DeliverPackets /\ PacketOK(d)
  BY DEF BrokerTypeOK, ForwardedInv
<1>2. CASE PendingKey(d.num, d.peer) \in Unacked
  <2> DEFINE k == PendingKey(d.num, d.peer)
  <2>1. k \in DOMAIN pending
    BY <1>2 DEF Unacked
  <2>2. /\ pending[k].packet \in DeliverPackets /\ PacketOK(pending[k].packet)
        /\ PendingKey(pending[k].packet.num, pending[k].packet.peer) = k
    BY <2>1 DEF BrokerTypeOK, PendingDelivery, BrokerInv
  <2>3. pending[k].packet = d
    BY <1>1, <2>2, UniqueDelivery DEF PendingKey
  <2> QED
    BY <1>2, <2>3
<1>3. CASE HasSeq(d.peer, d.num)
  BY <1>1, <1>3, HeldLine
<1> QED
  BY <1>2, <1>3 DEF ForwardedInv

\* A subscriber that takes a DELIVER has its number afterwards, and nobody
\* forgets a number.
LEMMA HasSeqTaken ==
  ASSUME TypeOK, NEW s \in Subscribers, NEW pkt \in net, RecvDeliver(s, pkt)
  PROVE  /\ \A r \in Subscribers : \A n : HasSeq(r, n) => HasSeq(r, n)'
         /\ HasSeq(s, pkt.num)'
<1>1. CASE pkt.num \in delivered[s]
  BY <1>1 DEF RecvDeliver, HasSeq
<1>2. CASE pkt.num \notin delivered[s]
  <2> DEFINE buf == Stored(recv_buffer[s], pkt.num, Line(pkt))
             end == DrainEnd(buf, next_seq[s])
  <2>1. DOMAIN buf = DOMAIN recv_buffer[s] \cup {pkt.num}
    BY DEF Stored
  <2>2. Drain(s, buf)
    BY <1>2 DEF RecvDeliver
  <2> HIDE DEF buf
  <2>3. /\ delivered' = [delivered EXCEPT ![s] = @ \cup next_seq[s]..(end - 1)]
        /\ recv_buffer' = [recv_buffer EXCEPT
             ![s] = [k \in DOMAIN buf \ (next_seq[s]..(end - 1)) |-> buf[k]]]
    BY <2>2 DEF Drain
  <2> HIDE DEF end
  <2>4. /\ delivered'[s] = delivered[s] \cup next_seq[s]..(end - 1)
        /\ DOMAIN recv_buffer'[s] = DOMAIN buf \ (next_seq[s]..(end - 1))
        /\ \A r \in Subscribers \ {s} :
             delivered'[r] = delivered[r] /\ recv_buffer'[r] = recv_buffer[r]
    BY <2>3 DEF TypeOK, SubTypeOK
  <2> QED
    BY <2>1, <2>4 DEF HasSeq
<1> QED
  BY <1>1, <1>2

\* A subscriber forgets no number, whatever step is taken.
LEMMA HasSeqStays ==
  ASSUME TypeOK, SubscriberNext
  PROVE  \A s \in Subscribers : \A n : HasSeq(s, n) => HasSeq(s, n)'
<1>1. ASSUME UNCHANGED <<recv_buffer, delivered>>
      PROVE  \A s \in Subscribers : \A n : HasSeq(s, n) => HasSeq(s, n)'
  BY <1>1 DEF HasSeq
<1> QED
  BY <1>1, HasSeqTaken DEF SubscriberNext, SubSend, SubStep, SubTimeout, SubReceive,
     ListenStep, RecvOther, Close, subVars

\* The initial state: nothing forwarded, nothing acknowledged.
LEMMA LossInit == Init => LossInv
<1> SUFFICES ASSUME Init PROVE LossInv
  OBVIOUS
<1>1. AckInv
  BY DEF Init, NetInit, BrokerInit, AckInv
<1>2. ForwardedInv
  BY DEF Init, BrokerInit, ForwardedInv
<1> QED
  BY <1>1, <1>2, OrderInit DEF LossInv

\* AckInv and ForwardedInv survive a step that leaves the broker's tables
\* alone, when the subscribers forget nothing and the SUB_ACKs it adds to the
\* network are for what their sender has.
LEMMA LossKept ==
  ASSUME LossInv, UNCHANGED <<pending, forwarded, discarded>>,
         \A s \in Subscribers : \A n : HasSeq(s, n) => HasSeq(s, n)',
         \A pkt \in net' \ net : pkt.type = "SUB_ACK" =>
           \E s \in Subscribers : pkt.peer = SeenAs[s] /\ HasSeq(s, pkt.num)'
  PROVE  AckInv' /\ ForwardedInv'
<1>1. ASSUME NEW pkt \in net', pkt.type = "SUB_ACK"
      PROVE  /\ \E s \in Subscribers : pkt.peer = SeenAs[s]
             /\ \A s \in Subscribers : pkt.peer = SeenAs[s] => HasSeq(s, pkt.num)'
  <2>1. CASE pkt \in net
    BY <1>1, <2>1 DEF LossInv, AckInv
  <2>2. CASE pkt \notin net
    <3>1. PICK s \in Subscribers : pkt.peer = SeenAs[s] /\ HasSeq(s, pkt.num)'
      BY <1>1, <2>2
    <3>2. \A r \in Subscribers : pkt.peer = SeenAs[r] => r = s
      BY <3>1, QuicAssumption
    <3> QED
      BY <3>1, <3>2
  <2> QED
    BY <2>1, <2>2
<1>2. \A k \in DOMAIN pending : k[2] \in Subscribers
  <2>1. \A k \in DOMAIN pending : k[2] = pending[k].packet.peer
                                    /\ pending[k].packet \in DeliverPackets
    BY DEF LossInv, OrderInv, TypeOK, BrokerTypeOK, PendingDelivery, BrokerInv,
       PendingKey
  <2> QED
    BY <2>1 DEF LossInv, OrderInv, BrokerInv, PacketOK, Wanted, DeliverPackets
<1>3. \A d \in forwarded : d.peer \in Subscribers
  BY DEF LossInv, OrderInv, TypeOK, BrokerTypeOK, ForwardedInv, PacketOK, Wanted,
     DeliverPackets
<1>4. AckInv'
  BY <1>1, <1>2 DEF LossInv, AckInv
<1>5. ForwardedInv'
  BY <1>3 DEF LossInv, ForwardedInv, Unacked, PacketOK
<1> QED
  BY <1>4, <1>5

\* The three broker steps that write the table of pending deliveries.
LEMMA LossForward ==
  ASSUME LossInv, Forward, UNCHANGED <<pubVars, subVars>>
  PROVE  AckInv' /\ ForwardedInv'
<1> USE DEF LossInv, OrderInv, TypeOK
<1>1. /\ pub_loop.pkt \in PublishPackets
      /\ \A a \in Elems(pub_loop.targets) :
           /\ a \in Addresses
           /\ PacketOK(DeliveryTo(a))
           /\ DeliveryTo(a).num = pub_loop.pkt.num /\ DeliveryTo(a).peer = a
  BY DeliveriesOK DEF Forward
<1>2. \A s \in Subscribers : \A n : HasSeq(s, n)' = HasSeq(s, n)
  BY DEF HasSeq, subVars
<1>3. \A pkt \in net' : pkt.type = "SUB_ACK" => pkt \in net
  BY DEF Forward, Transmit, Deliveries, DeliveryTo, Deliver
<1> DEFINE fresh == {PendingKey(pub_loop.pkt.num, a) : a \in Elems(pub_loop.targets)}
<1>4. /\ DOMAIN pending' = DOMAIN pending \cup fresh
      /\ \A k \in fresh : ~pending'[k].acked
      /\ \A k \in DOMAIN pending \ fresh : pending'[k] = pending[k]
  BY DEF Forward, Registered
<1>5. AckInv'
  <2>1. \A k \in DOMAIN pending' : pending'[k].acked =>
          k \in DOMAIN pending /\ pending[k].acked
    BY <1>4
  <2>2. \A k \in DOMAIN pending : HasSeq(k[2], k[1])' = HasSeq(k[2], k[1])
    BY DEF HasSeq, subVars
  <2> QED
    BY <1>2, <1>3, <2>1, <2>2 DEF AckInv
<1>6. ForwardedInv'
  <2>1. ASSUME NEW d \in Deliveries
        PROVE  PacketOK(d) /\ PendingKey(d.num, d.peer) \in Unacked'
    <3>1. PICK a \in Elems(pub_loop.targets) : d = DeliveryTo(a)
      BY DEF Deliveries
    <3>2. PendingKey(d.num, d.peer) \in fresh
      BY <1>1, <3>1
    <3> QED
      BY <1>1, <1>4, <3>1, <3>2 DEF Unacked
  <2>2. Unacked \subseteq Unacked'
    BY <1>4 DEF Unacked
  <2>3. \A d \in forwarded : HasSeq(d.peer, d.num)' = HasSeq(d.peer, d.num)
    BY DEF HasSeq, subVars
  <2> QED
    BY <2>1, <2>2, <2>3 DEF ForwardedInv, Forward, PendingKey, PacketOK
<1> QED
  BY <1>5, <1>6

\* A SUB_ACK that settles a delivery is from one who has its event.
LEMMA LossSubAck ==
  ASSUME NoAlias, LossInv, NEW pkt \in net, RecvSubAck(pkt),
         UNCHANGED <<pubVars, subVars>>
  PROVE  AckInv' /\ ForwardedInv'
<1> USE DEF LossInv, OrderInv, TypeOK
<1> DEFINE key == AckedKey(pkt)
<1>1. \A s, n : HasSeq(s, n)' = HasSeq(s, n)
  BY DEF HasSeq, subVars
<1>2. net' \subseteq net
  BY DEF RecvSubAck, Exchange
<1>3. /\ DOMAIN pending' = DOMAIN pending
      /\ \A k \in DOMAIN pending : k # key => pending'[k] = pending[k]
  BY DEF RecvSubAck
<1>4. key \in DOMAIN pending => HasSeq(key[2], key[1])
  <2> SUFFICES ASSUME key \in DOMAIN pending PROVE HasSeq(key[2], key[1])
    OBVIOUS
  <2>1. key[1] = pkt.num /\ key[2] = pkt.peer
    BY DEF AckedKey, PendingKey
  <2>2. pkt.peer = pending[key].packet.peer /\ pending[key].packet \in DeliverPackets
    BY <2>1 DEF BrokerTypeOK, PendingDelivery, BrokerInv, PendingKey
  <2>3. pkt.peer \in Subscribers
    BY <2>2 DEF BrokerInv, PacketOK, Wanted, DeliverPackets
  <2>4. PICK s \in Subscribers : pkt.peer = SeenAs[s]
    BY DEF RecvSubAck, AckInv
  <2>5. pkt.peer = s
    BY <2>3, <2>4 DEF NoAlias
  <2> QED
    BY <2>1, <2>4, <2>5 DEF RecvSubAck, AckInv
<1>5. AckInv'
  BY <1>1, <1>2, <1>3, <1>4 DEF AckInv
<1>6. ForwardedInv'
  <2>1. \A k \in Unacked : k \in Unacked' \/ HasSeq(k[2], k[1])
    BY <1>3, <1>4 DEF Unacked
  <2>2. \A d \in forwarded : PendingKey(d.num, d.peer) \in Unacked =>
          PendingKey(d.num, d.peer) \in Unacked' \/ HasSeq(d.peer, d.num)
    BY <2>1 DEF PendingKey
  <2> QED
    BY <1>1, <2>2 DEF ForwardedInv, RecvSubAck, PacketOK
<1> QED
  BY <1>5, <1>6

\* A pass of retransmit_loop forgets only what is acknowledged or given up.
LEMMA LossSweep ==
  ASSUME OneFeedEach, LossInv, NEW due \in SUBSET Unacked, Sweep(due),
         UNCHANGED <<pubVars, subVars>>
  PROVE  AckInv' /\ ForwardedInv'
<1> USE DEF LossInv, OrderInv, TypeOK
<1> DEFINE resent == {k \in due : ~Exhausted(k)}
           given_up == due \ resent
           kept == Unacked \ given_up
<1>1. \A s, n : HasSeq(s, n)' = HasSeq(s, n)
  BY DEF HasSeq, subVars
<1>2. \A k \in Unacked :
        /\ k \in DOMAIN pending /\ ~pending[k].acked
        /\ pending[k] \in PendingDelivery
        /\ pending[k].packet \in DeliverPackets /\ PacketOK(pending[k].packet)
        /\ PendingKey(pending[k].packet.num, pending[k].packet.peer) = k
  BY DEF Unacked, BrokerTypeOK, PendingDelivery, BrokerInv
<1>3. \A pkt \in net' : pkt.type = "SUB_ACK" => pkt \in net
  BY <1>2 DEF Sweep, Transmit, DeliverPackets
<1>4. DOMAIN pending' = kept /\ \A k \in kept : ~pending'[k].acked
  BY <1>2 DEF Sweep, Again, PendingDelivery
<1>5. AckInv'
  BY <1>1, <1>3, <1>4 DEF AckInv
<1>6. ForwardedInv'
  <2> SUFFICES ASSUME NEW d \in forwarded, PendingKey(d.num, d.peer) \in Unacked
               PROVE  PendingKey(d.num, d.peer) \in Unacked' \/ d \in discarded'
    BY <1>1 DEF ForwardedInv, Sweep, PacketOK
  <2> DEFINE k == PendingKey(d.num, d.peer)
  <2>1. pending[k].packet = d
    BY <1>2, UniqueDelivery DEF PendingKey, ForwardedInv, BrokerTypeOK
  <2>2. CASE k \in given_up
    BY <2>1, <2>2 DEF Sweep
  <2>3. CASE k \notin given_up
    BY <1>4, <2>3 DEF Unacked
  <2> QED
    BY <2>2, <2>3
<1> QED
  BY <1>5, <1>6

\* The broker that starts again has forwarded nothing, and the SUB_ACKs it may
\* receive for the one before are from subscribers that have the event.
LEMMA LossRestart ==
  ASSUME LossInv, Restart, UNCHANGED <<pubVars, subVars>>
  PROVE  AckInv' /\ ForwardedInv'
<1>1. \A s, n : HasSeq(s, n)' = HasSeq(s, n)
  BY DEF HasSeq, subVars
<1>2. net' \subseteq net
  BY DEF Restart, Refuse
<1>3. AckInv'
  BY <1>1, <1>2 DEF LossInv, AckInv, Restart
<1>4. ForwardedInv'
  BY DEF ForwardedInv, Restart
<1> QED
  BY <1>3, <1>4

\* LossInv is inductive.
LEMMA LossStep ==
  ASSUME OneFeedEach, NoAlias
  PROVE  LossInv /\ [Next]_vars => LossInv'
<1> SUFFICES ASSUME LossInv, [Next]_vars PROVE LossInv'
  OBVIOUS
<1> USE DEF LossInv
<1>1. OrderInv'
  BY OrderStep
<1>2. ASSUME UNCHANGED subVars
      PROVE  \A s \in Subscribers : \A n : HasSeq(s, n) => HasSeq(s, n)'
  BY <1>2 DEF HasSeq, subVars
<1>3. CASE PublisherNext
  <2>1. \A pkt \in net' \ net : pkt.type # "SUB_ACK"
    BY <1>3 DEF PublisherNext, PubSend, PubStep, PubTimeout, PubReceive,
       Transmit, Exchange, Publish
  <2> QED
    BY <1>1, <1>2, <1>3, <2>1, LossKept DEF PublisherNext, brokerVars
<1>4. CASE BrokerNext
  <2>1. UNCHANGED <<pubVars, subVars>>
    BY <1>4 DEF BrokerNext
  <2>2. CASE Forward
    BY <1>1, <2>1, <2>2, LossForward
  <2>3. CASE \E pkt \in net : RecvSubAck(pkt)
    BY <1>1, <2>1, <2>3, LossSubAck
  <2>4. CASE RetransmitStep
    BY <1>1, <2>1, <2>4, LossSweep DEF RetransmitStep
  <2>5. CASE AckPublish \/ \E pkt \in net : RecvPublish(pkt) \/ RecvSubscribe(pkt)
    <3>1. \A pkt \in net' \ net : pkt.type # "SUB_ACK"
      BY <2>5 DEF AckPublish, RecvPublish, RecvSubscribe, Transmit, Exchange, Ack
    <3>2. UNCHANGED <<pending, forwarded, discarded>>
      BY <2>5 DEF AckPublish, RecvPublish, RecvSubscribe
    <3> QED
      BY <1>1, <1>2, <2>1, <3>1, <3>2, LossKept
  <2>6. CASE Restart
    BY <1>1, <2>1, <2>6, LossRestart
  <2> QED
    BY <1>4, <2>2, <2>3, <2>4, <2>5, <2>6 DEF BrokerNext, PubSocketStep, SubSocketStep
<1>5. CASE SubscriberNext
  <2>1. /\ \A s \in Subscribers : \A n : HasSeq(s, n) => HasSeq(s, n)'
        /\ \A s \in Subscribers : \A pkt \in net :
             RecvDeliver(s, pkt) => HasSeq(s, pkt.num)'
    BY <1>5, HasSeqStays, HasSeqTaken DEF OrderInv
  <2>2. ASSUME NEW pkt \in net' \ net, pkt.type = "SUB_ACK"
        PROVE  \E s \in Subscribers : pkt.peer = SeenAs[s] /\ HasSeq(s, pkt.num)'
    <3>1. PICK s \in Subscribers, m \in net :
            RecvDeliver(s, m) /\ pkt = SubAck(s, m.num, m.topic)
      BY <1>5, <2>2 DEF SubscriberNext, SubSend, SubStep, SubTimeout, SubReceive,
         ListenStep, RecvDeliver, RecvOther, Close, Transmit, Exchange, Subscribe
    <3> QED
      BY <2>1, <3>1 DEF SubAck
  <2> QED
    BY <1>1, <1>5, <2>1, <2>2, LossKept DEF SubscriberNext, brokerVars
<1>6. CASE NetworkNext \/ UNCHANGED vars
  <2>1. net' \subseteq net /\ UNCHANGED <<brokerVars, subVars>>
    BY <1>6 DEF NetworkNext, Lose, vars
  <2> QED
    BY <1>1, <1>2, <2>1, LossKept DEF brokerVars
<1> QED
  BY <1>3, <1>4, <1>5, <1>6 DEF Next

\* When every subscriber listens to one publisher, and no address is one two
\* subscribers can be taken for, a DELIVER the broker has sent is never
\* forgotten: it is still retransmitted, or its subscriber holds the event,
\* or the broker has reported the loss.  Any number of publishers, whose
\* numbers coincide, of subscribers and of matches, and any network.
THEOREM LossReported ==
  ASSUME OneFeedEach, NoAlias
  PROVE  Spec => []NoSilentLoss
<1>1. Init => LossInv
  BY LossInit
<1>2. LossInv /\ [Next]_vars => LossInv'
  BY LossStep
<1>3. LossInv => NoSilentLoss
  BY LossInvImplies
<1> QED
  BY <1>1, <1>2, <1>3, PTL DEF Spec

\* When every subscriber listens to one publisher, of any number of them, the
\* duplicate filter loses nothing, whatever the network: the line of a DELIVER
\* a listening subscriber acknowledged is shown or kept for showing.
THEOREM FilterIsExact ==
  ASSUME OneFeedEach
  PROVE  Spec => DropsOnlyDuplicates
<1>1. OrderInv /\ OrderInv' /\ [Next]_vars =>
        [\A s \in Subscribers, pkt \in net :
           RecvDeliver(s, pkt) => Holds(s, Line(pkt))']_vars
  <2> SUFFICES ASSUME OrderInv, OrderInv', Next, NEW s \in Subscribers,
                      NEW pkt \in net, RecvDeliver(s, pkt)
               PROVE  Holds(s, Line(pkt))'
    BY DEF vars
  <2>1. pkt \in DeliverPackets /\ PacketOK(pkt) /\ pkt.peer = s
    BY PacketKinds DEF RecvDeliver, For, OrderInv, TypeOK, NetInv
  <2>2. HasSeq(s, pkt.num)'
    BY HasSeqTaken DEF OrderInv
  <2>3. (OneFeedEach /\ OrderInv =>
           \A d \in DeliverPackets :
             PacketOK(d) /\ d.peer \in Subscribers /\ HasSeq(d.peer, d.num)
               => Holds(d.peer, Line(d)))'
    BY HeldLine, PTL
  <2> QED
    BY <2>1, <2>2, <2>3 DEF OneFeedEach
<1> QED
  BY <1>1, OrderInvariant, PTL DEF Spec, DropsOnlyDuplicates
=============================================================================
