-------------------------- MODULE QuicFeed_proofs --------------------------
(***************************************************************************)
(* Theorems about one match with one publisher: the lines a subscriber     *)
(* shows are a prefix of the feed, so that QuicSystem implements PubSub.   *)
(***************************************************************************)
EXTENDS QuicSystem_proofs, SequenceTheorems

---------------------------------------------------------------------------
(* The feed. *)

\* The one publisher, when there is one.
LEMMA PublisherNamed ==
  ASSUME OnePublisher, Publishers # {}
  PROVE  ThePublisher \in Publishers /\ \A p \in Publishers : p = ThePublisher
BY DEF ThePublisher, OnePublisher

\* The feed is no longer than the publisher's list of events.
LEMMA AnnouncedType ==
  TypeOK /\ ThePublisher \in Publishers => Announced \in 0..NumEvents
<1> SUFFICES ASSUME TypeOK, ThePublisher \in Publishers
             PROVE  Announced \in 0..NumEvents
  OBVIOUS
<1>1. /\ NumEvents \in Nat /\ pub[ThePublisher].seq \in 1..(NumEvents + 1)
      /\ pub[ThePublisher].pc # "done" => pub[ThePublisher].seq \in 1..NumEvents
  BY QuicAssumption DEF TypeOK, PubTypeOK, Seqs
<1> QED
  BY <1>1 DEF Announced

\* The feed depends on nothing but the publisher.
LEMMA AnnouncedKept ==
  ASSUME UNCHANGED pub
  PROVE  Announced' = Announced
BY DEF Announced

\* Sending an event for the first time makes the feed one longer.
LEMMA AnnouncedSent ==
  ASSUME TypeOK, ThePublisher \in Publishers, PubSend(ThePublisher)
  PROVE  /\ Announced' = pub[ThePublisher].seq
         /\ Announced' = Announced \/ Announced' = Announced + 1
<1> DEFINE p == ThePublisher
<1>1. /\ pub[p].pc = "send" /\ pub'[p].pc = "wait" /\ pub'[p].seq = pub[p].seq
      /\ pub[p].seq \in Nat
  BY QuicAssumption DEF PubSend, TypeOK, PubTypeOK, Seqs
<1> HIDE DEF p
<1>2. Announced' = pub[p].seq
  BY <1>1 DEF Announced, p
<1>3. Announced = pub[p].seq \/ Announced = pub[p].seq - 1
  BY DEF Announced, p
<1> QED
  BY <1>1, <1>2, <1>3 DEF p

\* Waiting, trying again and moving on to the next event leave the feed alone.
LEMMA AnnouncedWaits ==
  ASSUME TypeOK, ThePublisher \in Publishers, PubStep(ThePublisher)
  PROVE  Announced' = Announced
<1> DEFINE p == ThePublisher
<1>1. /\ pub[p].pc = "wait" /\ pub[p].seq \in Nat /\ pub[p].attempt \in Nat
      /\ pub \in [Publishers -> [pc : {"send", "wait", "done"}, seq : 1..(NumEvents + 1),
                                 attempt : 0..SendRetries]]
  BY QuicAssumption DEF PubStep, PubTimeout, PubReceive, TypeOK, PubTypeOK, Seqs
<1>2. Announced = pub[p].seq
  BY <1>1 DEF Announced
<1>3. CASE NextEvent(p)
  <2>1. pub'[p] = [pc |-> IF pub[p].seq = NumEvents THEN "done" ELSE "send",
                   seq |-> pub[p].seq + 1, attempt |-> 0]
    BY <1>1, <1>3 DEF NextEvent
  <2>2. /\ pub'[p].pc = "done" \/ pub'[p].pc = "send"
        /\ pub'[p].seq = pub[p].seq + 1 /\ pub'[p].attempt = 0
    BY <2>1
  <2> QED
    BY <1>1, <1>2, <2>2 DEF Announced
<1>4. CASE pub' = [pub EXCEPT ![p].pc = "send", ![p].attempt = @ + 1]
  <2>1. /\ pub'[p].pc = "send" /\ pub'[p].seq = pub[p].seq
        /\ pub'[p].attempt = pub[p].attempt + 1
    BY <1>1, <1>4
  <2> QED
    BY <1>1, <1>2, <2>1 DEF Announced
<1> QED
  BY <1>3, <1>4 DEF PubStep, PubTimeout, PubReceive, Retry
---------------------------------------------------------------------------
(* FeedInv is inductive: numbers come from the publisher.                  *)

\* The numbers FeedInv compares are numbers.
LEMMA NumbersTyped ==
  ASSUME TypeOK
  PROVE  /\ \A x \in net : x.type \in {"PUBLISH", "DELIVER"} => x.num \in Nat
         /\ pub_loop.pc # "recv" => pub_loop.pkt.num \in Nat
         /\ \A k \in DOMAIN pending : pending[k].packet.num \in Nat
         /\ \A s \in Subscribers :
              next_seq[s] \in Nat /\ \A k \in DOMAIN recv_buffer[s] : k \in Nat
<1>1. \A n \in Seqs : n \in Nat
  BY QuicAssumption DEF Seqs
<1>2. \A x \in net : x.type \in {"PUBLISH", "DELIVER"} => x.num \in Nat
  BY <1>1, PacketKinds, PublishFields DEF TypeOK, DeliverPackets
<1>3. pub_loop.pc # "recv" => pub_loop.pkt.num \in Nat
  BY <1>1, PublishFields DEF TypeOK, BrokerTypeOK, Idle
<1>4. \A k \in DOMAIN pending : pending[k].packet.num \in Nat
  BY <1>1 DEF TypeOK, BrokerTypeOK, PendingDelivery, DeliverPackets
<1>5. \A s \in Subscribers :
        next_seq[s] \in Nat /\ \A k \in DOMAIN recv_buffer[s] : k \in Nat
  BY <1>1, QuicAssumption DEF TypeOK, SubTypeOK
<1> QED
  BY <1>2, <1>3, <1>4, <1>5

\* Nothing new of the three is numbered past the feed, which grows.
LEMMA FeedNetKept ==
  ASSUME TypeOK, FeedInv, Announced \in Nat, Announced' \in Nat,
         Announced <= Announced',
         \A x \in net' \ net : x.type \in {"PUBLISH", "DELIVER"} => x.num <= Announced'
  PROVE  \A x \in net' : x.type \in {"PUBLISH", "DELIVER"} => x.num <= Announced'
BY NumbersTyped DEF FeedInv

\* At first nothing is numbered at all.
LEMMA FeedInit ==
  ASSUME Init, ThePublisher \in Publishers
  PROVE  FeedInv
<1>1. Announced \in Nat
  BY InitTyped, AnnouncedType, QuicAssumption
<1> QED
  BY <1>1 DEF Init, NetInit, BrokerInit, SubInit, Idle, FeedInv

\* The publisher numbers its events in the order it sends them.
LEMMA FeedPublisher ==
  ASSUME TypeOK, TypeOK', FeedInv, PublisherNext, OnePublisher, Publishers # {}
  PROVE  FeedInv' /\ Announced' \in {Announced, Announced + 1}
<1> DEFINE p == ThePublisher
<1>1. p \in Publishers /\ \A q \in Publishers : q = p
  BY PublisherNamed
<1>2. Announced \in Nat /\ Announced' \in Nat
  <2>1. Announced \in 0..NumEvents
    BY <1>1, AnnouncedType
  <2>2. Announced' \in {Announced, Announced + 1}
    BY <1>1, AnnouncedSent, AnnouncedWaits DEF PublisherNext
  <2> QED
    BY <2>1, <2>2, QuicAssumption
<1>3. Announced' \in {Announced, Announced + 1}
  BY <1>1, AnnouncedSent, AnnouncedWaits DEF PublisherNext
<1>4. \A x \in net' \ net : x.type \in {"PUBLISH", "DELIVER"} => x.num <= Announced'
  <2>1. CASE PubSend(p)
    <3>1. net' = net \cup {Publish(p, pub[p].seq)} /\ Announced' = pub[p].seq
      BY <1>1, <2>1, AnnouncedSent DEF PubSend, Transmit
    <3>2. Publish(p, pub[p].seq).num = pub[p].seq
      BY DEF Publish
    <3> QED
      BY <1>2, <3>1, <3>2
  <2>2. CASE PubStep(p)
    BY <2>2 DEF PubStep, PubTimeout, PubReceive, Exchange
  <2> QED
    BY <1>1, <2>1, <2>2 DEF PublisherNext
<1>5. \A x \in net' : x.type \in {"PUBLISH", "DELIVER"} => x.num <= Announced'
  BY <1>2, <1>3, <1>4, FeedNetKept
<1>6. UNCHANGED <<pub_loop, pending, next_seq, recv_buffer>>
  BY DEF PublisherNext, brokerVars, subVars
<1> QED
  BY <1>2, <1>3, <1>5, <1>6, NumbersTyped DEF FeedInv

\* The broker copies numbers: from the PUBLISH to its deliveries, from the
\* table to what it sends again.
LEMMA FeedBroker ==
  ASSUME OrderInv, FeedInv, BrokerNext, ThePublisher \in Publishers
  PROVE  FeedInv'
<1> USE DEF OrderInv, TypeOK
<1>1. Announced' = Announced /\ Announced \in Nat
  BY AnnouncedKept, AnnouncedType, QuicAssumption DEF BrokerNext, pubVars
<1>2. UNCHANGED <<next_seq, recv_buffer>>
  BY DEF BrokerNext, subVars
<1> DEFINE Late(x) == x.type \in {"PUBLISH", "DELIVER"} => x.num <= Announced
           Kept == /\ \A x \in net' \ net : Late(x)
                   /\ pub_loop'.pc # "recv" => pub_loop'.pkt.num <= Announced
                   /\ \A k \in DOMAIN pending' : pending'[k].packet.num <= Announced
<1> SUFFICES Kept
  BY <1>1, <1>2, FeedNetKept DEF FeedInv
<1>3. ASSUME NEW pkt \in net, RecvPublish(pkt)
      PROVE  Kept
  BY <1>3 DEF RecvPublish, Exchange, FeedInv
<1>4. ASSUME Forward
      PROVE  Kept
  <2>1. pub_loop.pkt.num <= Announced /\ pub_loop'.pkt = pub_loop.pkt
    BY <1>4 DEF Forward, FeedInv, BrokerTypeOK, Idle
  <2>2. \A a : DeliveryTo(a).num = pub_loop.pkt.num
    BY DEF DeliveryTo, Deliver
  <2>3. \A x \in net' \ net : Late(x)
    BY <1>4, <2>1, <2>2 DEF Forward, Transmit, Deliveries
  <2>4. \A k \in DOMAIN pending' : pending'[k].packet.num <= Announced
    BY <1>4, <2>1, <2>2 DEF Forward, Registered, FeedInv
  <2> QED
    BY <2>1, <2>3, <2>4
<1>5. ASSUME AckPublish
      PROVE  Kept
  BY <1>5 DEF AckPublish, Transmit, Ack, Idle, FeedInv
<1>6. ASSUME NEW pkt \in net, RecvSubscribe(pkt)
      PROVE  Kept
  BY <1>6 DEF RecvSubscribe, Exchange, Ack, FeedInv
<1>7. ASSUME NEW pkt \in net, RecvSubAck(pkt)
      PROVE  Kept
  <2>1. DOMAIN pending' = DOMAIN pending
        /\ \A k \in DOMAIN pending : pending'[k].packet = pending[k].packet
    BY <1>7 DEF RecvSubAck, BrokerTypeOK, PendingDelivery
  <2> QED
    BY <1>7, <2>1 DEF RecvSubAck, Exchange, FeedInv
<1>8. ASSUME NEW due \in SUBSET Unacked, Sweep(due)
      PROVE  Kept
  <2>1. \A k \in DOMAIN pending' :
          k \in DOMAIN pending /\ pending'[k].packet = pending[k].packet
    BY <1>8 DEF Sweep, Unacked, Again, BrokerTypeOK, PendingDelivery
  <2>2. \A x \in net' \ net : \E k \in DOMAIN pending : x = pending[k].packet
    BY <1>8 DEF Sweep, Unacked, Transmit
  <2> QED
    BY <1>8, <2>1, <2>2 DEF Sweep, FeedInv
<1>9. ASSUME Restart
      PROVE  Kept
  BY <1>9 DEF Restart, Refuse, Idle
<1> QED
  BY <1>3, <1>4, <1>5, <1>6, <1>7, <1>8, <1>9
  DEF BrokerNext, PubSocketStep, SubSocketStep, RetransmitStep
\* A subscriber stores a DELIVER under its number and shows what it stored.
LEMMA FeedSubscriber ==
  ASSUME OrderInv, OrderInv', FeedInv, SubscriberNext, ThePublisher \in Publishers
  PROVE  FeedInv'
<1> USE DEF OrderInv, TypeOK
<1>1. Announced' = Announced /\ Announced \in Nat
  BY AnnouncedKept, AnnouncedType, QuicAssumption DEF SubscriberNext, pubVars
<1>2. UNCHANGED <<pub_loop, pending>>
  BY DEF SubscriberNext, brokerVars
<1>3. \A x \in net' \ net : x.type \notin {"PUBLISH", "DELIVER"}
  BY DEF SubscriberNext, SubSend, SubStep, SubTimeout, SubReceive, ListenStep,
         RecvDeliver, RecvOther, Close, Transmit, Exchange, Subscribe, SubAck
<1> DEFINE Kept == \A s \in Subscribers :
                     /\ next_seq'[s] - 1 <= Announced
                     /\ \A k \in DOMAIN recv_buffer'[s] : k <= Announced
<1>4. ASSUME UNCHANGED <<next_seq, recv_buffer>>
      PROVE  Kept
  BY <1>4 DEF FeedInv
<1>5. ASSUME NEW s \in Subscribers, NEW pkt \in net, RecvDeliver(s, pkt)
      PROVE  Kept
  <2>1. CASE pkt.num \in delivered[s]
    BY <1>4, <1>5, <2>1 DEF RecvDeliver
  <2>2. CASE pkt.num \notin delivered[s]
    <3> DEFINE buf == Stored(recv_buffer[s], pkt.num, Line(pkt))
               end == DrainEnd(buf, next_seq[s])
    <3>1. /\ DOMAIN buf = DOMAIN recv_buffer[s] \cup {pkt.num}
          /\ pkt.num \in Seqs /\ pkt.num <= Announced
      BY <1>5, PacketKinds DEF RecvDeliver, DeliverPackets, Stored, FeedInv
    <3>2. next_seq[s] \in 1..(NumEvents + 1) /\ next_seq[s] - 1 <= Announced
      BY DEF SubTypeOK, FeedInv
    <3>3. \A k \in DOMAIN buf : k <= Announced
      BY <3>1 DEF FeedInv
    <3>4. DOMAIN buf \subseteq Seqs
      BY <3>1 DEF SubTypeOK
    <3>5. Drain(s, buf)
      BY <1>5, <2>2 DEF RecvDeliver
    <3> HIDE DEF buf
    <3>6. end \in next_seq[s]..(NumEvents + 1) /\ next_seq[s]..(end - 1) \subseteq DOMAIN buf
      BY <3>2, <3>4, DrainEndFound
    <3>7. /\ next_seq' = [next_seq EXCEPT ![s] = end]
          /\ recv_buffer' = [recv_buffer EXCEPT
               ![s] = [k \in DOMAIN buf \ (next_seq[s]..(end - 1)) |-> buf[k]]]
      BY <3>5 DEF Drain
    <3> HIDE DEF end
    <3>8. end - 1 <= Announced
      <4>1. CASE end = next_seq[s]
        BY <3>2, <4>1
      <4>2. CASE end # next_seq[s]
        <5>1. end - 1 \in next_seq[s]..(end - 1)
          BY <3>2, <3>6, <4>2, QuicAssumption
        <5> QED
          BY <3>3, <3>6, <5>1
      <4> QED
        BY <4>1, <4>2
    <3>9. /\ next_seq'[s] = end /\ DOMAIN recv_buffer'[s] \subseteq DOMAIN buf
          /\ \A r \in Subscribers \ {s} :
               next_seq'[r] = next_seq[r] /\ recv_buffer'[r] = recv_buffer[r]
      BY <3>7 DEF SubTypeOK
    <3> QED
      BY <3>3, <3>8, <3>9 DEF FeedInv
  <2> QED
    BY <2>1, <2>2
<1>6. Kept
  BY <1>4, <1>5 DEF SubscriberNext, SubSend, SubStep, SubTimeout, SubReceive,
     ListenStep, RecvOther, Close, subVars
<1> QED
  BY <1>1, <1>2, <1>3, <1>6, FeedNetKept DEF FeedInv

\* PrefixInv is inductive, and the feed grows by one event at a time, in steps
\* of the publisher.
LEMMA FeedStep ==
  ASSUME OnePublisher, Publishers # {}, PrefixInv, [Next]_vars
  PROVE  /\ PrefixInv'
         /\ Announced' \in {Announced, Announced + 1}
         /\ Announced' # Announced => PublisherNext
<1>1. OrderInv'
  BY OrderStep DEF PrefixInv
<1>2. ThePublisher \in Publishers
  BY PublisherNamed
<1>3. CASE PublisherNext
  BY <1>1, <1>3, FeedPublisher DEF PrefixInv, OrderInv
<1>4. ASSUME UNCHANGED pubVars
      PROVE  Announced' = Announced
  BY <1>4, AnnouncedKept DEF pubVars
<1>5. CASE BrokerNext
  BY <1>1, <1>2, <1>4, <1>5, FeedBroker DEF PrefixInv, BrokerNext
<1>6. CASE SubscriberNext
  BY <1>1, <1>2, <1>4, <1>6, FeedSubscriber DEF PrefixInv, SubscriberNext
<1>7. CASE NetworkNext \/ UNCHANGED vars
  <2>1. net' \subseteq net /\ UNCHANGED <<pubVars, brokerVars, subVars>>
    BY <1>7 DEF NetworkNext, Lose, vars
  <2>2. FeedInv'
    BY <1>4, <2>1 DEF PrefixInv, FeedInv, brokerVars, subVars
  <2> QED
    BY <1>1, <1>4, <2>1, <2>2 DEF PrefixInv
<1> QED
  BY <1>3, <1>5, <1>6, <1>7 DEF Next
---------------------------------------------------------------------------
(* The refinement.  Feed!Next speaks of two values that the length of the  *)
(* feed and the number of lines each subscriber shows determine.           *)

\* The first n events of the publisher, in order.
Prefix(n) == [i \in 1..n |-> Event(ThePublisher, i)]

\* A prefix is a sequence; one event more makes the next, a cut a shorter one.
LEMMA PrefixFacts ==
  \A n \in Nat :
    /\ Len(Prefix(n)) = n
    /\ Prefix(n + 1) = Append(Prefix(n), Event(ThePublisher, n + 1))
    /\ \A m \in 0..n : SubSeq(Prefix(n), 1, m) = Prefix(m)
<1> SUFFICES ASSUME NEW n \in Nat, NEW m \in 0..n
             PROVE  /\ Len(Prefix(n)) = n
                    /\ Prefix(n + 1) = Append(Prefix(n), Event(ThePublisher, n + 1))
                    /\ SubSeq(Prefix(n), 1, m) = Prefix(m)
  OBVIOUS
<1> DEFINE S == {ThePublisher} \X Nat
<1>1. \A k \in Nat : Prefix(k) \in Seq(S) /\ Len(Prefix(k)) = k
  <2> SUFFICES ASSUME NEW k \in Nat
               PROVE  Prefix(k) \in Seq(S) /\ Len(Prefix(k)) = k
    OBVIOUS
  <2>1. \A i \in 1..k : Event(ThePublisher, i) \in S
    BY DEF Event
  <2> HIDE DEF S
  <2> QED
    BY <2>1 DEF Prefix
<1>2. \A k \in Nat : \A i \in 1..k : Prefix(k)[i] = Event(ThePublisher, i)
  BY DEF Prefix
<1>3. Event(ThePublisher, n + 1) \in S
  BY DEF Event
<1> HIDE DEF S
<1>4. Prefix(n + 1) = Append(Prefix(n), Event(ThePublisher, n + 1))
  <2> DEFINE longer == Append(Prefix(n), Event(ThePublisher, n + 1))
  <2>1. longer \in Seq(S) /\ Len(longer) = n + 1
    BY <1>1, <1>3
  <2>2. \A i \in 1..(n + 1) : longer[i] = Prefix(n + 1)[i]
    BY <1>1, <1>2, <1>3
  <2> HIDE DEF longer
  <2>3. Prefix(n + 1) = longer
    BY <1>1, <2>1, <2>2, SeqEqual
  <2> QED
    BY <2>3 DEF longer
<1>5. SubSeq(Prefix(n), 1, m) = Prefix(m)
  <2>1. SubSeq(Prefix(n), 1, m) \in Seq(S) /\ Len(SubSeq(Prefix(n), 1, m)) = m
    BY <1>1
  <2>2. \A i \in 1..m : SubSeq(Prefix(n), 1, m)[i] = Prefix(m)[i]
    BY <1>1, <1>2
  <2> QED
    BY <1>1, <2>1, <2>2, SeqEqual
<1> QED
  BY <1>1, <1>4, <1>5

\* What a subscriber has shown is a prefix, no longer than the feed.
LEMMA ShownIsPrefix ==
  OnePublisher /\ Publishers # {} /\ PrefixInv =>
    \A s \in Subscribers :
      /\ Len(shown[s]) \in Nat /\ Len(shown[s]) <= Announced
      /\ [i \in 1..Len(shown[s]) |-> shown[s][i].body] = Prefix(Len(shown[s]))
<1> SUFFICES ASSUME OnePublisher, Publishers # {}, PrefixInv, NEW s \in Subscribers
             PROVE  /\ Len(shown[s]) \in Nat /\ Len(shown[s]) <= Announced
                    /\ [i \in 1..Len(shown[s]) |-> shown[s][i].body]
                         = Prefix(Len(shown[s]))
  OBVIOUS
<1> USE DEF PrefixInv, OrderInv, TypeOK
<1>1. shown[s] \in Seq(Lines) /\ Len(shown[s]) = next_seq[s] - 1
  BY DEF SubTypeOK, SubInv
<1>2. Len(shown[s]) \in Nat /\ Len(shown[s]) <= Announced
  BY <1>1 DEF FeedInv
<1>3. ASSUME NEW i \in 1..Len(shown[s])
      PROVE  shown[s][i].body = Event(ThePublisher, i)
  <2>1. shown[s][i] \in Lines
    BY <1>1, <1>3
  <2>2. shown[s][i].body[2] = i
    BY <1>3 DEF ShownInOrder
  <2>3. \A e \in Events : e = <<e[1], e[2]>> /\ e[1] \in Publishers
    BY DEF Events
  <2>4. shown[s][i].body[1] = ThePublisher
    BY <2>1, <2>3, PublisherNamed DEF Lines
  <2> QED
    BY <2>1, <2>2, <2>3, <2>4 DEF Lines, Event
<1> QED
  BY <1>2, <1>3 DEF Prefix
\* A step of a subscriber shows it the next lines of the feed, and no step
\* takes a line back.
LEMMA LinesGrow ==
  ASSUME TypeOK, SubInv, SubInv', SubscriberNext
  PROVE  \E s \in Subscribers :
           /\ Len(shown'[s]) >= Len(shown[s])
           /\ \A r \in Subscribers \ {s} : shown'[r] = shown[r]
<1>1. \A r \in Subscribers : Len(shown[r]) \in Nat
  BY DEF TypeOK, SubTypeOK
<1>2. ASSUME NEW s \in Subscribers, UNCHANGED shown
      PROVE  /\ Len(shown'[s]) >= Len(shown[s])
             /\ \A r \in Subscribers \ {s} : shown'[r] = shown[r]
  BY <1>1, <1>2
<1>3. ASSUME NEW s \in Subscribers, NEW pkt \in net, RecvDeliver(s, pkt),
             pkt.num \notin delivered[s]
      PROVE  /\ Len(shown'[s]) >= Len(shown[s])
             /\ \A r \in Subscribers \ {s} : shown'[r] = shown[r]
  <2> DEFINE buf == Stored(recv_buffer[s], pkt.num, Line(pkt))
             end == DrainEnd(buf, next_seq[s])
             news == [i \in 1..(end - next_seq[s]) |-> buf[next_seq[s] + i - 1]]
  <2>1. DOMAIN buf \subseteq Seqs /\ next_seq[s] \in 1..(NumEvents + 1)
    BY <1>3, PacketKinds DEF RecvDeliver, DeliverPackets, Stored, TypeOK, SubTypeOK
  <2>2. Drain(s, buf)
    BY <1>3 DEF RecvDeliver
  <2> HIDE DEF buf
  <2>3. end \in next_seq[s]..(NumEvents + 1)
    BY <2>1, DrainEndFound
  <2>4. next_seq' = [next_seq EXCEPT ![s] = end] /\ shown' = [shown EXCEPT ![s] = @ \o news]
    BY <2>2 DEF Drain
  <2> HIDE DEF end, news
  <2>5. next_seq'[s] = end /\ \A r \in Subscribers \ {s} : shown'[r] = shown[r]
    BY <2>4 DEF TypeOK, SubTypeOK
  <2>6. Len(shown[s]) = next_seq[s] - 1 /\ Len(shown'[s]) = end - 1
    BY <2>5 DEF SubInv
  <2> QED
    BY <2>1, <2>3, <2>5, <2>6, QuicAssumption
<1>4. PICK s \in Subscribers : SubSend(s) \/ SubStep(s) \/ ListenStep(s) \/ Close(s)
  BY DEF SubscriberNext
<1>5. CASE UNCHANGED shown
  BY <1>2, <1>4, <1>5
<1>6. CASE ~ UNCHANGED shown
  <2>1. \E pkt \in net : RecvDeliver(s, pkt) /\ pkt.num \notin delivered[s]
    BY <1>4, <1>6 DEF SubSend, SubStep, SubTimeout, SubReceive, ListenStep,
       RecvDeliver, RecvOther, Close, subVars
  <2> QED
    BY <1>3, <2>1
<1> QED
  BY <1>5, <1>6

\* Every step appends an event to the feed, shows one subscriber the next
\* lines of it, or changes neither.
LEMMA FeedRefines ==
  ASSUME OnePublisher, Publishers # {}, PrefixInv, [Next]_vars
  PROVE  [Feed!Next]_<<[i \in 1..Announced |-> Event(ThePublisher, i)],
                       [s \in Subscribers |-> [i \in 1..Len(shown[s]) |-> shown[s][i].body]]>>
<1> DEFINE feed == [i \in 1..Announced |-> Event(ThePublisher, i)]
           read == [s \in Subscribers |-> [i \in 1..Len(shown[s]) |-> shown[s][i].body]]
<1>1. /\ PrefixInv' /\ Announced' \in {Announced, Announced + 1}
      /\ Announced' # Announced => PublisherNext
  BY FeedStep
<1>2. ThePublisher \in Publishers /\ Announced \in 0..NumEvents /\ Announced' \in 0..NumEvents
  <2>1. ThePublisher \in Publishers
    BY PublisherNamed
  <2>2. (TypeOK /\ ThePublisher \in Publishers => Announced \in 0..NumEvents)'
    BY AnnouncedType, PTL
  <2> QED
    BY <1>1, <2>1, <2>2, AnnouncedType DEF PrefixInv, OrderInv
<1>3. feed = Prefix(Announced) /\ feed' = Prefix(Announced')
  BY DEF Prefix
<1>4. read = [s \in Subscribers |-> Prefix(Len(shown[s]))]
  BY ShownIsPrefix
<1>5. /\ read' = [s \in Subscribers |-> Prefix(Len(shown'[s]))]
      /\ \A s \in Subscribers : Len(shown'[s]) \in Nat /\ Len(shown'[s]) <= Announced'
  <2>1. (OnePublisher /\ Publishers # {} /\ PrefixInv =>
           \A s \in Subscribers :
             /\ Len(shown[s]) \in Nat /\ Len(shown[s]) <= Announced
             /\ [i \in 1..Len(shown[s]) |-> shown[s][i].body] = Prefix(Len(shown[s])))'
    BY ShownIsPrefix, PTL
  <2> QED
    BY <1>1, <2>1 DEF OnePublisher
<1> HIDE DEF feed, read
<1>6. CASE Announced' = Announced + 1
  <2>1. UNCHANGED shown
    BY <1>1, <1>2, <1>6, QuicAssumption DEF PublisherNext, subVars
  <2>2. read' = read
    BY <1>4, <1>5, <2>1
  <2>3. /\ feed' = Append(feed, Event(ThePublisher, Announced + 1))
        /\ Event(ThePublisher, Announced + 1) \in Events
    <3>1. Announced \in Nat /\ Announced + 1 \in Seqs
      BY <1>2, <1>6, QuicAssumption DEF Seqs
    <3>2. Prefix(Announced + 1) = Append(Prefix(Announced), Event(ThePublisher, Announced + 1))
      BY <1>2, <3>1, PrefixFacts
    <3>3. Event(ThePublisher, Announced + 1) \in Events
      BY <1>2, <3>1 DEF Event, Events
    <3> QED
      BY <1>3, <1>6, <3>2, <3>3
  <2> QED
    BY <2>2, <2>3 DEF Feed!Next, Feed!PublishItem, feed, read
<1>7. CASE Announced' = Announced /\ SubscriberNext
  <2>1. PICK s \in Subscribers :
          /\ Len(shown'[s]) >= Len(shown[s])
          /\ \A r \in Subscribers \ {s} : shown'[r] = shown[r]
    BY <1>1, <1>7, LinesGrow DEF PrefixInv, OrderInv
  <2> DEFINE n == Len(shown'[s])
  <2>2. /\ n \in Nat /\ n <= Announced
        /\ Len(shown[s]) \in Nat /\ Len(shown[s]) <= Announced
    BY <1>5, <1>7, ShownIsPrefix
  <2>3. Len(read[s]) = Len(shown[s]) /\ Len(feed) = Announced
    <3>1. Announced \in Nat /\ \A k \in Nat : Len(Prefix(k)) = k
      BY <1>2, PrefixFacts, QuicAssumption
    <3>2. read[s] = Prefix(Len(shown[s]))
      BY <1>4
    <3> QED
      BY <1>3, <2>2, <3>1, <3>2
  <2>4. feed' = feed
    BY <1>3, <1>7
  <2>5. CASE n = Len(shown[s])
    <3>1. read' = read
      BY <1>4, <1>5, <2>1, <2>5
    <3> QED
      BY <2>4, <3>1 DEF feed, read
  <2>6. CASE n # Len(shown[s])
    <3>1. n \in (Len(read[s]) + 1)..Len(feed)
      BY <1>2, <2>1, <2>2, <2>3, <2>6
    <3>2. SubSeq(feed, 1, n) = Prefix(n)
      <4>1. Announced \in Nat /\ n \in 0..Announced
        BY <1>2, <2>2, QuicAssumption
      <4> QED
        BY <1>2, <1>3, <4>1, PrefixFacts
    <3>3. read' = [read EXCEPT ![s] = SubSeq(feed, 1, n)]
      BY <1>4, <1>5, <2>1, <3>2
    <3> QED
      BY <2>4, <3>1, <3>3 DEF Feed!Next, Feed!Show, feed, read
  <2> QED
    BY <2>5, <2>6
<1>8. CASE Announced' = Announced /\ ~ SubscriberNext
  <2>1. UNCHANGED shown
    BY <1>8 DEF Next, PublisherNext, BrokerNext, NetworkNext, vars, subVars
  <2> QED
    BY <1>3, <1>4, <1>5, <1>8, <2>1 DEF feed, read
<1> QED
  BY <1>1, <1>6, <1>7, <1>8

\* With one publisher, whatever the network, the addresses and the restarts of
\* the broker, the system implements PubSub: what a subscriber shows is at any
\* time a prefix of what the publisher has sent.
THEOREM ImplementsPubSub ==
  ASSUME OnePublisher, Publishers # {}
  PROVE  Spec => RefinesPubSub
<1>1. Init => PrefixInv
  BY OrderInit, FeedInit, PublisherNamed DEF PrefixInv
<1>2. PrefixInv /\ [Next]_vars => PrefixInv'
  BY FeedStep
<1>3. Init => Feed!Init
  <2> SUFFICES ASSUME Init PROVE Feed!Init
    OBVIOUS
  <2>1. Announced = 0
    BY PublisherNamed DEF Init, PubInit, Announced
  <2>2. [i \in 1..Announced |-> Event(ThePublisher, i)] = <<>>
    BY <2>1
  <2>3. [s \in Subscribers |-> [i \in 1..Len(shown[s]) |-> shown[s][i].body]]
          = [s \in Subscribers |-> <<>>]
    BY DEF Init, SubInit
  <2> QED
    BY <2>2, <2>3 DEF Feed!Init
<1>4. PrefixInv /\ [Next]_vars =>
        [Feed!Next]_<<[i \in 1..Announced |-> Event(ThePublisher, i)],
                      [s \in Subscribers |-> [i \in 1..Len(shown[s]) |-> shown[s][i].body]]>>
  BY FeedRefines
<1> QED
  BY <1>1, <1>2, <1>3, <1>4, PTL DEF Spec, RefinesPubSub, Feed!Spec

===========================================================================
