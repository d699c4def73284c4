---------------------------- MODULE QuicSystem ----------------------------
(***************************************************************************)
(* The QUIC-like system: publishers, broker and subscribers over one       *)
(* datagram network.  The processes share nothing but net.                 *)
(***************************************************************************)
EXTENDS QuicPublisher, QuicBroker, QuicSubscriber

CONSTANT OrderedStart
  \* TRUE: publishers are started after every subscriber has reported all of
  \* its matches as subscribed, the start order README.md asks for

ASSUME OrderedStartAssumption == OrderedStart \in BOOLEAN

vars == <<net, pubVars, brokerVars, subVars>>

Init == NetInit /\ PubInit /\ BrokerInit /\ SubInit

AllConfirmed ==
  \A s \in Subscribers : Len(subscriptions[s]) = Len(Wants[s])

MayPublish == OrderedStart => AllConfirmed

PublisherNext ==
  /\ \E p \in Publishers : (MayPublish /\ PubSend(p)) \/ PubStep(p)
  /\ UNCHANGED <<brokerVars, subVars>>

BrokerNext ==
  /\ PubSocketStep \/ SubSocketStep \/ RetransmitStep \/ Restart
  /\ UNCHANGED <<pubVars, subVars>>

SubscriberNext ==
  /\ \E s \in Subscribers : SubSend(s) \/ SubStep(s) \/ ListenStep(s) \/ Close(s)
  /\ UNCHANGED <<pubVars, brokerVars>>

NetworkNext == Lose /\ UNCHANGED <<pubVars, brokerVars, subVars>>

Next == PublisherNext \/ BrokerNext \/ SubscriberNext \/ NetworkNext

Spec == Init /\ [][Next]_vars

\* Types, and the bounds of the two retry loops.
TypeOK == net \subseteq Packets /\ PubTypeOK /\ BrokerTypeOK /\ SubTypeOK

---------------------------------------------------------------------------
(* Safety. *)

\* Whatever the network loses, repeats or reorders, the i-th line a
\* subscriber shows is the i-th event of a publisher of a match it asked
\* for: no gap, no repetition, no line of a foreign match.
ShownInOrder ==
  \A s \in Subscribers : \A i \in 1..Len(shown[s]) :
    LET line == shown[s][i]
    IN  /\ line.body[2] = i
        /\ line.topic = TopicOf[line.body[1]]
        /\ line.topic \in Elems(Wants[s])

\* Subscriber s has line, shown or waiting in its reordering buffer.
Holds(s, line) == line \in Elems(shown[s]) \cup Elems(recv_buffer[s])

\* A DELIVER the broker sent to a subscriber is never forgotten while that
\* broker runs: it still retransmits it, or the subscriber holds its event,
\* or the broker has reported giving it up.  (The table, the SUB_ACKs in
\* flight, some of them for the broker that ran before, the retransmission
\* pass and the duplicate filter must agree on what one delivery is.)
NoSilentLoss ==
  \A d \in forwarded : \A s \in Subscribers :
    d.peer = s =>
      \/ \E k \in Unacked : pending[k].packet = d
      \/ Holds(s, Line(d))
      \/ d \in discarded

\* The duplicate filter throws away duplicates only: when a subscriber has
\* dealt with a DELIVER it listened to, and acknowledged it, it has its line.
DropsOnlyDuplicates ==
  [][\A s \in Subscribers, pkt \in net :
       RecvDeliver(s, pkt) => Holds(s, Line(pkt))']_vars

\* A match reported "Suscrito a" is registered at the broker.  A broker
\* started again has forgotten it, and the subscriber is not told.
ConfirmedIsRegistered ==
  restarts = 0 =>
    \A s \in Subscribers : \A t \in Elems(subscriptions[s]) :
      s \in Elems(topic_subscribers[t])

\* However often a SUBSCRIBE is repeated, an address is listed once.
RegisteredOnce ==
  \A t \in Topics : \A i, j \in DOMAIN topic_subscribers[t] :
    topic_subscribers[t][i] = topic_subscribers[t][j] => i = j

\* With the documented start order, an event whose publisher got its ACK has
\* been sent on to every subscriber of the match: ACK means more than
\* arrival at the broker.  A restart voids both.
AckedIsForwarded ==
  OrderedStart /\ restarts = 0 =>
    \A p \in Publishers : \A n \in acked[p] : \A s \in Subscribers :
      TopicOf[p] \in Elems(Wants[s]) =>
        Deliver(s, n, TopicOf[p], Event(p, n)) \in forwarded

---------------------------------------------------------------------------
(* Refinement, with one publisher: its match is one feed.                  *)

ThePublisher == CHOOSE p \in Publishers : TRUE

\* The events handed to publish_with_ack and sent at least once.
Announced ==
  IF \/ pub[ThePublisher].pc = "send" /\ pub[ThePublisher].attempt = 0
     \/ pub[ThePublisher].pc = "done"
  THEN pub[ThePublisher].seq - 1
  ELSE pub[ThePublisher].seq

Feed == INSTANCE PubSub WITH
  Readers <- Subscribers,
  Items <- Events,
  feed <- [i \in 1..Announced |-> Event(ThePublisher, i)],
  read <- [s \in Subscribers |-> [i \in 1..Len(shown[s]) |-> shown[s][i].body]]

\* What subscribers show of a match is always a prefix of what its publisher
\* has sent so far.
RefinesPubSub == Feed!Spec

---------------------------------------------------------------------------
(* Liveness. *)

\* Every process keeps running: each blocking recvfrom has a timeout, so a
\* process returns from it with a waiting datagram or with none, and the
\* broker's three threads are scheduled independently.  Expire(k): the 100 ms
\* passes go on, so a delivery left unacknowledged is found expired.
Expire(k) == \E due \in SUBSET Unacked : k \in due /\ Sweep(due)
AsPublisher(A) == A /\ UNCHANGED <<brokerVars, subVars>>
AsBroker(A) == A /\ UNCHANGED <<pubVars, subVars>>
AsSubscriber(A) == A /\ UNCHANGED <<pubVars, brokerVars>>

Fairness ==
  /\ \A p \in Publishers :
       /\ WF_vars(AsPublisher(MayPublish /\ PubSend(p)))
       /\ WF_vars(AsPublisher(PubStep(p)))
  /\ WF_vars(AsBroker(PubSocketStep))
  /\ WF_vars(AsBroker(SubSocketStep))
  /\ WF_vars(AsBroker(RetransmitStep))
  /\ \A k \in Keys : WF_vars(AsBroker(Expire(k)))
  /\ \A s \in Subscribers :
       /\ WF_vars(AsSubscriber(SubSend(s)))
       /\ WF_vars(AsSubscriber(SubStep(s)))
       /\ WF_vars(AsSubscriber(ListenStep(s)))

FairSpec == Spec /\ Fairness


\* So does the broker: the table of pending deliveries empties for good.
PendingDrains == <>[](pending = [k \in {} |-> <<>>])

\* Once the broker has sent a subscriber the first n events of a publisher,
\* on a network that may lose any datagram the subscriber shows n lines, or
\* it leaves, or the broker has reported one of the n discarded.  No pass of
\* the retransmission loop, no SUB_ACK and no gap in the buffer stops it.
SentUpTo(s, p, n) ==
  \A i \in 1..n : Deliver(s, i, TopicOf[p], Event(p, i)) \in forwarded

EventuallyShown ==
  \A s \in Subscribers, p \in Publishers, n \in Seqs :
    SentUpTo(s, p, n) ~>
      \/ Len(shown[s]) >= n
      \/ sub[s].pc = "down"
      \/ \E d \in discarded : d.peer = s /\ d.num <= n

\* A line stored for reordering is shown in the end.
BufferDrains ==
  \A s \in Subscribers :
    recv_buffer[s] # [k \in {} |-> <<>>] ~>
      (recv_buffer[s] = [k \in {} |-> <<>>] \/ sub[s].pc = "down")
===========================================================================
