-------------------------- MODULE QuicInvariant --------------------------
(***************************************************************************)
(* The inductive invariants behind the theorems of QuicSystem_proofs, in a *)
(* module of their own so that TLC can evaluate them.                      *)
(***************************************************************************)
EXTENDS QuicSystem

\* Address a is a subscriber that asked for match t.
Wanted(a, t) == a \in Subscribers /\ t \in Elems(Wants[a])

\* What is called number n is the n-th event of a publisher of its topic.
Coherent(n, line) == line.body[2] = n /\ line.topic = TopicOf[line.body[1]]

\* A DELIVER carries the event it is numbered for, to one who asked for it.
PacketOK(pkt) ==
  /\ pkt.type = "DELIVER" =>
       Coherent(pkt.num, Line(pkt)) /\ Wanted(pkt.peer, pkt.topic)
  /\ pkt.type = "SUBSCRIBE" => Wanted(pkt.body[1], pkt.topic)

NetInv == \A pkt \in net : PacketOK(pkt)

\* What s may show as its n-th line.
LineOK(s, n, line) == Coherent(n, line) /\ Wanted(s, line.topic)

BrokerInv ==
  /\ \A t \in Topics : \A a \in Elems(topic_subscribers[t]) : Wanted(a, t)
  /\ pub_loop.pc # "recv" =>
       \A a \in Elems(pub_loop.targets) : Wanted(a, pub_loop.pkt.topic)
  /\ \A k \in DOMAIN pending :
       LET d == pending[k].packet
       IN  PendingKey(d.num, d.peer) = k /\ PacketOK(d)

\* The lines shown are the events before next_seq; the buffer holds later
\* ones, each under its own number.
SubInv ==
  \A s \in Subscribers :
    /\ Len(shown[s]) = next_seq[s] - 1
    /\ delivered[s] = 1..(next_seq[s] - 1)
    /\ \A k \in DOMAIN recv_buffer[s] :
         /\ k > next_seq[s]
         /\ LineOK(s, k, recv_buffer[s][k])

OrderInv == TypeOK /\ NetInv /\ BrokerInv /\ SubInv /\ ShownInOrder

---------------------------------------------------------------------------
(* One feed each: at a subscriber that listens to one publisher a sequence *)
(* number names one event, so that its SUB_ACKs, its duplicate filter and  *)
(* the broker's table speak of the same event, although every publisher    *)
(* counts from 1.                                                          *)

OneFeedEach ==
  \A s \in Subscribers : \A p, q \in Publishers :
    TopicOf[p] \in Elems(Wants[s]) /\ TopicOf[q] \in Elems(Wants[s]) => p = q

\* No subscriber is seen under an address another one announces.
NoAlias == \A s, r \in Subscribers : SeenAs[s] = r => s = r

HasSeq(s, n) == n \in delivered[s] \cup DOMAIN recv_buffer[s]

\* SUB_ACKs in flight and acknowledged entries only for what the subscriber has.
AckInv ==
  /\ \A s \in Subscribers : \A pkt \in net :
       pkt.type = "SUB_ACK" /\ pkt.peer = SeenAs[s] => HasSeq(s, pkt.num)
  /\ \A k \in DOMAIN pending : pending[k].acked => HasSeq(k[2], k[1])
  /\ \A pkt \in net :
       pkt.type = "SUB_ACK" => \E s \in Subscribers : pkt.peer = SeenAs[s]

\* Every DELIVER sent is pending, or received, or discarded, and is the one
\* delivery its key can name.
ForwardedInv ==
  \A d \in forwarded :
    /\ PacketOK(d)
    /\ \/ PendingKey(d.num, d.peer) \in Unacked
       \/ HasSeq(d.peer, d.num)
       \/ d \in discarded

LossInv == OrderInv /\ AckInv /\ ForwardedInv

---------------------------------------------------------------------------
(* One match each, and a broker that was never killed: an ACK confirms the *)
(* match it is for, and with the documented start order a publisher's ACK  *)
(* means that everyone has been sent the event.                            *)

OneMatchEach == \A s \in Subscribers : Len(Wants[s]) <= 1

Listed(s, t) == s \in Elems(topic_subscribers[t])

\* ACKs on their way to a subscriber, and what it took from them.
RegisteredInv ==
  restarts = 0 =>
    /\ \A s \in Subscribers : \A pkt \in net :
         pkt.type = "ACK" /\ pkt.peer = SeenAs[s] =>
           pkt.topic \in Elems(Wants[s]) /\ Listed(s, pkt.topic)
    /\ \A s \in Subscribers : \A t \in Elems(subscriptions[s]) :
         t \in Elems(Wants[s]) /\ Listed(s, t)

ConfirmedInv == OrderInv /\ RegisteredInv

\* The event of PUBLISH pkt has been sent to everyone who wants its match.
SentToAll(pkt) ==
  \A s \in Subscribers : Wanted(s, pkt.topic) =>
    Deliver(s, pkt.num, pkt.topic, pkt.body) \in forwarded

\* A PUBLISH finds every subscriber listed, copies the whole list, and is
\* acknowledged when all of it has been served.
StartInv ==
  OrderedStart /\ restarts = 0 =>
    /\ \A pkt \in net : pkt.type = "PUBLISH" =>
         \A s \in Subscribers : Wanted(s, pkt.topic) => Listed(s, pkt.topic)
    /\ pub_loop.pc # "recv" =>
         \A s \in Subscribers : Wanted(s, pub_loop.pkt.topic) =>
           s \in Elems(pub_loop.targets)
    /\ pub_loop.pc = "ack" => SentToAll(pub_loop.pkt)
    /\ \A pkt \in net : \A p \in Publishers :
         pkt.type = "ACK" /\ pkt.peer = p => SentToAll(Publish(p, pkt.num))
    /\ \A p \in Publishers : \A n \in acked[p] : SentToAll(Publish(p, n))

ForwardInv == ConfirmedInv /\ StartInv
---------------------------------------------------------------------------
(* One publisher: whatever travels, waits, or is stored under a number is  *)
(* an event its publisher has already sent.                                *)

OnePublisher == \A p, q \in Publishers : p = q

FeedInv ==
  /\ \A pkt \in net : pkt.type \in {"PUBLISH", "DELIVER"} => pkt.num <= Announced
  /\ pub_loop.pc # "recv" => pub_loop.pkt.num <= Announced
  /\ \A k \in DOMAIN pending : pending[k].packet.num <= Announced
  /\ \A s \in Subscribers :
       /\ next_seq[s] - 1 <= Announced
       /\ \A k \in DOMAIN recv_buffer[s] : k <= Announced

PrefixInv == OrderInv /\ FeedInv
===========================================================================
