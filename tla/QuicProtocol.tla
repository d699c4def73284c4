--------------------------- MODULE QuicProtocol ---------------------------
(***************************************************************************)
(* The wire protocol of quic/quic_protocol.h and the datagram network      *)
(* under it.  A packet keeps of the binary header what the programs read:  *)
(*   type   PacketType;                                                    *)
(*   peer   the client end of the datagram: the source address of what a   *)
(*          client sends, the destination of what the broker sends;        *)
(*   num    seq_num of PUBLISH, SUBSCRIBE and DELIVER, ack_num of ACK and  *)
(*          SUB_ACK (the other field is 0 or unread in every packet);      *)
(*   topic  the match;                                                     *)
(*   body   the payload: <<p, n>> is the n-th event of publisher p, <<a>>  *)
(*          an announced address, <<>> a packet with payload_len 0.        *)
(* The magic number and the byte layout are left out: every datagram comes *)
(* from one of the three programs and deserialize accepts all of them.     *)
(***************************************************************************)
EXTENDS Integers, Sequences, FiniteSets

CONSTANTS
  Publishers,    \* publisher processes, each with the address of its socket
  Subscribers,   \* subscriber processes, named by the "ip:port" they announce
  Addresses,     \* every subscriber-side address the broker may see
  Topics,        \* matches
  TopicOf,       \* TopicOf[p]: the match publisher p reports (argv[1])
  Wants,         \* Wants[s]: the matches subscriber s asks for, in argv order
  SeenAs,        \* SeenAs[s]: source address of s's datagrams at the broker;
                 \*   differs from s when an address translator sits between
  NumEvents,     \* length of the publisher's vector "events" (14 in the code)
  SendRetries,   \* MAX_RETRIES (5 in the code) as the clients use it: attempts
                 \*   at a PUBLISH or a SUBSCRIBE after the first
  MaxRetries,    \* MAX_RETRIES as the broker uses it: retransmissions of a
                 \*   DELIVER; two constants, to bound the loops separately
  Lossy,         \* may the network lose a datagram?
  Duplicating    \* may the network deliver a datagram more than once?

ASSUME QuicAssumption ==
  /\ Subscribers \subseteq Addresses
  /\ Publishers \cap Addresses = {}
  /\ TopicOf \in [Publishers -> Topics]
  /\ Wants \in [Subscribers -> Seq(Topics)]
  /\ SeenAs \in [Subscribers -> Addresses]
  /\ \A s, r \in Subscribers : SeenAs[s] = SeenAs[r] => s = r
  /\ NumEvents \in Nat \ {0}
  /\ SendRetries \in Nat
  /\ MaxRetries \in Nat
  /\ Lossy \in BOOLEAN
  /\ Duplicating \in BOOLEAN

VARIABLE net     \* the set of datagrams in flight or in a socket buffer

Seqs == 1..NumEvents

Event(p, n) == <<p, n>>
Events == Publishers \X Seqs

---------------------------------------------------------------------------
(* The five packet types, as their senders fill them in. *)

Publish(p, n) ==
  [type |-> "PUBLISH", peer |-> p, num |-> n, topic |-> TopicOf[p],
   body |-> Event(p, n)]

Ack(a, n, t) ==
  [type |-> "ACK", peer |-> a, num |-> n, topic |-> t, body |-> <<>>]

Subscribe(s, t) ==
  [type |-> "SUBSCRIBE", peer |-> SeenAs[s], num |-> 0, topic |-> t,
   body |-> <<s>>]

Deliver(a, n, t, b) ==
  [type |-> "DELIVER", peer |-> a, num |-> n, topic |-> t, body |-> b]

SubAck(s, n, t) ==
  [type |-> "SUB_ACK", peer |-> SeenAs[s], num |-> n, topic |-> t,
   body |-> <<>>]

PublishPackets == {Publish(p, n) : p \in Publishers, n \in Seqs}
AckPackets ==
  [type : {"ACK"}, peer : Publishers \cup Addresses, num : 0..NumEvents,
   topic : Topics, body : {<<>>}]
SubscribePackets ==
  {Subscribe(s, t) : s \in Subscribers, t \in Topics}
DeliverPackets ==
  [type : {"DELIVER"}, peer : Addresses, num : Seqs, topic : Topics,
   body : Events]
SubAckPackets ==
  [type : {"SUB_ACK"}, peer : Addresses, num : Seqs, topic : Topics,
   body : {<<>>}]
Packets == PublishPackets \cup AckPackets \cup SubscribePackets
             \cup DeliverPackets \cup SubAckPackets

ToBroker(pkt) == pkt.type \in {"PUBLISH", "SUBSCRIBE", "SUB_ACK"}

---------------------------------------------------------------------------
(* UDP as the programs meet it: unordered, unbounded delay, and, as the    *)
(* constants allow, loss and duplication.  Two copies of one datagram in   *)
(* flight together are one element of net.  Under Duplicating a datagram   *)
(* sent once can be received any number of times, from none on: loss is    *)
(* then a datagram nobody receives again.                                  *)

NetInit == net = {}

\* sendto: the datagrams out leave; nobody waits for them.
Transmit(out) == net' = net \cup out

\* recvfrom takes pkt, and its handler sends out before it returns there.
Exchange(pkt, out) ==
  /\ pkt \in net
  /\ net' = (IF Duplicating THEN net ELSE net \ {pkt}) \cup out

\* Some of the datagrams in came while nobody had their socket open.
Refuse(in) ==
  \/ Duplicating /\ UNCHANGED net
  \/ ~Duplicating /\ \E gone \in SUBSET in : net' = net \ gone

Lose ==
  /\ Lossy
  /\ \E pkt \in net : net' = net \ {pkt}
===========================================================================
