---------------------------- MODULE UdpProtocol ----------------------------
(***************************************************************************)
(* The text protocol of the udp/ programs and the datagrams under it.  A   *)
(* datagram keeps what the programs read of it:                            *)
(*   type   PUBLISH, SUBSCRIBE; the reply "Suscrito a ..." and the line    *)
(*          "[match] event" the broker sends to a listed address;          *)
(*   addr   the client end: source of the first two, destination of the    *)
(*          others;                                                        *)
(*   topic  the match;                                                     *)
(*   body   <<p, n>> for the n-th event of publisher p, else <<>>.         *)
(***************************************************************************)
EXTENDS Integers, SequencesExt

CONSTANTS
  Publishers,   \* publisher processes
  Subscribers,  \* subscriber processes
  Addresses,    \* the client ends: "ip:port"
  Topics,       \* matches
  TopicOf,      \* TopicOf[p]: the match publisher p reports (argv[1])
  Wants,        \* Wants[s]: the matches of subscriber s, in argv order
  PubAddr,      \* PubAddr[p]: the source of p's datagrams
  AddrOf,       \* AddrOf[s]: the port the system assigns to s when it binds;
                \*   two subscribers have the same one if their lives differ
  NumEvents,    \* length of the publisher's vector "events" (14 in the code)
  Lossy,        \* may a datagram be lost, or a sendto fail?
  MaxCopies     \* datagrams the network delivers once more than they were sent

ASSUME UdpAssumption ==
  /\ TopicOf \in [Publishers -> Topics]
  /\ Wants \in [Subscribers -> Seq(Topics) \ {<<>>}]
  /\ PubAddr \in [Publishers -> Addresses]
  /\ AddrOf \in [Subscribers -> Addresses]
  /\ NumEvents \in Nat \ {0}
  /\ Lossy \in BOOLEAN
  /\ MaxCopies \in Nat

VARIABLES
  net,     \* the bag of datagrams in flight or in a socket buffer
  copies   \* how many datagrams have been delivered and kept

netVars == <<net, copies>>

Event(p, n) == <<p, n>>
Events == Publishers \X (1..NumEvents)

---------------------------------------------------------------------------
(* The four datagrams, as their senders fill them in. *)

Publish(p, n) ==
  [type |-> "PUBLISH", addr |-> PubAddr[p], topic |-> TopicOf[p], body |-> Event(p, n)]

Subscribe(s, t) ==
  [type |-> "SUBSCRIBE", addr |-> AddrOf[s], topic |-> t, body |-> <<>>]

Confirmation(a, t) ==
  [type |-> "suscrito", addr |-> a, topic |-> t, body |-> <<>>]

Update(a, t, e) ==
  [type |-> "update", addr |-> a, topic |-> t, body |-> e]

Datagrams ==
  [type : {"PUBLISH", "update"}, addr : Addresses, topic : Topics, body : Events]
  \cup
  [type : {"SUBSCRIBE", "suscrito"}, addr : Addresses, topic : Topics, body : {<<>>}]

ToBroker(d) == d.type \in {"PUBLISH", "SUBSCRIBE"}
ToClient(a, d) == ~ToBroker(d) /\ d.addr = a

---------------------------------------------------------------------------
(* The datagram service: unordered, and, as the constants allow, losing    *)
(* datagrams or delivering one again later.                                *)

NetInit == net = EmptyBag /\ copies = 0

NetTypeOK ==
  /\ IsABag(net)
  /\ BagToSet(net) \subseteq Datagrams
  /\ copies \in 0..MaxCopies

\* sendto, with the bag of datagrams out.
Transmit(out) == net' = net (+) out /\ UNCHANGED copies

\* recvfrom takes d, and its handler sends out before it returns there.  The
\* network may have another copy of d still to deliver.
Exchange(d, out) ==
  /\ BagIn(d, net)
  /\ \/ /\ net' = (net (-) SetToBag({d})) (+) out
        /\ UNCHANGED copies
     \/ /\ copies < MaxCopies
        /\ net' = net (+) out
        /\ copies' = copies + 1

\* The datagrams in gone are refused: nobody had their socket open.
Refuse(gone) ==
  /\ net' = [d \in BagToSet(net) \ gone |-> net[d]]
  /\ UNCHANGED copies

Lose ==
  /\ Lossy
  /\ \E d \in BagToSet(net) : net' = net (-) SetToBag({d})
  /\ UNCHANGED copies
===========================================================================
