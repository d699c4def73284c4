--------------------------- MODULE UdpInvariant ---------------------------
(***************************************************************************)
(* The inductive invariant behind the theorems of UdpSystem_proofs, in a   *)
(* module of its own so that TLC can evaluate it.                          *)
(***************************************************************************)
EXTENDS UdpSystem

\* How often x is in bag B.
Count(B, x) == IF BagIn(x, B) THEN B[x] ELSE 0

\* Match t is asked for from address a.
Asked(a, t) == \E r \in Subscribers : AddrOf[r] = a /\ t \in ToSet(Wants[r])

\* A datagram tells the truth: events that were sent, of the match they are
\* of, to addresses they were asked for from; confirmations of what is listed.
DatagramOK(d) ==
  /\ d.type = "PUBLISH" => d.body \in Sent /\ d = Publish(d.body[1], d.body[2])
  /\ d.type = "update" => d.body \in Sent /\ d.topic = TopicOf[d.body[1]]
  /\ d.type # "PUBLISH" => Asked(d.addr, d.topic)
  /\ d.type = "suscrito" /\ restarts = 0 => Listed(d.addr, d.topic)

NetInv == \A d \in BagToSet(net) : DatagramOK(d)

ListInv ==
  \A t \in Topics :
    /\ \A i, j \in DOMAIN topic_subscribers[t] :
         topic_subscribers[t][i] = topic_subscribers[t][j] => i = j
    /\ \A a \in ToSet(topic_subscribers[t]) : Asked(a, t)

ShownInv ==
  \A s \in Subscribers : \A e \in BagToSet(shown[s]) : e \in Sent \cap AskedFor[s]

\* The datagram that brings e to the address of s.
News(s, e) == Update(AddrOf[s], TopicOf[e[1]], e)

\* An event is on its way to the broker, on its way to s, or printed by s:
\* once, and once more for every datagram the network repeated.
CountInv ==
  \A s \in Subscribers, e \in Sent :
    Count(net, Publish(e[1], e[2])) + Count(net, News(s, e)) + Count(shown[s], e)
      <= 1 + copies

UdpInv ==
  TypeOK /\ NetInv /\ ListInv /\ ShownInv /\ CountInv /\ ConfirmedIsRegistered
===========================================================================
