----------------------------- MODULE UdpBroker -----------------------------
(***************************************************************************)
(* udp/broker_udp.cpp: one thread, one socket, one table in memory.        *)
(* topics_mutex is left out: only that thread takes it.                    *)
(***************************************************************************)
EXTENDS UdpProtocol

CONSTANT MaxRestarts  \* how often the broker is started again

ASSUME RestartAssumption == MaxRestarts \in Nat

VARIABLES
  alive,              \* the broker process exists and its socket is open
  server_running,     \* cleared by the signal handler
  topic_subscribers,  \* topic -> sequence of addresses
  restarts            \* how often the broker has been started again

brokerVars == <<alive, server_running, topic_subscribers, restarts>>

BrokerInit ==
  /\ alive = TRUE
  /\ server_running = TRUE
  /\ topic_subscribers = [t \in Topics |-> <<>>]
  /\ restarts = 0

BrokerTypeOK ==
  /\ alive \in BOOLEAN
  /\ server_running \in BOOLEAN
  /\ topic_subscribers \in [Topics -> Seq(Addresses)]
  /\ restarts \in 0..MaxRestarts

---------------------------------------------------------------------------
(* run: a turn of the loop, begun while server_running was still set.  A   *)
(* signal during recvfrom ends it; one that comes between the test and     *)
(* recvfrom, or while a datagram is handled, lets that datagram be served. *)

LoopOn == alive' = server_running /\ UNCHANGED <<server_running, restarts>>

\* publish_message: one datagram for every address listed.  A sendto that
\* fails is as good as a lost datagram.
Updates(d) ==
  LET list == topic_subscribers[d.topic]
  IN  ToBag([i \in DOMAIN list |-> Update(list[i], d.topic, d.body)])

RecvPublish(d) ==
  /\ alive
  /\ d.type = "PUBLISH"
  /\ Exchange(d, Updates(d))
  /\ LoopOn
  /\ UNCHANGED topic_subscribers

(* Operators named X_<defect> are wrong variants of the X below them, each  *)
(* a bug this code could have: the runs must tell them from X.             *)

RecvSubscribe_ListsAgain(d) ==
  /\ alive
  /\ d.type = "SUBSCRIBE"
  /\ Exchange(d, SetToBag({Confirmation(d.addr, d.topic)}))
  /\ topic_subscribers' = [topic_subscribers EXCEPT ![d.topic] = Append(@, d.addr)]
  /\ LoopOn

\* subscribe_client: an address that is listed already gets no reply.
RecvSubscribe(d) ==
  /\ alive
  /\ d.type = "SUBSCRIBE"
  /\ IF d.addr \in ToSet(topic_subscribers[d.topic])
     THEN /\ Exchange(d, EmptyBag)
          /\ UNCHANGED topic_subscribers
     ELSE /\ Exchange(d, SetToBag({Confirmation(d.addr, d.topic)}))
          /\ topic_subscribers' =
               [topic_subscribers EXCEPT ![d.topic] = Append(@, d.addr)]
  /\ LoopOn

Signal ==
  /\ alive
  /\ server_running
  /\ server_running' = FALSE
  /\ UNCHANGED <<netVars, alive, topic_subscribers, restarts>>

Stop_NoTimeout ==
  /\ alive
  /\ ~server_running
  /\ \E d \in BagToSet(net) : ToBroker(d)
  /\ alive' = FALSE
  /\ UNCHANGED <<netVars, server_running, topic_subscribers, restarts>>

\* recvfrom returns -1, interrupted or after 200 ms, and the loop ends.
Stop ==
  /\ alive
  /\ ~server_running
  /\ alive' = FALSE
  /\ UNCHANGED <<netVars, server_running, topic_subscribers, restarts>>

\* The program is started again, with empty tables.  Requests that came
\* meanwhile are gone, those still on their way will be received.
Restart ==
  /\ ~alive
  /\ restarts < MaxRestarts
  /\ \E gone \in SUBSET {d \in BagToSet(net) : ToBroker(d)} : Refuse(gone)
  /\ restarts' = restarts + 1
  /\ alive' = TRUE
  /\ server_running' = TRUE
  /\ topic_subscribers' = [t \in Topics |-> <<>>]

BrokerStep ==
  \/ \E d \in BagToSet(net) : RecvPublish(d) \/ RecvSubscribe(d)
  \/ Stop
=============================================================================
