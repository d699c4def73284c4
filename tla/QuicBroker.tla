---------------------------- MODULE QuicBroker ----------------------------
(***************************************************************************)
(* quic/broker_quic.cpp: three threads over two tables.                    *)
(*                                                                         *)
(*   pub_socket_loop  PUBLISH from publishers: copy the subscriber list    *)
(*                    under clients_mutex, send and register the           *)
(*                    deliveries under pending_mutex, then acknowledge;    *)
(*   sub_socket_loop  SUBSCRIBE and SUB_ACK from subscribers;              *)
(*   retransmit_loop  every 100 ms, the expired deliveries.                *)
(*                                                                         *)
(* Each critical section is one action: no thread holds two mutexes and    *)
(* the tables are touched under theirs only, so what a thread does between *)
(* lock and unlock is atomic to the others.  The three steps of            *)
(* pub_socket_loop interleave with the other two threads.                  *)
(***************************************************************************)
EXTENDS QuicProtocol

CONSTANT MaxRestarts  \* how often the broker is killed and started again

ASSUME RestartAssumption == MaxRestarts \in Nat

VARIABLES
  topic_subscribers,  \* topic -> sequence of delivery addresses
  pending,            \* pending_deliveries: partial function from <<seq, address>>
  pub_loop,           \* where pub_socket_loop is, with its local variables
  forwarded,          \* the DELIVERs this process has printed a "-> DELIVER" line of
  discarded,          \* the DELIVERs it has printed a "se descarta" line of
  restarts            \* how often the broker has been started again

brokerVars ==
  <<topic_subscribers, pending, pub_loop, forwarded, discarded, restarts>>

Keys == Seqs \X Addresses

\* pd.sent_at_ms is left out: that ACK_TIMEOUT_MS has passed since the last
\* transmission is a choice of Sweep.
PendingDelivery ==
  [packet : DeliverPackets, retries : 0..MaxRetries, acked : BOOLEAN]

Idle == [pc |-> "recv"]

BrokerInit ==
  /\ topic_subscribers = [t \in Topics |-> <<>>]
  /\ pending = [k \in {} |-> <<>>]
  /\ pub_loop = Idle
  /\ forwarded = {}
  /\ discarded = {}
  /\ restarts = 0

BrokerTypeOK ==
  /\ topic_subscribers \in [Topics -> Seq(Addresses)]
  /\ DOMAIN pending \subseteq Keys
  /\ \A k \in DOMAIN pending : pending[k] \in PendingDelivery
  /\ pub_loop \in {Idle} \cup [pc : {"forward", "ack"}, pkt : PublishPackets,
                               targets : Seq(Addresses)]
  /\ forwarded \subseteq DeliverPackets
  /\ discarded \subseteq DeliverPackets
  /\ restarts \in 0..MaxRestarts

Elems(q) == {q[i] : i \in DOMAIN q}

\* pending_key
PendingKey(seq, addr) == <<seq, addr>>

---------------------------------------------------------------------------
(* pub_socket_loop *)

(* Operators named X_<defect> are wrong variants of the X below them, each  *)
(* a bug this code could have: the runs must tell them from X.             *)

RecvPublish_AckFirst(pkt) ==
  /\ pub_loop.pc = "recv"
  /\ pkt.type = "PUBLISH"
  /\ Exchange(pkt, {Ack(pkt.peer, pkt.num, pkt.topic)})
  /\ pub_loop' = [pc |-> "forward", pkt |-> pkt,
                  targets |-> topic_subscribers[pkt.topic]]
  /\ UNCHANGED <<topic_subscribers, pending, forwarded, discarded, restarts>>

RecvPublish_AnyTopic(pkt) ==
  /\ pub_loop.pc = "recv"
  /\ pkt.type = "PUBLISH"
  /\ Exchange(pkt, {})
  /\ \E t \in Topics :
       pub_loop' = [pc |-> "forward", pkt |-> pkt, targets |-> topic_subscribers[t]]
  /\ UNCHANGED <<topic_subscribers, pending, forwarded, discarded, restarts>>

RecvPublish(pkt) ==
  /\ pub_loop.pc = "recv"
  /\ pkt.type = "PUBLISH"
  /\ Exchange(pkt, {})
  /\ pub_loop' = [pc |-> "forward", pkt |-> pkt,
                  targets |-> topic_subscribers[pkt.topic]]
  /\ UNCHANGED <<topic_subscribers, pending, forwarded, discarded, restarts>>

\* The DELIVER built for target a from the PUBLISH at hand.
DeliveryTo(a) ==
  Deliver(a, pub_loop.pkt.num, pub_loop.pkt.topic, pub_loop.pkt.body)

Deliveries == {DeliveryTo(a) : a \in Elems(pub_loop.targets)}

\* pending_deliveries[key] = pd for every target, over whatever was there.
Registered ==
  LET fresh == {PendingKey(pub_loop.pkt.num, a) : a \in Elems(pub_loop.targets)}
  IN  [k \in DOMAIN pending \cup fresh |->
         IF k \in fresh
         THEN [packet |-> DeliveryTo(k[2]), retries |-> 0, acked |-> FALSE]
         ELSE pending[k]]

Forward ==
  /\ pub_loop.pc = "forward"
  /\ Transmit(Deliveries)
  /\ pending' = Registered
  /\ forwarded' = forwarded \cup Deliveries
  /\ pub_loop' = [pub_loop EXCEPT !.pc = "ack"]
  /\ UNCHANGED <<topic_subscribers, discarded, restarts>>

AckPublish ==
  /\ pub_loop.pc = "ack"
  /\ Transmit({Ack(pub_loop.pkt.peer, pub_loop.pkt.num, pub_loop.pkt.topic)})
  /\ pub_loop' = Idle
  /\ UNCHANGED <<topic_subscribers, pending, forwarded, discarded, restarts>>

---------------------------------------------------------------------------
(* sub_socket_loop *)

\* The address announced in the payload, or the source of the datagram.
DeliverAddr(pkt) == IF pkt.body # <<>> THEN pkt.body[1] ELSE pkt.peer

AddSubscriber_Again(subs, addr) == Append(subs, addr)

AddSubscriber(subs, addr) ==
  IF addr \in Elems(subs) THEN subs ELSE Append(subs, addr)

RecvSubscribe(pkt) ==
  /\ pkt.type = "SUBSCRIBE"
  /\ Exchange(pkt, {Ack(pkt.peer, pkt.num, pkt.topic)})
  /\ topic_subscribers' =
       [topic_subscribers EXCEPT ![pkt.topic] = AddSubscriber(@, DeliverAddr(pkt))]
  /\ UNCHANGED <<pending, pub_loop, forwarded, discarded, restarts>>

\* The key is built from the source address of the SUB_ACK.
AckedKey(pkt) == PendingKey(pkt.num, pkt.peer)

RecvSubAck(pkt) ==
  /\ pkt.type = "SUB_ACK"
  /\ Exchange(pkt, {})
  /\ pending' = [k \in DOMAIN pending |->
                   IF k = AckedKey(pkt) THEN [pending[k] EXCEPT !.acked = TRUE]
                   ELSE pending[k]]
  /\ UNCHANGED <<topic_subscribers, pub_loop, forwarded, discarded, restarts>>

---------------------------------------------------------------------------
(* retransmit_loop *)

Again_Uncounted(pd) == pd

\* pd.retries++
Again(pd) == [pd EXCEPT !.retries = @ + 1]

Unacked == {k \in DOMAIN pending : ~pending[k].acked}
Exhausted(k) == pending[k].retries >= MaxRetries

\* One pass under pending_mutex.  due are the unacknowledged entries whose
\* timeout has expired: those with retries left are sent again, the others
\* given up; then every acknowledged or given-up entry is erased.
Sweep(due) ==
  LET resent == {k \in due : ~Exhausted(k)}
      given_up == due \ resent
      kept == Unacked \ given_up
  IN  /\ due \subseteq Unacked
      /\ Transmit({pending[k].packet : k \in resent})
      /\ pending' = [k \in kept |->
                       IF k \in resent THEN Again(pending[k]) ELSE pending[k]]
      /\ discarded' = discarded \cup {pending[k].packet : k \in given_up}
      /\ UNCHANGED <<topic_subscribers, pub_loop, forwarded, restarts>>

(* The process is killed, in the middle of whatever its threads do, and    *)
(* started again: nothing it keeps is on disk.  What waited in its sockets *)
(* is lost, what is still on its way will be received.  A kill between two *)
(* sendtos of one action is one after it whose last datagrams were lost.   *)

Restart ==
  /\ restarts < MaxRestarts
  /\ Refuse({pkt \in net : ToBroker(pkt)})
  /\ topic_subscribers' = [t \in Topics |-> <<>>]
  /\ pending' = [k \in {} |-> <<>>]
  /\ pub_loop' = Idle
  /\ forwarded' = {}
  /\ discarded' = {}
  /\ restarts' = restarts + 1

---------------------------------------------------------------------------
PubSocketStep ==
  \/ \E pkt \in net : RecvPublish(pkt)
  \/ Forward
  \/ AckPublish

SubSocketStep == \E pkt \in net : RecvSubscribe(pkt) \/ RecvSubAck(pkt)

RetransmitStep == \E due \in SUBSET Unacked : Sweep(due)
===========================================================================
