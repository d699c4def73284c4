----------------------------- MODULE UdpSystem -----------------------------
(***************************************************************************)
(* The UDP system: publishers, broker and subscribers over one datagram    *)
(* network.  The processes share nothing but net.                          *)
(***************************************************************************)
EXTENDS UdpClients, UdpBroker

CONSTANTS
  Leavers,  \* the subscribers whose user may press Ctrl+C
  Signals   \* TRUE: the broker may be sent SIGINT or SIGTERM

ASSUME UdpSystemAssumption ==
  /\ Leavers \subseteq Subscribers
  /\ Signals \in BOOLEAN

vars == <<netVars, clientVars, brokerVars>>

Init == NetInit /\ ClientInit /\ BrokerInit

PublisherNext ==
  /\ \E p \in Publishers : PubSend(p) \/ PubBreak(p)
  /\ UNCHANGED brokerVars

SubscriberNext ==
  /\ \/ \E s \in Subscribers : SubBind(s) \/ SubStep(s)
     \/ \E s \in Leavers : SubSignal(s)
  /\ UNCHANGED brokerVars

BrokerNext ==
  /\ BrokerStep \/ (Signals /\ Signal) \/ Restart
  /\ UNCHANGED clientVars

NetworkNext == Lose /\ UNCHANGED <<clientVars, brokerVars>>

Next == PublisherNext \/ SubscriberNext \/ BrokerNext \/ NetworkNext

Spec == Init /\ [][Next]_vars

TypeOK == NetTypeOK /\ ClientTypeOK /\ BrokerTypeOK

---------------------------------------------------------------------------
(* Safety. *)

Listed(a, t) == a \in ToSet(topic_subscribers[t])

\* A match announced without "(sin confirmacion)" has the address of the
\* subscriber in its list, as long as the broker has not been started again:
\* also when the reply is read by the wait for another match, which may have
\* announced that one with the reservation before, or by the next holder of
\* the port.  (With the reservation a match is announced listed or not.)
ConfirmedIsRegistered ==
  restarts = 0 =>
    \A s \in Subscribers, t \in Topics :
      Confirmed(t) \in announced[s] => Listed(AddrOf[s], t)

---------------------------------------------------------------------------
(* Refinement.                                                             *)

\* The events handed to sendto.
Sent == {e \in Events : e[2] < pub[e[1]].seq}

\* What was asked for from the address of s, by s or by another holder of it.
AskedFor ==
  [s \in Subscribers |->
     {e \in Events : \E r \in Subscribers :
        AddrOf[r] = AddrOf[s] /\ TopicOf[e[1]] \in ToSet(Wants[r])}]

Effort == INSTANCE BestEffort WITH
  Readers <- Subscribers,
  Items <- Events,
  sent <- Sent,
  repeats <- copies,
  read <- shown

\* Whatever is lost, repeated or reordered, whoever gets the port of a
\* subscriber that left, and however often the broker is started again, a
\* subscriber is shown only what was sent and asked for from its address, and
\* nothing more often than the network repeated datagrams.
RefinesBestEffort == Effort!Spec

---------------------------------------------------------------------------
(* Liveness. *)

\* Every process keeps running: each recvfrom has a timeout.  No subscriber
\* is obliged to start, and none to leave; no signal and no loss need come.
AsClient(A) == A /\ UNCHANGED brokerVars

Fairness ==
  /\ \A p \in Publishers : WF_vars(AsClient(PubSend(p)))
  /\ \A s \in Subscribers : WF_vars(AsClient(SubStep(s)))
  /\ WF_vars(BrokerStep /\ UNCHANGED clientVars)

FairSpec == Spec /\ Fairness

\* Subscriber s is there and has not been told to end.
Running(s) == HasSocket(s) /\ ~sub[s].stop

\* On a network that loses nothing, SUBSCRIBE need not be repeated: every
\* match asked for is listed in the end, unless the broker is stopped.
EventuallyListed ==
  \A s \in Subscribers :
    HasSocket(s) ~>
      (~server_running \/ \A t \in ToSet(Wants[s]) : Listed(AddrOf[s], t))

\* On such a network an event sent while the address of s is listed is shown
\* by s, also when s is still waiting for a confirmation, unless s or the
\* broker is stopped.
EventuallyShown ==
  \A s \in Subscribers, p \in Publishers, n \in 1..NumEvents :
    /\ Listed(AddrOf[s], TopicOf[p])
    /\ pub[p].pc = "send" /\ pub[p].seq = n
    ~> (~server_running \/ ~Running(s) \/ BagIn(Event(p, n), shown[s]))

\* A signal ends the broker, datagrams or not: recvfrom has a timeout for that.
SignalEnds == ~server_running ~> ~alive
=============================================================================
