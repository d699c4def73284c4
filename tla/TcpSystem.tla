----------------------------- MODULE TcpSystem -----------------------------
(***************************************************************************)
(* The TCP system: broker threads and client processes over stream         *)
(* sockets.                                                                *)
(***************************************************************************)
EXTENDS TcpClients, TcpBroker

CONSTANTS
  Leavers,   \* the subscribers whose user may press Ctrl+C
  Churn,     \* TRUE: a client may leave before another has been accepted
  Signals    \* when the broker may be sent SIGINT or SIGTERM: "never", "ever",
             \* or "early", while accept has clients to come

ASSUME TcpSystemAssumption ==
  /\ Leavers \subseteq Subscribers
  /\ Churn \in BOOLEAN
  /\ Signals \in {"never", "early", "ever"}

vars == <<netVars, clientVars, brokerVars>>

Init == NetInit /\ ClientInit /\ BrokerInit

MayLeave == Churn \/ \A c \in Clients : thread[c].pc # "none"

PublisherNext(p) ==
  PubConnect(p) \/ PubSend(p) \/ PubBreak(p) \/ (MayLeave /\ PubClose(p))

MaySignal ==
  \/ Signals = "ever"
  \/ Signals = "early" /\ \E c \in Clients : thread[c].pc = "none"

SubscriberNext(s) == SubConnect(s) \/ SubSend(s) \/ SubRead(s)

Leave == MayLeave /\ \E s \in Leavers : SubLeave(s)

ClientNext ==
  /\ \/ \E p \in Publishers : PublisherNext(p)
     \/ \E s \in Subscribers : SubscriberNext(s)
     \/ Leave
  /\ UNCHANGED brokerVars

BrokerNext ==
  /\ Accept \/ (MaySignal /\ Signal) \/ \E c \in Clients : ThreadStep(c)
  /\ UNCHANGED clientVars

Next == ClientNext \/ BrokerNext

Spec == Init /\ [][Next]_vars

\* Types; a publisher's counter never runs past its vector of events.
TypeOK == NetTypeOK /\ ClientTypeOK /\ BrokerTypeOK

---------------------------------------------------------------------------
(* Safety. *)

\* All that subscriber s has been sent and has not lost, in order.
Received(s) == shown[s] \o down[s]

\* The line carries events of publisher p.
From(p, line) == line.kind = "update" /\ line.body[1][1] = p

\* No two subscribers see two lines in opposite orders, those of different
\* publishers included: publish_message sends to all of them under the mutex.
\* (One whose descriptor is listed twice sees a line twice, but no other line
\* in between.)
SameOrder ==
  \A s, r \in Subscribers :
    \A i, j \in DOMAIN Received(s), k, l \in DOMAIN Received(r) :
      /\ i < j /\ Received(s)[i].kind = "update" /\ Received(s)[j].kind = "update"
      /\ k < l /\ Received(r)[k] = Received(s)[j] /\ Received(r)[l] = Received(s)[i]
      => Received(s)[i] = Received(s)[j]

\* A publisher's events reach a subscriber without gap or repetition, from
\* the first one after it subscribed: within a line, and from one line of the
\* publisher to its next one.
NoGap ==
  \A s \in Subscribers, p \in Publishers : \A i \in DOMAIN Received(s) :
    LET body == Received(s)[i].body
    IN  From(p, Received(s)[i]) =>
          /\ \A k \in 1..(Len(body) - 1) : body[k + 1] = Event(p, body[k][2] + 1)
          /\ \A j \in DOMAIN Received(s) :
               /\ i < j /\ From(p, Received(s)[j])
               /\ \A k \in (i + 1)..(j - 1) : ~From(p, Received(s)[k])
               => Received(s)[j].body[1][2] = body[Len(body)][2] + 1

\* Every listed descriptor belongs to a client whose thread will still remove
\* it, or to one whose thread the shutdown has ended: none is left behind.
NoneLeftBehind ==
  \A t \in Names : \A f \in Elems(topic_subscribers[t]) :
    \E c \in Clients : thread[c].fd = f /\ thread[c].pc # "gone"

\* While the broker runs, a subscriber that has sent all its SUBSCRIBEs, and
\* whose thread has read them and waits for more, is in the list of every
\* match it asked for.
SubscribedIsListed ==
  \A s \in Subscribers :
    /\ alive
    /\ sub[s].pc = "listen" /\ s \in open
    /\ thread[s].pc = "recv" /\ up[s] = <<>>
    => \A t \in Elems(Wants[s]) : thread[s].fd \in Elems(topic_subscribers[t])

---------------------------------------------------------------------------
(* Liveness. *)

\* Every process and thread keeps running: a client that exists connects and
\* goes on, but no subscriber is obliged to leave, and no signal need come.
AsClient(A) == A /\ UNCHANGED brokerVars
AsBroker(A) == A /\ UNCHANGED clientVars

Fairness ==
  /\ \A p \in Publishers : WF_vars(AsClient(PublisherNext(p)))
  /\ \A s \in Subscribers : WF_vars(AsClient(SubscriberNext(s)))
  /\ WF_vars(AsBroker(Accept))
  /\ \A c \in Clients : WF_vars(AsBroker(ThreadStep(c)))

FairSpec == Spec /\ Fairness

\* An event sent while a subscriber of its match is listed reaches it, unless
\* the subscriber leaves or the broker is told to end.
EventuallyReceived ==
  \A p \in Publishers, s \in Subscribers, n \in 1..NumEvents :
    /\ thread[s].fd \in Elems(topic_subscribers[TopicOf[p]])
    /\ pub[p].pc = "send" /\ pub[p].seq = n
    ~> \/ ~server_running \/ s \notin open
       \/ \E i \in DOMAIN Received(s) : Event(p, n) \in Elems(Received(s)[i].body)

\* A subscriber that leaves disappears from every list, for good, unless the
\* broker is told to end.
DepartureNoticed ==
  \A s \in Subscribers :
    sub[s].pc = "down" ~>
      \/ ~server_running
      \/ [](thread[s].fd # 0
            /\ \A t \in Names : thread[s].fd \notin Elems(topic_subscribers[t]))

\* After a signal the broker ends with the next client that connects: only
\* accept returning brings it back to server_running.
NextClientEnds == ~server_running /\ backlog # <<>> ~> ~alive
=============================================================================
