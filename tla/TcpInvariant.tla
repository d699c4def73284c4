--------------------------- MODULE TcpInvariant ---------------------------
(***************************************************************************)
(* The inductive invariants behind the theorems of TcpSystem_proofs, in a  *)
(* module of its own so that TLC can evaluate them.                        *)
(***************************************************************************)
EXTENDS TcpSystem

\* Client c has not connected yet.
Fresh(c) == IF c \in Publishers THEN pub[c].pc = "connect" ELSE sub[c].pc = "connect"

\* Client c has closed its end.
Left(c) == IF c \in Publishers THEN pub[c].pc = "done" ELSE sub[c].pc = "down"

\* A client connects once, and is accepted at most once after that.
ConnInv ==
  /\ \A i, j \in DOMAIN backlog : backlog[i] = backlog[j] => i = j
  /\ \A c \in Clients :
       /\ Fresh(c) => thread[c].pc = "none" /\ c \notin Elems(backlog)
       /\ c \in Elems(backlog) => thread[c].pc = "none"
       /\ thread[c].pc = "none" <=> thread[c].fd = 0
       /\ c \in open <=> ~Fresh(c) /\ ~Left(c)

\* An open descriptor is the one its client was accepted with.
SockInv == \A f \in DOMAIN sock : thread[sock[f]].fd = f

\* What a client sends is of its own kind.
OwnRequest(c, req) ==
  IF c \in Publishers THEN \E e \in Events : req = PublishIn(TopicOf[c], <<e>>)
                      ELSE \E t \in Topics : req = SubscribeTo(t)

UpInv == \A c \in Clients : \A i \in DOMAIN up[c] : OwnRequest(c, up[c][i])

\* Where the client programs are in what they have to send.
ProgressInv ==
  /\ \A p \in Publishers :
       pub[p].pc \in {"connect", "send"} => pub[p].seq \in 1..NumEvents
  /\ \A s \in Subscribers :
       /\ sub[s].pc = "connect" => sub[s].idx = 1
       /\ sub[s].pc = "subscribe" => sub[s].idx \in DOMAIN Wants[s]
       /\ sub[s].pc = "listen" => sub[s].idx > Len(Wants[s])

TcpInv ==
  TypeOK /\ ConnInv /\ SockInv /\ UpInv /\ ProgressInv /\ NoneLeftBehind

---------------------------------------------------------------------------
(* What has become of the events of a publisher. *)

\* The mutex is held by the thread that is in publish_message or
\* subscribe_client, and only publishers' threads get into publish_message.
MutexInv ==
  /\ topics_mutex = {c \in Clients : thread[c].pc \in {"fanout", "confirm"}}
  /\ \A c, d \in topics_mutex : c = d
  /\ \A p \in Publishers : thread[p].pc # "confirm"
  /\ \A s \in Subscribers :
       /\ thread[s].pc # "fanout"
       /\ thread[s].pc = "handle" => thread[s].req.op = "SUBSCRIBE"

\* Publisher p is publishing, or about to.
Publishing(p) == thread[p].pc \in {"handle", "fanout"}

\* The broker has read the first Read(p) events of p, and publish_message has
\* returned for the first Past(p) of them.
Read(p) == pub[p].seq - 1 - Len(up[p])
Past(p) == IF Publishing(p) THEN Read(p) - Len(thread[p].req.body) ELSE Read(p)

\* The events of p from the one after number a to number b.
Run(p, a, b) == [i \in 1..(b - a) |-> Event(p, a + i)]

\* The events of p that are still under way follow one another.
PipelineInv ==
  \A p \in Publishers :
    /\ Read(p) >= 0
    /\ \A i \in DOMAIN up[p] : up[p][i] = PublishIn(TopicOf[p], <<Event(p, Read(p) + i)>>)
    /\ Publishing(p) =>
         \E k \in 1..Read(p) :
           thread[p].req = PublishIn(TopicOf[p], Run(p, Read(p) - k, Read(p)))

\* The line that publish_message sends for publisher p, and those it has sent
\* to all before.
LineOf(p) == Update(thread[p].req.topic, thread[p].req.body)
PastLine(p, line) ==
  \E a, b \in 0..Past(p) : a < b /\ line = Update(TopicOf[p], Run(p, a, b))

\* What a subscriber has received was sent by an earlier publish_message or by
\* the one that has the mutex.
SentInv ==
  \A s \in Subscribers : \A i \in DOMAIN Received(s) :
    Received(s)[i].kind = "update" =>
      \E p \in Publishers :
        \/ PastLine(p, Received(s)[i])
        \/ thread[p].pc = "fanout" /\ Received(s)[i] = LineOf(p)

\* Nothing that was sent before comes behind the line being sent.
LastInv ==
  \A p \in Publishers, s \in Subscribers : \A i, j \in DOMAIN Received(s) :
    /\ thread[p].pc = "fanout"
    /\ i < j /\ Received(s)[i] = LineOf(p) /\ Received(s)[j].kind = "update"
    => Received(s)[j] = LineOf(p)

OrderInv ==
  TcpInv /\ MutexInv /\ PipelineInv /\ SentInv /\ LastInv /\ SameOrder

---------------------------------------------------------------------------
(* When nobody leaves before all are accepted. *)

\* Nobody has left unless all have been accepted.
StayInv == \A c, d \in Clients : Left(c) => thread[d].pc # "none"

\* A thread that has not closed its descriptor has it, and closes it only
\* after its client has left.
HeldInv ==
  \A c \in Clients :
    IF thread[c].pc \in {"unregister", "gone"} THEN Left(c)
    ELSE alive /\ thread[c].pc # "none" =>
           thread[c].fd \in DOMAIN sock

\* No descriptor is given out twice.
DistinctInv ==
  \A c, d \in Clients : thread[c].fd # 0 /\ thread[c].fd = thread[d].fd => c = d

\* A SUBSCRIBE of s for t is under way, being handled, or has been listed.
Accounted(s, t) ==
  \/ \E i \in DOMAIN up[s] : up[s][i] = SubscribeTo(t)
  \/ thread[s].pc = "handle" /\ thread[s].req = SubscribeTo(t)
  \/ thread[s].pc # "none" /\ thread[s].fd \in Elems(topic_subscribers[t])

\* No SUBSCRIBE that was sent is forgotten while its subscriber stays.
AccountedInv ==
  \A s \in Subscribers : alive /\ s \in open =>
    \A k \in DOMAIN Wants[s] : k < sub[s].idx => Accounted(s, Wants[s][k])

HoldInv == TcpInv /\ StayInv /\ HeldInv /\ DistinctInv
OrderlyInv == HoldInv /\ AccountedInv

---------------------------------------------------------------------------
(* When moreover no subscriber asks for a match twice. *)

WantedOnce ==
  \A s \in Subscribers : \A k, l \in DOMAIN Wants[s] : Wants[s][k] = Wants[s][l] => k = l

\* The broker has read this many SUBSCRIBEs of s.
Asked(s) == sub[s].idx - 1 - Len(up[s])

\* SUBSCRIBEs are read in the order of Wants[s]; one that is handled is the
\* last that was read, unless it was read together with others.
AskedInv ==
  alive => \A s \in Subscribers :
    /\ Asked(s) >= 0
    /\ \A i \in DOMAIN up[s] :
         /\ Asked(s) + i \in DOMAIN Wants[s]
         /\ up[s][i] = SubscribeTo(Wants[s][Asked(s) + i])
    /\ thread[s].pc = "handle" =>
         \/ thread[s].req.topic = Garbled
         \/ /\ Asked(s) \in DOMAIN Wants[s]
            /\ thread[s].req.topic = Wants[s][Asked(s)]

\* SUBSCRIBEs of s that subscribe_client has listed, or passed over.
Settled(s) == IF thread[s].pc = "handle" THEN Asked(s) - 1 ELSE Asked(s)

\* A list holds subscribers that asked for its match, each of them once.
ListedInv ==
  \A t \in Topics : LET list == topic_subscribers[t] IN
    /\ \A x \in DOMAIN list : \E s \in Subscribers :
         /\ thread[s].fd = list[x]
         /\ \E k \in DOMAIN Wants[s] : k <= Settled(s) /\ Wants[s][k] = t
    /\ \A x, y \in DOMAIN list : list[x] = list[y] => x = y

\* publish_message goes through the list from its head.
HeadInv == \A p \in Publishers : thread[p].pc = "fanout" => thread[p].i # 0

\* The last event of p that publish_message has sent to position x of the list.
SentTo(p, x) ==
  IF thread[p].pc = "fanout" /\ x < thread[p].i THEN Read(p) ELSE Past(p)

\* The last line of p that a subscriber has received ends with the last event
\* sent to its position; one that is not listed has none.
FeedInv ==
  \A s \in Subscribers, p \in Publishers :
    \A i \in DOMAIN Received(s) :
      /\ ~Left(s) /\ From(p, Received(s)[i])
      /\ \A j \in DOMAIN Received(s) : From(p, Received(s)[j]) => j <= i
      => \E x \in DOMAIN topic_subscribers[TopicOf[p]] :
           /\ topic_subscribers[TopicOf[p]][x] = thread[s].fd
           /\ LET body == Received(s)[i].body
              IN  body[Len(body)] = Event(p, SentTo(p, x))

FeedingInv ==
  HoldInv /\ OrderInv /\ AskedInv /\ ListedInv /\ HeadInv /\ FeedInv /\ NoGap
===========================================================================
