-------------------------- MODULE TcpFeed_proofs --------------------------
(***************************************************************************)
(* What a subscriber of the TCP broker receives of a publisher: the        *)
(* theorem FeedWithoutGap, and from the same invariant OneMatchStands, for *)
(* every value of the constants but those they name.                       *)
(***************************************************************************)
EXTENDS TcpOrder_proofs

---------------------------------------------------------------------------
(* Lists of descriptors. *)

\* Every element is there once.
Once(q) == \A i, j \in DOMAIN q : q[i] = q[j] => i = j

\* Appending what was not there.
LEMMA AppendDistinct ==
  ASSUME NEW S, NEW q \in Seq(S), NEW x \in S, x \notin Elems(q), Once(q)
  PROVE  Once(Append(q, x))
<1>1. \A i \in DOMAIN q : q[i] # x
  BY DEF Elems
<1>2. DOMAIN Append(q, x) = DOMAIN q \cup {Len(q) + 1}
  OBVIOUS
<1>3. \A i \in DOMAIN q : Append(q, x)[i] = q[i]
  OBVIOUS
<1>4. Append(q, x)[Len(q) + 1] = x
  OBVIOUS
<1> QED BY <1>1, <1>2, <1>3, <1>4 DEF Once

\* std::remove and erase bring no descriptor in twice.
LEMMA WithoutDistinct ==
  ASSUME NEW S, NEW q \in Seq(S), NEW f, Once(q)
  PROVE  Once(Without(q, f))
<1> DEFINE K == Kept(q, f, Len(q))
           A == {k \in Nat : k <= Len(q) =>
                   K[k] \in Seq(S) /\ Elems(K[k]) \subseteq {q[i] : i \in 1..k} /\ Once(K[k])}
<1>0. Without(q, f) = K[Len(q)]
  BY DEF Without, Kept
<1>1. K = [i \in 0..Len(q) |-> IF i = 0 THEN <<>>
            ELSE IF q[i] = f THEN K[i - 1] ELSE Append(K[i - 1], q[i])]
  BY KeptExists
<1> HIDE DEF K
<1>2. 0 \in A
  <2>1. K[0] = <<>>
    <3>1. 0 \in 0..Len(q)
      OBVIOUS
    <3> QED BY <3>1, <1>1
  <2>2. Elems(<<>>) = {} /\ <<>> \in Seq(S) /\ Once(<<>>)
    BY DEF Elems, Once
  <2> QED BY <2>1, <2>2
<1>3. ASSUME NEW k \in A PROVE k + 1 \in A
  <2> SUFFICES ASSUME k + 1 <= Len(q)
               PROVE  K[k+1] \in Seq(S) /\ Elems(K[k+1]) \subseteq {q[i] : i \in 1..(k+1)}
                      /\ Once(K[k+1])
    OBVIOUS
  <2>0. k \in Nat /\ k + 1 \in 1..Len(q) /\ q[k+1] \in S
    OBVIOUS
  <2>1. K[k] \in Seq(S) /\ Elems(K[k]) \subseteq {q[i] : i \in 1..k} /\ Once(K[k])
    BY <2>0
  <2>2. K[k+1] = IF q[k+1] = f THEN K[k] ELSE Append(K[k], q[k+1])
    <3>1. k + 1 \in 0..Len(q) /\ k + 1 # 0 /\ (k+1)-1 = k
      BY <2>0
    <3> QED BY <3>1, <1>1
  <2>3. {q[i] : i \in 1..(k+1)} = {q[i] : i \in 1..k} \cup {q[k+1]}
    <3>1. 1..(k+1) = 1..k \cup {k+1}
      BY <2>0
    <3> QED BY <3>1
  <2>4. CASE q[k+1] = f
    BY <2>1, <2>2, <2>3, <2>4
  <2>5. CASE q[k+1] # f
    <3>1. K[k+1] = Append(K[k], q[k+1])
      BY <2>2, <2>5
    <3>2. q[k+1] \notin {q[i] : i \in 1..k}
      <4>1. k + 1 \in DOMAIN q /\ \A i \in 1..k : i \in DOMAIN q /\ i # k + 1
        BY <2>0
      <4>2. \A i \in 1..k : q[i] # q[k+1]
        BY <4>1 DEF Once
      <4> QED BY <4>2
    <3>3. Once(Append(K[k], q[k+1]))
      <4>1. q[k+1] \notin Elems(K[k])
        BY <2>1, <3>2
      <4> QED BY <2>0, <2>1, <4>1, AppendDistinct
    <3>4. Elems(Append(K[k], q[k+1])) = Elems(K[k]) \cup {q[k+1]}
      BY <2>1, <2>0, ElemsAppend
    <3> QED BY <3>1, <3>3, <3>4, <2>0, <2>1, <2>3
  <2> QED BY <2>4, <2>5
<1>4. A = Nat
  BY <1>2, <1>3, NatSetInduction
<1>5. Len(q) \in A
  <2>1. Len(q) \in Nat
    OBVIOUS
  <2> HIDE DEF A
  <2> QED BY <2>1, <1>4
<1> QED BY <1>0, <1>5

---------------------------------------------------------------------------
(* What a step leaves alone. *)

\* A subscriber that stays keeps all it has received.
NothingLost ==
  \A s \in Subscribers : ~Left(s)' =>
    ~Left(s) /\ \A i \in DOMAIN Received(s) :
                  i \in DOMAIN Received(s)' /\ Received(s)'[i] = Received(s)[i]

\* The place of a subscriber in a list, and what has been sent there.
Place(s, t, x) == x \in DOMAIN topic_subscribers[t] /\ topic_subscribers[t][x] = thread[s].fd

\* A step of anything but publish_message leaves no gap.
LEMMA NoGapFrame ==
  ASSUME TypeOK, TypeOK', NoGap, NothingNew
  PROVE  NoGap'
<1> SUFFICES ASSUME NEW s \in Subscribers, NEW p \in Publishers
             PROVE  \A i \in DOMAIN Received(s)' :
    LET body == Received(s)'[i].body
    IN  From(p, Received(s)'[i]) =>
          /\ \A k \in 1..(Len(body) - 1) : body[k + 1] = Event(p, body[k][2] + 1)
          /\ \A j \in DOMAIN Received(s)' :
               /\ i < j /\ From(p, Received(s)'[j])
               /\ \A k \in (i + 1)..(j - 1) : ~From(p, Received(s)'[k])
               => Received(s)'[j].body[1][2] = body[Len(body)][2] + 1
  BY DEF NoGap, From
<1>1. \A i \in DOMAIN Received(s)' : From(p, Received(s)'[i]) =>
        i \in DOMAIN Received(s) /\ Received(s)'[i] = Received(s)[i]
  BY DEF NothingNew, From
<1>2. \A i \in DOMAIN Received(s)' : i \in DOMAIN Received(s) => Received(s)'[i] = Received(s)[i]
  BY DEF NothingNew
<1>3. \E m, n \in Nat : DOMAIN Received(s) = 1..m /\ DOMAIN Received(s)' = 1..n
  BY ReceivedTypes, ReceivedInt
<1>4. \A i, j, k : i \in DOMAIN Received(s) /\ j \in DOMAIN Received(s) /\ j \in DOMAIN Received(s)'
                   /\ k \in (i + 1)..(j - 1)
        => k \in DOMAIN Received(s) /\ k \in DOMAIN Received(s)'
  BY <1>3
<1>5. \A i \in DOMAIN Received(s) :
    LET body == Received(s)[i].body
    IN  From(p, Received(s)[i]) =>
          /\ \A k \in 1..(Len(body) - 1) : body[k + 1] = Event(p, body[k][2] + 1)
          /\ \A j \in DOMAIN Received(s) :
               /\ i < j /\ From(p, Received(s)[j])
               /\ \A k \in (i + 1)..(j - 1) : ~From(p, Received(s)[k])
               => Received(s)[j].body[1][2] = body[Len(body)][2] + 1
  BY DEF NoGap
<1> QED BY <1>1, <1>2, <1>4, <1>5

\* A step after which every subscriber that stays still has its place, and
\* has been sent as much there.
LEMMA FeedFrame ==
  ASSUME FeedInv, NothingNew, NothingLost,
         \A s \in Subscribers, p \in Publishers : ~Left(s)' =>
           \A x : Place(s, TopicOf[p], x) =>
             \E y : Place(s, TopicOf[p], y)' /\ SentTo(p, y)' = SentTo(p, x)
  PROVE  FeedInv'
<1> DEFINE Ends(p, line, n) == line.body[Len(line.body)] = Event(p, n)
<1>1. ASSUME NEW s \in Subscribers, NEW p \in Publishers, ~Left(s)'
      PROVE  \A i \in DOMAIN Received(s)' :
               /\ From(p, Received(s)'[i])
               /\ \A j \in DOMAIN Received(s)' : From(p, Received(s)'[j]) => j <= i
               => \E y : Place(s, TopicOf[p], y)' /\ Ends(p, Received(s)'[i], SentTo(p, y)')
  <2>1. \A i \in DOMAIN Received(s) :
               /\ From(p, Received(s)[i])
               /\ \A j \in DOMAIN Received(s) : From(p, Received(s)[j]) => j <= i
               => \E x : Place(s, TopicOf[p], x) /\ Ends(p, Received(s)[i], SentTo(p, x))
    BY <1>1 DEF FeedInv, Place, NothingLost
  <2>2. \A i \in DOMAIN Received(s)' : From(p, Received(s)'[i]) =>
          i \in DOMAIN Received(s) /\ Received(s)'[i] = Received(s)[i]
    BY DEF NothingNew, From
  <2>3. \A i \in DOMAIN Received(s) : i \in DOMAIN Received(s)' /\ Received(s)'[i] = Received(s)[i]
    BY <1>1 DEF NothingLost
  <2>4. \A x : Place(s, TopicOf[p], x) =>
          \E y : Place(s, TopicOf[p], y)' /\ SentTo(p, y)' = SentTo(p, x)
    BY <1>1
  <2> HIDE DEF Ends
  <2> QED BY <2>1, <2>2, <2>3, <2>4
<1> QED BY <1>1 DEF FeedInv, Place

---------------------------------------------------------------------------
(* The SUBSCRIBEs of a subscriber. *)

\* Counting the SUBSCRIBEs that are under way.
LEMMA AskedCounts ==
  ASSUME TypeOK, NEW s \in Subscribers
  PROVE  /\ s \in Clients /\ sub[s].idx \in Nat /\ up[s] \in Seq(Requests)
         /\ Len(up[s]) \in Nat /\ DOMAIN up[s] = 1..Len(up[s])
         /\ Asked(s) \in Int /\ Settled(s) \in Int
<1>1. s \in Clients /\ up[s] \in Seq(Requests) /\ sub[s].idx \in Nat
  BY DEF Clients, TypeOK, NetTypeOK, ClientTypeOK
<1>2. Len(up[s]) \in Nat /\ DOMAIN up[s] = 1..Len(up[s])
  BY <1>1
<1>3. Asked(s) \in Int
  BY <1>1, <1>2 DEF Asked
<1> QED BY <1>1, <1>2, <1>3 DEF Settled

\* The same after a step.
LEMMA SettledInt ==
  ASSUME TypeOK'
  PROVE  \A s \in Subscribers : Asked(s)' \in Int /\ Settled(s)' \in Int
<1> TAKE s \in Subscribers
<1>1. up'[s] \in Seq(Requests) /\ sub'[s].idx \in Nat
  BY DEF Clients, TypeOK, NetTypeOK, ClientTypeOK
<1>2. Len(up'[s]) \in Nat
  BY <1>1
<1>3. Asked(s)' \in Int
  BY <1>1, <1>2 DEF Asked
<1> QED BY <1>3 DEF Settled

\* The descriptors that are listed are real ones.
LEMMA ListTypes ==
  ASSUME TypeOK, NEW t \in Topics
  PROVE  /\ t \in Names /\ topic_subscribers[t] \in Seq(Fds)
         /\ \A x \in DOMAIN topic_subscribers[t] : topic_subscribers[t][x] \in Fds
         /\ \A x \in DOMAIN topic_subscribers[t] : topic_subscribers[t][x] # 0
<1>1. t \in Names /\ topic_subscribers[t] \in Seq(Fds)
  BY DEF Names, TypeOK, BrokerTypeOK
<1> DEFINE q == topic_subscribers[t]
<1>2. q \in Seq(Fds)
  BY <1>1
<1> HIDE DEF q
<1>3. \A x \in DOMAIN q : q[x] \in Fds
  BY <1>2
<1>4. \A f \in Fds : f # 0
  BY DEF Fds
<1> QED BY <1>1, <1>3, <1>4 DEF q

\* A step that sends or receives no SUBSCRIBE.
LEMMA AskedFrame ==
  ASSUME AskedInv, alive' => alive,
         \A s \in Subscribers :
           /\ sub'[s].idx = sub[s].idx /\ up'[s] = up[s]
           /\ thread'[s].pc = "handle" => thread[s].pc = "handle" /\ thread'[s].req = thread[s].req
  PROVE  AskedInv' /\ \A s \in Subscribers : Asked(s)' = Asked(s)
<1>1. \A s \in Subscribers : Asked(s)' = Asked(s)
  BY DEF Asked
<1> QED BY <1>1 DEF AskedInv

\* subscribe_to_match sends the next SUBSCRIBE.
LEMMA SubSendAsked ==
  ASSUME TcpAssumption, TcpInv, AskedInv, NEW s \in Subscribers, SubSend(s), UNCHANGED brokerVars
  PROVE  AskedInv' /\ \A r \in Subscribers : Asked(r)' >= Asked(r)
<1> DEFINE n == sub[s].idx
           l == Len(up[s])
           req == SubscribeTo(Wants[s][n])
<1>1. /\ TypeOK /\ UNCHANGED <<thread, alive>> /\ n \in DOMAIN Wants[s]
      /\ sub' = [sub EXCEPT ![s] = [pc |-> NextMatch(s, @.idx + 1), idx |-> @.idx + 1]]
      /\ up' = IF alive THEN [up EXCEPT ![s] = Append(@, req)] ELSE up
  BY DEF TcpInv, ProgressInv, SubSend, SendUp, netVars, brokerVars
<1>2. /\ n \in Nat /\ l \in Nat /\ up[s] \in Seq(Requests) /\ DOMAIN up[s] = 1..l
      /\ sub'[s].idx = n + 1 /\ up'[s] = (IF alive THEN Append(up[s], req) ELSE up[s])
      /\ \A r \in Subscribers : r # s => sub'[r] = sub[r] /\ up'[r] = up[r]
  BY <1>1, AskedCounts DEF TypeOK, NetTypeOK, ClientTypeOK, Clients
<1>3. req \in Requests
  <2>1. Wants[s][n] \in Topics
    BY <1>1 DEF TcpAssumption
  <2> QED BY <2>1, RequestTypes DEF Names
<1>4. \A r \in Subscribers : r # s => Asked(r)' = Asked(r)
  BY <1>2 DEF Asked
<1>5. Asked(s) = n - 1 - l /\ Asked(s)' = (n + 1) - 1 - Len(up'[s])
  BY <1>2, Zenon DEF Asked
<1>6. CASE alive
  <2>0. \A r \in Subscribers : Asked(r) \in Int
    BY <1>1, AskedCounts
  <2> DEFINE q == up[s]
  <2>1. q \in Seq(Requests) /\ up'[s] = Append(q, req) /\ l = Len(q)
    BY <1>2, <1>6
  <2> HIDE DEF q, req, n, l
  <2>2. /\ Len(Append(q, req)) = l + 1
        /\ \A i \in DOMAIN Append(q, req) : (i \in DOMAIN q /\ Append(q, req)[i] = q[i])
                                            \/ (i = l + 1 /\ Append(q, req)[i] = req)
    BY <1>3, <2>1
  <2>3. Asked(s)' = Asked(s) /\ Asked(s) + (l + 1) = n /\ Asked(s) \in Int
    <3>1. Len(up'[s]) = l + 1
      BY <2>1, <2>2, Zenon
    <3>2. n \in Nat /\ l \in Nat
      BY <1>2
    <3> QED BY <1>5, <3>1, <3>2
  <2>4. \A i \in DOMAIN q : /\ Asked(s) + i \in DOMAIN Wants[s]
                            /\ q[i] = SubscribeTo(Wants[s][Asked(s) + i])
    BY <1>6 DEF AskedInv, q
  <2>5. \A i \in DOMAIN up'[s] : /\ Asked(s) + i \in DOMAIN Wants[s]
                                 /\ up'[s][i] = SubscribeTo(Wants[s][Asked(s) + i])
    BY <1>1, <2>1, <2>2, <2>3, <2>4 DEF req
  <2>6. AskedInv'
    BY <1>1, <1>2, <1>4, <1>6, <2>3, <2>5 DEF AskedInv
  <2>7. \A r \in Subscribers : Asked(r)' = Asked(r)
    BY <1>4, <2>3
  <2>8. \A x \in Int : x >= x
    OBVIOUS
  <2> QED BY <2>0, <2>6, <2>7, <2>8
<1>7. CASE ~alive
  <2>1. AskedInv'
    BY <1>1, <1>7 DEF AskedInv
  <2>2. Asked(s)' >= Asked(s)
    BY <1>2, <1>5, <1>7
  <2>3. \A r \in Subscribers : Asked(r) \in Int
    BY <1>1, AskedCounts
  <2> QED BY <1>4, <2>1, <2>2, <2>3
<1> QED BY <1>6, <1>7

\* recv takes the next ones.
LEMMA RecvRequestAsked ==
  ASSUME TcpAssumption, TcpInv, AskedInv, NEW c \in Clients, RecvRequest(c), UNCHANGED clientVars
  PROVE  AskedInv' /\ \A s \in Subscribers : Settled(s)' >= Settled(s)
<1>1. TypeOK /\ UpInv /\ UNCHANGED <<sub, alive>> /\ alive
      /\ \A s \in Subscribers : s \in Clients
  BY DEF TcpInv, RecvRequest, clientVars, Clients
<1>2. PICK n \in 1..Len(up[c]) :
         /\ thread[c].pc = "recv" /\ thread'[c].pc = "handle"
         /\ thread'[c].req = Parse(SubSeq(up[c], 1, n))
         /\ Len(up'[c]) = Len(up[c]) - n /\ DOMAIN up'[c] = 1..(Len(up[c]) - n)
         /\ \A i \in 1..(Len(up[c]) - n) : up'[c][i] = up[c][n + i]
         /\ \A d \in Clients : d # c => thread'[d] = thread[d] /\ up'[d] = up[d]
  BY <1>1, Receiving
<1>3. \A s \in Subscribers : s # c => Asked(s)' = Asked(s) /\ Settled(s)' = Settled(s)
  BY <1>1, <1>2 DEF Asked, Settled
<1>4. CASE c \in Subscribers
  <2> DEFINE l == Len(up[c])
             a == Asked(c)
             seq == sub[c].idx
  <2>1. l \in Nat /\ a \in Nat /\ n \in 1..l /\ DOMAIN up[c] = 1..l /\ seq \in Nat
    BY <1>1, <1>2, <1>4, AskedCounts DEF AskedInv
  <2>2. a = seq - 1 - l /\ Asked(c)' = seq - 1 - Len(up'[c])
    BY <1>1, Zenon DEF Asked
  <2>3. \A i \in 1..l : /\ a + i \in DOMAIN Wants[c]
                        /\ up[c][i] = SubscribeTo(Wants[c][a + i])
    BY <1>1, <1>4, <2>1 DEF AskedInv
  <2>4. Len(up'[c]) = l - n
    BY <1>2
  <2> HIDE DEF l, a, seq
  <2>5. Asked(c)' = a + n
    BY <2>1, <2>2, <2>4
  <2>6. \A i \in DOMAIN up'[c] : /\ (a + n) + i \in DOMAIN Wants[c]
                                 /\ up'[c][i] = SubscribeTo(Wants[c][(a + n) + i])
    <3>1. \A i \in 1..(l - n) : n + i \in 1..l /\ a + (n + i) = (a + n) + i
      BY <2>1
    <3>2. DOMAIN up'[c] = 1..(l - n) /\ \A i \in 1..(l - n) : up'[c][i] = up[c][n + i]
      BY <1>2 DEF l
    <3> QED BY <2>3, <3>1, <3>2
  <2>7. \/ thread'[c].req.topic = Garbled
        \/ a + n \in DOMAIN Wants[c] /\ thread'[c].req.topic = Wants[c][a + n]
    <3>1. \/ n = 1 /\ thread'[c].req = up[c][1]
          \/ thread'[c].req.topic = Garbled
      BY <1>1, <1>2, <1>4, ParsedSubscribe
    <3>2. 1 \in 1..l
      BY <2>1
    <3>3. \A t : SubscribeTo(t).topic = t
      BY DEF SubscribeTo
    <3>4. n = 1 => a + 1 = a + n
      OBVIOUS
    <3> QED BY <2>3, <3>1, <3>2, <3>3, <3>4
  <2>8. AskedInv'
    <3>1. a + n >= 0
      BY <2>1
    <3>2. \A s \in Subscribers : s # c => thread'[s] = thread[s] /\ up'[s] = up[s]
      BY <1>1, <1>2
    <3> SUFFICES ASSUME NEW s \in Subscribers
                 PROVE  /\ Asked(s)' >= 0
                        /\ \A i \in DOMAIN up'[s] :
                             /\ Asked(s)' + i \in DOMAIN Wants[s]
                             /\ up'[s][i] = SubscribeTo(Wants[s][Asked(s)' + i])
                        /\ thread'[s].pc = "handle" =>
                             \/ thread'[s].req.topic = Garbled
                             \/ /\ Asked(s)' \in DOMAIN Wants[s]
                                /\ thread'[s].req.topic = Wants[s][Asked(s)']
      BY DEF AskedInv
    <3>3. CASE s # c
      BY <1>1, <1>3, <3>2, <3>3 DEF AskedInv
    <3>4. CASE s = c
      BY <2>5, <2>6, <2>7, <3>1, <3>4
    <3> QED BY <3>3, <3>4
  <2>9. Settled(c)' >= Settled(c)
    <3>1. Settled(c) = a /\ Settled(c)' = (a + n) - 1
      BY <1>2, <2>5 DEF Settled, a
    <3> QED BY <2>1, <3>1
  <2> QED BY <1>1, <1>3, <2>8, <2>9, AskedCounts
<1>5. CASE c \notin Subscribers
  <2>1. AskedInv'
    BY <1>1, <1>2, <1>5, AskedFrame
  <2> QED BY <1>1, <1>3, <1>5, <2>1, AskedCounts
<1> QED BY <1>4, <1>5

---------------------------------------------------------------------------
(* A step that leaves the lists alone. *)

\* A SUBSCRIBE is settled in order, the lists stay.
LEMMA ListedFrame ==
  ASSUME TypeOK, TypeOK', ListedInv, UNCHANGED topic_subscribers,
         \A s \in Subscribers : thread[s].fd # 0 => thread'[s].fd = thread[s].fd,
         \A s \in Subscribers : Settled(s)' >= Settled(s)
  PROVE  ListedInv'
<1>1. \A s \in Subscribers : Settled(s) \in Int
  BY AskedCounts
<1>2. \A s \in Subscribers : Settled(s)' \in Int
  BY SettledInt
<1>3. \A s \in Subscribers : \A k \in DOMAIN Wants[s] : k \in Int
  BY TcpAssumption DEF TcpAssumption
<1>4. \A t \in Topics : \A x \in DOMAIN topic_subscribers[t] : topic_subscribers[t][x] # 0
  BY ListTypes
<1>5. \A s \in Subscribers : \A k \in DOMAIN Wants[s] : k <= Settled(s) => k <= Settled(s)'
  BY <1>1, <1>2, <1>3
<1> QED BY <1>4, <1>5 DEF ListedInv

\* What holds of such a step as a whole.
LEMMA QuietFeed ==
  ASSUME TypeOK', FeedingInv, HoldInv', OrderInv', HeadInv', AskedInv', NothingNew, NothingLost,
         UNCHANGED topic_subscribers,
         \A s \in Subscribers : thread[s].fd # 0 => thread'[s].fd = thread[s].fd,
         \A s \in Subscribers : Settled(s)' >= Settled(s),
         \A p \in Publishers : \A x \in DOMAIN topic_subscribers[TopicOf[p]] :
           SentTo(p, x)' = SentTo(p, x)
  PROVE  FeedingInv'
<1>1. TypeOK
  BY DEF FeedingInv, HoldInv, TcpInv
<1>2. ListedInv'
  BY <1>1, ListedFrame DEF FeedingInv
<1>3. NoGap'
  BY <1>1, NoGapFrame DEF FeedingInv
<1>4. FeedInv'
  <2>1. \A t \in Topics : \A x \in DOMAIN topic_subscribers[t] : topic_subscribers[t][x] # 0
    BY <1>1, ListTypes
  <2>2. \A s \in Subscribers, p \in Publishers : \A x :
          Place(s, TopicOf[p], x) => Place(s, TopicOf[p], x)' /\ SentTo(p, x)' = SentTo(p, x)
    BY <2>1, TcpAssumption DEF Place, TcpAssumption
  <2>3. \A s \in Subscribers, p \in Publishers : ~Left(s)' =>
          \A x : Place(s, TopicOf[p], x) =>
            \E y : Place(s, TopicOf[p], y)' /\ SentTo(p, y)' = SentTo(p, x)
    BY <2>2
  <2> QED BY <2>3, FeedFrame DEF FeedingInv
<1> QED BY <1>2, <1>3, <1>4 DEF FeedingInv

\* A step that publishes nothing moves no position on.
LEMMA SentToFrame ==
  ASSUME \A p \in Publishers :
           /\ Read(p)' = Read(p)
           /\ Publishing(p)' <=> Publishing(p)
           /\ Publishing(p) => /\ thread'[p].pc = thread[p].pc /\ thread'[p].req = thread[p].req
                               /\ thread'[p].i = thread[p].i
  PROVE  \A p \in Publishers : \A x : SentTo(p, x)' = SentTo(p, x)
<1>1. \A p \in Publishers : Past(p)' = Past(p)
  BY DEF Past
<1>2. \A p \in Publishers : thread'[p].pc = "fanout" <=> thread[p].pc = "fanout"
  BY DEF Publishing
<1>3. \A p \in Publishers : thread[p].pc = "fanout" => thread'[p].i = thread[p].i
  BY DEF Publishing
<1> QED BY <1>1, <1>2, <1>3 DEF SentTo

---------------------------------------------------------------------------
(* What the client programs do. *)

\* No client program touches what the broker has read of a publisher.
LEMMA ClientReads ==
  ASSUME TcpAssumption, TcpSystemAssumption, OrderInv, TcpInv', ClientNext
  PROVE  \A q \in Publishers : Read(q)' = Read(q)
<1>1. UNCHANGED brokerVars /\ ClientTypeOK /\ NetTypeOK
  BY DEF ClientNext, OrderInv, TcpInv, TypeOK
<1>2. ASSUME \A q \in Publishers : pub'[q].seq = pub[q].seq /\ up'[q] = up[q]
      PROVE  \A q \in Publishers : Read(q)' = Read(q)
  BY <1>2 DEF Read
<1>3. ASSUME NEW p \in Publishers, PublisherNext(p)
      PROVE  \A q \in Publishers : Read(q)' = Read(q)
  <2>1. CASE PubSend(p)
    BY <1>1, <2>1, PubSendOrder
  <2>2. CASE PubConnect(p) \/ PubBreak(p) \/ PubClose(p)
    <3>1. UNCHANGED up
      BY <2>2 DEF PubConnect, PubBreak, PubClose, Connect, Shut, netVars
    <3>2. \E v \in {"send", "close", "done"} : pub' = [pub EXCEPT ![p].pc = v]
      BY <2>2 DEF PubConnect, PubBreak, PubClose
    <3>3. \A q \in Publishers : pub'[q].seq = pub[q].seq
      BY <1>1, <3>2 DEF ClientTypeOK
    <3> QED BY <1>2, <3>1, <3>3
  <2> QED BY <1>3, <2>1, <2>2 DEF PublisherNext
<1>4. ASSUME NEW s \in Subscribers, SubscriberNext(s) \/ SubLeave(s)
      PROVE  \A q \in Publishers : Read(q)' = Read(q)
  <2>1. UNCHANGED pub /\ \A q \in Publishers : q # s /\ q \in Clients
    BY <1>4 DEF SubscriberNext, SubConnect, SubSend, SubRead, SubLeave, TcpAssumption, Clients
  <2>2. UNCHANGED up \/ \E r : up' = [up EXCEPT ![s] = r]
    BY <1>4 DEF SubscriberNext, SubConnect, SubSend, SubRead, SubLeave, Connect, Shut, SendUp, netVars
  <2>3. \A q \in Publishers : up'[q] = up[q]
    BY <1>1, <2>1, <2>2 DEF NetTypeOK
  <2> QED BY <1>2, <2>1, <2>3
<1> QED BY <1>3, <1>4 DEF ClientNext, Leave, TcpSystemAssumption

\* A subscriber that stays loses nothing by what client programs do.
LEMMA ClientKeeps ==
  ASSUME TcpAssumption, TcpSystemAssumption, TcpInv, ~Churn, ClientNext
  PROVE  NothingNew /\ NothingLost
<1>1. TypeOK /\ \A c \in Clients : Left(c) => Left(c)'
  BY ClientLeft DEF TcpInv
<1>2. ASSUME NothingNew, \A s \in Subscribers : ~Left(s)' => Received(s)' = Received(s)
      PROVE  NothingNew /\ NothingLost
  BY <1>1, <1>2 DEF NothingLost, Clients
<1>3. ASSUME UNCHANGED <<shown, down>> PROVE NothingNew /\ NothingLost
  <2>1. NothingNew
    BY <1>3, UntouchedFrame
  <2> QED BY <1>2, <1>3, <2>1 DEF Received
<1>4. ASSUME NEW p \in Publishers, PublisherNext(p) PROVE NothingNew /\ NothingLost
  <2>1. CASE PubConnect(p) \/ PubSend(p) \/ PubBreak(p)
    BY <1>3, <2>1 DEF PubConnect, PubSend, PubBreak, Connect, SendUp, netVars
  <2>2. CASE PubClose(p)
    <3>1. Shut(p) /\ UNCHANGED shown /\ p \in Clients /\ \A s \in Subscribers : s # p
      BY <2>2 DEF PubClose, Clients, TcpAssumption
    <3> QED BY <1>1, <1>2, <3>1, ShuttingFrame
  <2> QED BY <1>4, <2>1, <2>2 DEF PublisherNext
<1>5. ASSUME NEW s \in Subscribers, SubscriberNext(s) \/ SubLeave(s)
      PROVE  NothingNew /\ NothingLost
  <2>1. CASE SubConnect(s) \/ SubSend(s)
    BY <1>3, <2>1 DEF SubConnect, SubSend, Connect, SendUp, netVars
  <2>2. CASE SubRead(s)
    BY <1>1, <1>2, <2>2, ReadingFrame
  <2>3. CASE SubLeave(s)
    <3>1. Shut(s) /\ UNCHANGED shown /\ s \in Clients /\ s \notin Publishers
      BY <2>3 DEF SubLeave, Clients, TcpAssumption
    <3>2. Left(s)'
      BY <1>1, <2>3, <3>1 DEF SubLeave, Left, TypeOK, ClientTypeOK
    <3> QED BY <1>1, <1>2, <3>1, <3>2, ShuttingFrame
  <2> QED BY <1>5, <2>1, <2>2, <2>3 DEF SubscriberNext
<1> QED BY <1>4, <1>5 DEF ClientNext, Leave, TcpSystemAssumption

\* SUBSCRIBEs are sent in order.
LEMMA ClientAsked ==
  ASSUME TcpAssumption, TcpSystemAssumption, TcpInv, TcpInv', AskedInv, ClientNext
  PROVE  AskedInv' /\ \A s \in Subscribers : Settled(s)' >= Settled(s)
<1>1. UNCHANGED <<brokerVars, thread>> /\ TypeOK /\ TypeOK' /\ ClientTypeOK /\ NetTypeOK
      /\ \A s \in Subscribers : s \in Clients
  BY DEF ClientNext, TcpInv, TypeOK, Clients, brokerVars
<1>2. ASSUME AskedInv', \A s \in Subscribers : Asked(s)' >= Asked(s)
      PROVE  AskedInv' /\ \A s \in Subscribers : Settled(s)' >= Settled(s)
  <2>1. \A s \in Subscribers : Asked(s) \in Int
    BY <1>1, AskedCounts
  <2>2. \A s \in Subscribers : Asked(s)' \in Int
    BY <1>1, SettledInt
  <2> QED BY <1>1, <1>2, <2>1, <2>2 DEF Settled
<1>3. ASSUME alive' => alive, \A s \in Subscribers : sub'[s].idx = sub[s].idx /\ up'[s] = up[s]
      PROVE  AskedInv' /\ \A s \in Subscribers : Settled(s)' >= Settled(s)
  <2>1. AskedInv' /\ \A s \in Subscribers : Asked(s)' = Asked(s)
    BY <1>1, <1>3, AskedFrame
  <2>2. \A s \in Subscribers : Asked(s) \in Int
    BY <1>1, AskedCounts
  <2>3. \A s \in Subscribers : Asked(s)' >= Asked(s)
    BY <2>1, <2>2
  <2> QED BY <1>2, <2>1, <2>3
<1>4. ASSUME NEW p \in Publishers, PublisherNext(p)
      PROVE  AskedInv' /\ \A s \in Subscribers : Settled(s)' >= Settled(s)
  <2>1. UNCHANGED <<sub, alive>>
    BY <1>4 DEF PublisherNext, PubConnect, PubSend, PubBreak, PubClose, Connect, SendUp, Shut, netVars
  <2>2. UNCHANGED up \/ \E r : up' = [up EXCEPT ![p] = r]
    BY <1>4 DEF PublisherNext, PubConnect, PubSend, PubBreak, PubClose, Connect, SendUp, Shut, netVars
  <2>3. \A s \in Subscribers : up'[s] = up[s]
    BY <1>1, <2>2 DEF NetTypeOK, TcpAssumption
  <2> QED BY <1>3, <2>1, <2>3
<1>5. ASSUME NEW s \in Subscribers, SubscriberNext(s) \/ SubLeave(s)
      PROVE  AskedInv' /\ \A r \in Subscribers : Settled(r)' >= Settled(r)
  <2>1. CASE SubSend(s)
    BY <1>1, <1>2, <2>1, SubSendAsked
  <2>2. CASE SubConnect(s) \/ SubRead(s) \/ SubLeave(s)
    <3>1. UNCHANGED <<up, alive>>
      BY <2>2 DEF SubConnect, SubRead, SubLeave, Connect, Shut
    <3>2. UNCHANGED sub \/ \E v : sub' = [sub EXCEPT ![s].pc = v]
      BY <2>2 DEF SubConnect, SubRead, SubLeave
    <3>3. \A r \in Subscribers : sub'[r].idx = sub[r].idx
      <4>1. CASE UNCHANGED sub
        BY <4>1
      <4>2. CASE \E v : sub' = [sub EXCEPT ![s].pc = v]
        BY <1>1, <4>2 DEF ClientTypeOK
      <4> QED BY <3>2, <4>1, <4>2
    <3> QED BY <1>3, <3>1, <3>3
  <2> QED BY <1>5, <2>1, <2>2 DEF SubscriberNext
<1> QED BY <1>4, <1>5 DEF ClientNext, Leave, TcpSystemAssumption

\* Whatever the clients do, the feed goes on.
LEMMA ClientFeed ==
  ASSUME TcpAssumption, TcpSystemAssumption, ~Churn, FeedingInv, HoldInv', OrderInv', HeadInv', ClientNext
  PROVE  FeedingInv'
<1>1. /\ TcpInv /\ TcpInv' /\ TypeOK' /\ OrderInv /\ AskedInv
      /\ UNCHANGED <<topic_subscribers, thread>>
  BY DEF FeedingInv, HoldInv, OrderInv, TcpInv, ClientNext, brokerVars
<1>2. NothingNew /\ NothingLost
  BY <1>1, ClientKeeps
<1>3. AskedInv' /\ \A s \in Subscribers : Settled(s)' >= Settled(s)
  BY <1>1, ClientAsked
<1>4. \A p \in Publishers : \A x : SentTo(p, x)' = SentTo(p, x)
  <2>1. \A p \in Publishers : Read(p)' = Read(p)
    BY <1>1, ClientReads
  <2> QED BY <1>1, <2>1, SentToFrame DEF Publishing
<1> QED BY <1>1, <1>2, <1>3, <1>4, QuietFeed

---------------------------------------------------------------------------
(* What the broker does. *)

\* A publisher publishes on its match.
LEMMA PublishedTopic ==
  ASSUME TypeOK, PipelineInv, NEW p \in Publishers, Publishing(p)
  PROVE  thread[p].req.topic = TopicOf[p]
<1>1. thread[p].req = PublishIn(TopicOf[p], Run(p, Past(p), Read(p)))
  BY LineFacts
<1>2. \A t, evs : PublishIn(t, evs).topic = t
  BY DEF PublishIn
<1> QED BY <1>1, <1>2, Zenon

\* A step of the broker makes no subscriber leave.
LEMMA BrokerKeeps ==
  ASSUME UNCHANGED clientVars,
         \A s \in Subscribers : \A i \in DOMAIN Received(s) :
           i \in DOMAIN Received(s)' /\ Received(s)'[i] = Received(s)[i]
  PROVE  NothingLost /\ \A c \in Clients : Left(c)' <=> Left(c)
<1>1. \A c \in Clients : Left(c)' <=> Left(c)
  BY DEF Left, clientVars
<1> QED BY <1>1 DEF NothingLost, Clients

\* A step of the broker that receives no SUBSCRIBE settles what it settles.
LEMMA BrokerAsked ==
  ASSUME TypeOK, AskedInv, UNCHANGED clientVars, alive' => alive,
         \A s \in Subscribers :
           /\ up'[s] = up[s]
           /\ thread'[s].pc = "handle" => thread[s].pc = "handle" /\ thread'[s].req = thread[s].req
  PROVE  AskedInv' /\ \A s \in Subscribers : Asked(s)' = Asked(s) /\ Settled(s)' >= Settled(s)
<1>1. AskedInv' /\ \A s \in Subscribers : Asked(s)' = Asked(s)
  BY AskedFrame DEF clientVars
<1>2. \A s \in Subscribers : Asked(s) \in Int
  BY AskedCounts
<1> QED BY <1>1, <1>2 DEF Settled

\* Reading requests moves no position on.
LEMMA RecvRequestFeed ==
  ASSUME TcpAssumption, FeedingInv, HoldInv', OrderInv', HeadInv', NEW c \in Clients, RecvRequest(c),
         UNCHANGED clientVars
  PROVE  FeedingInv'
<1>1. /\ TcpInv /\ TcpInv' /\ TypeOK /\ TypeOK' /\ OrderInv /\ AskedInv /\ MutexInv'
      /\ UNCHANGED <<topic_subscribers, down, shown>>
      /\ \A s \in Publishers \cup Subscribers : s \in Clients
  BY DEF FeedingInv, HoldInv, OrderInv, TcpInv, RecvRequest, clientVars, Clients
<1>2. NothingNew /\ NothingLost
  <2>1. NothingNew /\ \A s \in Subscribers : Received(s)' = Received(s)
    BY <1>1, UntouchedFrame DEF Received
  <2> QED BY <2>1, BrokerKeeps
<1>3. AskedInv' /\ \A s \in Subscribers : Settled(s)' >= Settled(s)
  BY <1>1, RecvRequestAsked
<1>4. /\ thread[c].pc = "recv" /\ thread'[c].pc = "handle" /\ thread'[c].fd = thread[c].fd
      /\ \A d \in Clients : d # c => thread'[d] = thread[d]
  BY <1>1, Receiving
<1>5. \A p \in Publishers : \A x : SentTo(p, x)' = SentTo(p, x)
  <2>1. \A p \in Publishers : Past(p)' = Past(p) /\ (p # c => Read(p)' = Read(p))
    BY <1>1, RecvRequestOrder
  <2> QED BY <1>1, <1>4, <2>1 DEF SentTo
<1> QED BY <1>1, <1>2, <1>3, <1>4, <1>5, QuietFeed

\* publish_message begins with no position and ends with all of them.
LEMMA PublishFeed ==
  ASSUME TcpAssumption, FeedingInv, HoldInv', OrderInv', HeadInv', NEW c \in Clients,
         LockPublish(c) \/ EndPublish(c), UNCHANGED clientVars
  PROVE  FeedingInv'
<1>1. /\ TcpInv' /\ TypeOK /\ TypeOK' /\ BrokerTypeOK /\ OrderInv /\ AskedInv
      /\ MutexInv /\ MutexInv' /\ PipelineInv
      /\ UNCHANGED <<topic_subscribers, down, shown, up, alive>>
      /\ \A s \in Publishers \cup Subscribers : s \in Clients
  BY DEF FeedingInv, HoldInv, OrderInv, TcpInv, TypeOK, LockPublish, EndPublish, netVars,
         clientVars, Clients
<1>2. NothingNew /\ NothingLost
  <2>1. NothingNew /\ \A s \in Subscribers : Received(s)' = Received(s)
    BY <1>1, UntouchedFrame DEF Received
  <2> QED BY <2>1, BrokerKeeps
<1>3. c \in Publishers /\ c \notin Subscribers
  <2>1. c \in Publishers
    BY <1>1, Kinds DEF LockPublish, EndPublish
  <2> QED BY <2>1 DEF TcpAssumption
<1>4. /\ thread'[c].fd = thread[c].fd
      /\ \A d \in Clients : d # c => thread'[d] = thread[d]
  BY <1>1 DEF LockPublish, EndPublish, BrokerTypeOK
<1>5. AskedInv' /\ \A s \in Subscribers : Settled(s)' >= Settled(s)
  BY <1>1, <1>3, <1>4, BrokerAsked
<1>6. \A p \in Publishers : \A x \in DOMAIN topic_subscribers[TopicOf[p]] :
        SentTo(p, x)' = SentTo(p, x)
  <2> DEFINE list == topic_subscribers[TopicOf[c]]
  <2>1. list \in Seq(Fds)
    BY <1>1, <1>3, ListTypes DEF TcpAssumption
  <2> HIDE DEF list
  <2>2. \A x \in DOMAIN list : x \in 1..Len(list) /\ Len(list) \in Nat
    BY <2>1
  <2>3. CASE LockPublish(c)
    <3>1. thread[c].pc = "handle" /\ thread'[c].i = 1
      BY <1>1, <2>3 DEF LockPublish, BrokerTypeOK
    <3>2. \A p \in Publishers : Past(p)' = Past(p) /\ Read(p)' = Read(p)
      BY <1>1, <2>3, LockPublishOrder
    <3>3. \A x \in DOMAIN list : ~(x < thread'[c].i)
      BY <2>2, <3>1
    <3> QED BY <1>1, <1>4, <3>1, <3>2, <3>3 DEF SentTo, list
  <2>4. CASE EndPublish(c)
    <3>1. /\ thread[c].pc = "fanout" /\ thread'[c].pc # "fanout"
          /\ thread[c].i > Len(Targets(c)) /\ thread[c].i \in Nat
      BY <1>1, <2>4, ThreadTypes DEF EndPublish, BrokerTypeOK, AtLoop
    <3>2. Targets(c) = list
      BY <1>1, <1>3, <3>1, PublishedTopic DEF Targets, list, Publishing
    <3>3. \A x \in DOMAIN list : x < thread[c].i
      BY <2>2, <3>1, <3>2
    <3>4. Past(c)' = Read(c)
          /\ \A p \in Publishers : Read(p)' = Read(p) /\ (p # c => Past(p)' = Past(p))
      BY <1>1, <2>4, EndPublishOrder
    <3> QED BY <1>1, <1>4, <3>1, <3>3, <3>4 DEF SentTo, list
  <2> QED BY <2>3, <2>4
<1> QED BY <1>1, <1>2, <1>4, <1>5, <1>6, QuietFeed

\* Leaving the loop and confirming a subscription change nothing for the feed.
LEMMA QuietThreadFeed ==
  ASSUME TcpAssumption, FeedingInv, HoldInv', OrderInv', HeadInv', NEW c \in Clients,
         RecvEnd(c) \/ Confirm(c), UNCHANGED clientVars
  PROVE  FeedingInv'
<1>1. /\ TcpInv' /\ TypeOK /\ TypeOK' /\ BrokerTypeOK /\ OrderInv /\ AskedInv
      /\ MutexInv /\ PipelineInv
      /\ UNCHANGED <<topic_subscribers, shown, up, alive>>
      /\ \A s \in Publishers \cup Subscribers : s \in Clients
  BY DEF FeedingInv, HoldInv, OrderInv, TcpInv, TypeOK, RecvEnd, Confirm, clientVars, Clients
<1>2. NothingNew /\ NothingLost
  <2>1. CASE RecvEnd(c)
    <3>1. UNCHANGED down
      BY <2>1 DEF RecvEnd
    <3>2. NothingNew /\ \A s \in Subscribers : Received(s)' = Received(s)
      BY <1>1, <3>1, UntouchedFrame DEF Received
    <3> QED BY <3>2, BrokerKeeps
  <2>2. CASE Confirm(c)
    BY <1>1, <2>2, ConfirmFrame, BrokerKeeps
  <2> QED BY <2>1, <2>2
<1>3. /\ thread[c].pc \in {"recv", "confirm"}
      /\ thread'[c].pc \in {"unregister", "recv", "quit"}
      /\ thread'[c].fd = thread[c].fd
      /\ \A d \in Clients : d # c => thread'[d] = thread[d]
  <2>1. CASE RecvEnd(c)
    BY <1>1, <2>1 DEF RecvEnd, BrokerTypeOK
  <2>2. CASE Confirm(c)
    <3>1. /\ thread[c].pc = "confirm"
          /\ thread' = [thread EXCEPT ![c].pc = AtLoop, ![c].req = NoRequest]
      BY <2>2 DEF Confirm
    <3> QED BY <1>1, <3>1 DEF BrokerTypeOK, AtLoop
  <2> QED BY <2>1, <2>2
<1>4. AskedInv' /\ \A s \in Subscribers : Settled(s)' >= Settled(s)
  BY <1>1, <1>3, BrokerAsked
<1>5. \A p \in Publishers : \A x : SentTo(p, x)' = SentTo(p, x)
  <2>1. \A p \in Publishers : Read(p)' = Read(p)
    BY <1>1 DEF Read, clientVars
  <2> QED BY <1>1, <1>3, <2>1, SentToFrame DEF Publishing
<1> QED BY <1>1, <1>2, <1>3, <1>4, <1>5, QuietFeed

\* A client that is accepted was in no list.
LEMMA AcceptFeed ==
  ASSUME TcpAssumption, FeedingInv, HoldInv', OrderInv', HeadInv', Accept, UNCHANGED clientVars
  PROVE  FeedingInv'
<1> DEFINE c == Head(backlog)
<1>1. /\ TcpInv' /\ TypeOK /\ TypeOK' /\ BrokerTypeOK /\ ConnInv /\ AskedInv
      /\ backlog \in Seq(Clients) /\ backlog # <<>> /\ alive
      /\ UNCHANGED <<topic_subscribers, down, shown, up>>
      /\ thread' = [thread EXCEPT ![c].pc = "recv", ![c].fd = FreeFd]
      /\ \A s \in Publishers \cup Subscribers : s \in Clients
  BY DEF FeedingInv, HoldInv, OrderInv, TcpInv, TypeOK, NetTypeOK, Accept, clientVars, Clients
<1>2. c \in Clients /\ c \in Elems(backlog)
  BY <1>1, TailElems
<1>3. thread[c].pc = "none" /\ thread[c].fd = 0
  BY <1>1, <1>2 DEF ConnInv
<1> HIDE DEF c
<1>4. thread'[c].pc = "recv" /\ \A d \in Clients : d # c => thread'[d] = thread[d]
  BY <1>1, <1>2 DEF BrokerTypeOK
<1>5. NothingNew /\ NothingLost
  <2>1. NothingNew /\ \A s \in Subscribers : Received(s)' = Received(s)
    BY <1>1, UntouchedFrame DEF Received
  <2> QED BY <2>1, BrokerKeeps
<1>6. AskedInv' /\ \A s \in Subscribers : Settled(s)' >= Settled(s)
  BY <1>1, <1>3, <1>4, BrokerAsked
<1>7. \A p \in Publishers : \A x : SentTo(p, x)' = SentTo(p, x)
  <2>1. \A p \in Publishers : Read(p)' = Read(p)
    BY <1>1 DEF Read, clientVars
  <2> QED BY <1>1, <1>3, <1>4, <2>1, SentToFrame DEF Publishing
<1>8. \A s \in Subscribers : thread[s].fd # 0 => thread'[s].fd = thread[s].fd
  BY <1>1, <1>3, <1>4
<1> QED BY <1>1, <1>5, <1>6, <1>7, <1>8, QuietFeed

\* Why a descriptor may be in the list of t: a subscriber that has it asked for t.
Owned(t, f) ==
  \E s \in Subscribers : /\ thread[s].fd = f
                         /\ \E k \in DOMAIN Wants[s] : k <= Settled(s) /\ Wants[s][k] = t

\* What ListedInv says, in these terms.
LEMMA ListedFacts ==
  ASSUME ListedInv, NEW t \in Topics
  PROVE  Once(topic_subscribers[t]) /\ \A f \in Elems(topic_subscribers[t]) : Owned(t, f)
<1>1. Once(topic_subscribers[t])
  BY DEF ListedInv, Once
<1>2. \A x \in DOMAIN topic_subscribers[t] : Owned(t, topic_subscribers[t][x])
  BY Zenon DEF ListedInv, Owned
<1> QED BY <1>1, <1>2 DEF Elems

\* The same after a step.
LEMMA ListedLater ==
  ASSUME \A t \in Topics : /\ Once(topic_subscribers'[t])
                           /\ \A f \in Elems(topic_subscribers'[t]) : Owned(t, f)'
  PROVE  ListedInv'
<1>1. ASSUME NEW t \in Topics
      PROVE  \A x, y \in DOMAIN topic_subscribers'[t] :
               topic_subscribers'[t][x] = topic_subscribers'[t][y] => x = y
  BY <1>1 DEF Once
<1>2. ASSUME NEW t \in Topics
      PROVE  \A x \in DOMAIN topic_subscribers'[t] : \E s \in Subscribers :
               /\ thread'[s].fd = topic_subscribers'[t][x]
               /\ \E k \in DOMAIN Wants[s] : k <= Settled(s)' /\ Wants[s][k] = t
  BY <1>2 DEF Owned, Elems
<1> QED BY <1>1, <1>2 DEF ListedInv

\* A descriptor that was owned still is.
LEMMA OwnedFrame ==
  ASSUME TypeOK, TypeOK', NEW t, NEW f, Owned(t, f),
         \A s \in Subscribers : thread'[s].fd = thread[s].fd,
         \A s \in Subscribers : Settled(s)' >= Settled(s)
  PROVE  Owned(t, f)'
<1>1. \A s \in Subscribers : Settled(s) \in Int /\ Settled(s)' \in Int
  BY AskedCounts, SettledInt
<1>2. \A s \in Subscribers : \A k \in DOMAIN Wants[s] : k \in Int
  BY TcpAssumption DEF TcpAssumption
<1>3. \A s \in Subscribers : \A k \in DOMAIN Wants[s] : k <= Settled(s) => k <= Settled(s)'
  BY <1>1, <1>2
<1> QED BY <1>3 DEF Owned

\* While the mutex is free no position is ahead of another.
LEMMA FreePositions ==
  ASSUME TypeOK, MutexInv, topics_mutex = {}, NEW p \in Publishers
  PROVE  \A x : SentTo(p, x) = Past(p)
<1>1. thread[p].pc # "fanout" /\ p \in Clients
  BY DEF MutexInv, Clients
<1> QED BY <1>1 DEF SentTo

\* A subscriber that asks for every match once is listed once.
LEMMA LockSubscribeFeed ==
  ASSUME TcpAssumption, WantedOnce, FeedingInv, HoldInv', OrderInv', HeadInv', NEW c \in Clients,
         LockSubscribe(c), UNCHANGED clientVars
  PROVE  FeedingInv'
<1>0. PICK r, fd : r = thread[c].req.topic /\ fd = thread[c].fd
  OBVIOUS
<1>1. /\ TcpInv' /\ TypeOK /\ TypeOK' /\ BrokerTypeOK /\ NetTypeOK /\ AskedInv /\ ListedInv
      /\ MutexInv /\ PipelineInv /\ HeldInv /\ DistinctInv /\ ConnInv
      /\ alive /\ thread[c].pc = "handle" /\ thread[c].req.op = "SUBSCRIBE"
      /\ topics_mutex = {}
      /\ topic_subscribers' = [topic_subscribers EXCEPT ![r] = Append(@, fd)]
      /\ thread' = [thread EXCEPT ![c].pc = "confirm"]
      /\ UNCHANGED <<down, shown, up, alive>>
      /\ \A s \in Publishers \cup Subscribers : s \in Clients
  BY <1>0 DEF FeedingInv, HoldInv, OrderInv, TcpInv, TypeOK, LockSubscribe, Lock, netVars,
         clientVars, Clients
<1>2. c \in Subscribers /\ c \notin Publishers /\ r \in Names
  BY <1>0, <1>1, Kinds, ThreadTypes DEF TcpAssumption
<1>3. /\ thread'[c].pc = "confirm" /\ thread'[c].fd = fd
      /\ \A d \in Clients : d # c => thread'[d] = thread[d]
  BY <1>0, <1>1 DEF BrokerTypeOK
<1>4. fd \in Fds /\ fd # 0
  <2>1. fd \in DOMAIN sock
    BY <1>0, <1>1 DEF HeldInv
  <2> QED BY <1>1, <2>1 DEF NetTypeOK, Fds
<1>5. /\ AskedInv'
      /\ \A s \in Subscribers : Asked(s)' = Asked(s) /\ Settled(s)' >= Settled(s)
  BY <1>1, <1>3, BrokerAsked
<1>6. NothingNew /\ NothingLost
  <2>1. NothingNew /\ \A s \in Subscribers : Received(s)' = Received(s)
    BY <1>1, UntouchedFrame DEF Received
  <2> QED BY <2>1, BrokerKeeps
<1>7. ASSUME r \in Topics
      PROVE  /\ Asked(c) \in DOMAIN Wants[c] /\ Wants[c][Asked(c)] = r
             /\ fd \notin Elems(topic_subscribers[r])
  <2>1. Asked(c) \in DOMAIN Wants[c] /\ Wants[c][Asked(c)] = r
    BY <1>0, <1>1, <1>2, <1>7 DEF AskedInv, TcpAssumption
  <2>2. ASSUME fd \in Elems(topic_subscribers[r]) PROVE FALSE
    <3>1. PICK s \in Subscribers :
             /\ thread[s].fd = fd
             /\ \E k \in DOMAIN Wants[s] : k <= Settled(s) /\ Wants[s][k] = r
      <4>1. Owned(r, fd)
        BY <1>1, <1>7, <2>2, ListedFacts
      <4> QED BY <4>1 DEF Owned
    <3>2. s = c
      BY <1>0, <1>1, <1>2, <1>4, <3>1 DEF DistinctInv
    <3>3. PICK k \in DOMAIN Wants[c] : k <= Settled(c) /\ Wants[c][k] = r
      BY <3>1, <3>2
    <3>4. k = Asked(c)
      BY <1>2, <2>1, <3>3 DEF WantedOnce
    <3>5. Settled(c) = Asked(c) - 1 /\ Asked(c) \in Int
      BY <1>1, <1>2, AskedCounts DEF Settled
    <3> QED BY <3>3, <3>4, <3>5
  <2> QED BY <2>1, <2>2
<1>8. ASSUME NEW t \in Topics
      PROVE  /\ Once(topic_subscribers'[t])
             /\ \A f \in Elems(topic_subscribers'[t]) : Owned(t, f)'
             /\ \A x \in DOMAIN topic_subscribers[t] :
                  /\ x \in DOMAIN topic_subscribers'[t]
                  /\ topic_subscribers'[t][x] = topic_subscribers[t][x]
  <2> DEFINE list == topic_subscribers[t]
  <2>1. list \in Seq(Fds) /\ t \in Names
    BY <1>1, ListTypes
  <2>2. topic_subscribers'[t] = IF t = r THEN Append(list, fd) ELSE list
    BY <1>1, <2>1 DEF BrokerTypeOK
  <2>3. Once(list) /\ \A f \in Elems(list) : Owned(t, f)
    BY <1>1, ListedFacts
  <2>4. \A f \in Elems(list) : Owned(t, f)'
    BY <1>0, <1>1, <1>3, <1>5, <2>3, OwnedFrame
  <2> HIDE DEF list
  <2>5. CASE t # r
    BY <2>2, <2>3, <2>4, <2>5 DEF list
  <2>6. CASE t = r
    <3>1. fd \notin Elems(list) /\ Asked(c) \in DOMAIN Wants[c] /\ Wants[c][Asked(c)] = t
      BY <1>7, <2>6 DEF list
    <3>2. Once(Append(list, fd))
      BY <1>4, <2>1, <2>3, <3>1, AppendDistinct
    <3>3. Elems(Append(list, fd)) = Elems(list) \cup {fd}
      BY <1>4, <2>1, ElemsAppend
    <3>4. Owned(t, fd)'
      <4>1. Settled(c)' = Asked(c) /\ Asked(c) \in Int
        BY <1>1, <1>2, <1>3, <1>5, AskedCounts DEF Settled
      <4> QED BY <1>2, <1>3, <3>1, <4>1 DEF Owned
    <3>5. \A x \in DOMAIN list : x \in DOMAIN Append(list, fd) /\ Append(list, fd)[x] = list[x]
      BY <1>4, <2>1
    <3> QED BY <2>2, <2>4, <2>6, <3>2, <3>3, <3>4, <3>5 DEF list
  <2> QED BY <2>5, <2>6
<1>9. ListedInv'
  BY <1>8, ListedLater
<1>10. FeedInv'
  <2>1. \A p \in Publishers : \A x : SentTo(p, x)' = SentTo(p, x)
    <3>1. \A p \in Publishers : Read(p)' = Read(p)
      BY <1>1 DEF Read, clientVars
    <3> QED BY <1>1, <1>2, <1>3, <3>1, SentToFrame DEF Publishing
  <2>2. \A s \in Subscribers : thread'[s].fd = thread[s].fd
    BY <1>0, <1>1, <1>3
  <2>3. \A s \in Subscribers, p \in Publishers : \A x :
          Place(s, TopicOf[p], x) => Place(s, TopicOf[p], x)'
    BY <1>8, <2>2 DEF Place, TcpAssumption
  <2>4. \A s \in Subscribers, p \in Publishers : ~Left(s)' =>
          \A x : Place(s, TopicOf[p], x) =>
            \E y : Place(s, TopicOf[p], y)' /\ SentTo(p, y)' = SentTo(p, x)
    BY <2>1, <2>3
  <2> QED BY <1>6, <2>4, FeedFrame DEF FeedingInv
<1>11. NoGap'
  BY <1>1, <1>6, NoGapFrame DEF FeedingInv
<1> QED BY <1>5, <1>9, <1>10, <1>11 DEF FeedingInv

\* unregister_client moves the others up in the list, between two
\* publications.
LEMMA UnregisterFeed ==
  ASSUME TcpAssumption, FeedingInv, HoldInv', OrderInv', HeadInv', NEW c \in Clients,
         Unregister(c), UNCHANGED clientVars
  PROVE  FeedingInv'
<1>0. PICK fd : fd = thread[c].fd
  OBVIOUS
<1>1. /\ TcpInv' /\ TypeOK /\ TypeOK' /\ BrokerTypeOK /\ AskedInv /\ ListedInv
      /\ MutexInv /\ MutexInv' /\ PipelineInv /\ HeldInv /\ DistinctInv
      /\ thread[c].pc = "unregister" /\ topics_mutex = {}
      /\ topic_subscribers' = [t \in Names |-> Without(topic_subscribers[t], fd)]
      /\ thread' = [thread EXCEPT ![c].pc = "gone"]
      /\ UNCHANGED <<down, shown, up, alive>>
      /\ \A s \in Publishers \cup Subscribers : s \in Clients
  BY <1>0 DEF FeedingInv, HoldInv, OrderInv, TcpInv, TypeOK, Unregister, netVars, clientVars, Clients
<1>2. /\ thread'[c].pc = "gone" /\ thread'[c].fd = fd
      /\ \A d \in Clients : d # c => thread'[d] = thread[d]
  BY <1>0, <1>1 DEF BrokerTypeOK
<1>3. Left(c)
  BY <1>1 DEF HeldInv
<1>4. AskedInv' /\ \A s \in Subscribers : Settled(s)' >= Settled(s)
  BY <1>1, <1>2, BrokerAsked
<1>5. NothingNew /\ NothingLost /\ \A d \in Clients : Left(d)' <=> Left(d)
  <2>1. NothingNew /\ \A s \in Subscribers : Received(s)' = Received(s)
    BY <1>1, UntouchedFrame DEF Received
  <2> QED BY <2>1, BrokerKeeps
<1>6. ASSUME NEW t \in Topics
      PROVE  /\ Once(topic_subscribers'[t])
             /\ Elems(topic_subscribers'[t]) = Elems(topic_subscribers[t]) \ {fd}
             /\ \A f \in Elems(topic_subscribers'[t]) : Owned(t, f)'
             /\ \A x \in DOMAIN topic_subscribers[t] : topic_subscribers[t][x] # 0
  <2>1. /\ topic_subscribers[t] \in Seq(Fds) /\ t \in Names
        /\ \A x \in DOMAIN topic_subscribers[t] : topic_subscribers[t][x] # 0
    BY <1>1, ListTypes
  <2>2. topic_subscribers'[t] = Without(topic_subscribers[t], fd)
    BY <1>1, <2>1
  <2>3. Once(topic_subscribers[t]) /\ \A f \in Elems(topic_subscribers[t]) : Owned(t, f)
    BY <1>1, ListedFacts
  <2>4. Once(topic_subscribers'[t])
    BY <2>1, <2>2, <2>3, WithoutDistinct
  <2>5. Elems(topic_subscribers'[t]) = Elems(topic_subscribers[t]) \ {fd}
    BY <2>1, <2>2, WithoutElems
  <2>6. \A f \in Elems(topic_subscribers[t]) : Owned(t, f)'
    BY <1>0, <1>1, <1>2, <1>4, <2>3, OwnedFrame
  <2> QED BY <2>1, <2>4, <2>5, <2>6
<1>7. ListedInv'
  BY <1>6, ListedLater
<1>8. FeedInv'
  <2>1. \A p \in Publishers : \A x, y : SentTo(p, y)' = SentTo(p, x)
    <3>1. \A p \in Publishers : Past(p)' = Past(p)
      BY <1>1, <1>2 DEF Past, Read, Publishing, clientVars
    <3>2. \A p \in Publishers : \A x : SentTo(p, x) = Past(p)
      BY <1>1, FreePositions
    <3>3. \A p \in Publishers : thread'[p].pc # "fanout"
      BY <1>1, <1>2 DEF MutexInv
    <3> QED BY <3>1, <3>2, <3>3 DEF SentTo
  <2>2. ASSUME NEW s \in Subscribers, NEW p \in Publishers, ~Left(s)', NEW x,
               Place(s, TopicOf[p], x)
        PROVE  \E y : Place(s, TopicOf[p], y)'
    <3>1. s # c /\ s \in Clients /\ thread'[s].fd = thread[s].fd /\ TopicOf[p] \in Topics
      BY <1>0, <1>1, <1>2, <1>3, <1>5, <2>2 DEF TcpAssumption
    <3>2. thread[s].fd \in Elems(topic_subscribers[TopicOf[p]]) /\ thread[s].fd # 0
      BY <1>6, <2>2, <3>1 DEF Place, Elems
    <3>3. thread[s].fd # fd
      BY <1>0, <1>1, <3>1, <3>2 DEF DistinctInv
    <3>4. thread[s].fd \in Elems(topic_subscribers'[TopicOf[p]])
      BY <1>6, <3>1, <3>2, <3>3
    <3> QED BY <3>1, <3>4 DEF Place, Elems
  <2> QED BY <1>5, <2>1, <2>2, FeedFrame DEF FeedingInv
<1>9. NoGap'
  BY <1>1, <1>5, NoGapFrame DEF FeedingInv
<1> QED BY <1>4, <1>7, <1>8, <1>9 DEF FeedingInv

---------------------------------------------------------------------------
(* The next line of a publisher. *)

\* What NoGap says of one publisher's lines in a sequence of lines.
Inner(p, body) == \A k \in 1..(Len(body) - 1) : body[k + 1] = Event(p, body[k][2] + 1)
After(a, b) == b.body[1][2] = a.body[Len(a.body)][2] + 1
Gapless(p, q) ==
  \A i \in DOMAIN q : From(p, q[i]) =>
    /\ Inner(p, q[i].body)
    /\ \A j \in DOMAIN q : /\ i < j /\ From(p, q[j])
                           /\ \A k \in (i + 1)..(j - 1) : ~From(p, q[k])
                           => After(q[i], q[j])

\* Appending a line that follows the last one of its publisher.
LEMMA GaplessAppend ==
  ASSUME NEW p, NEW q \in Seq(Lines), NEW line \in Lines, Gapless(p, q),
         From(p, line) => Inner(p, line.body),
         From(p, line) => \A i \in DOMAIN q :
           From(p, q[i]) /\ (\A j \in DOMAIN q : From(p, q[j]) => j <= i) => After(q[i], line)
  PROVE  Gapless(p, Append(q, line))
<1> DEFINE new == Append(q, line)
           n == Len(q)
<1>1. /\ n \in Nat /\ DOMAIN q = 1..n /\ DOMAIN new = 1..(n + 1) /\ new[n + 1] = line
      /\ \A i \in 1..n : new[i] = q[i]
  OBVIOUS
<1> HIDE DEF new, n
<1>2. \A i \in DOMAIN new : i \in DOMAIN q \/ i = n + 1
  BY <1>1
<1>3. ASSUME NEW i \in DOMAIN q, From(p, q[i]), NEW j \in DOMAIN q, i < j, From(p, q[j]),
             \A k \in (i + 1)..(j - 1) : ~From(p, new[k])
      PROVE  After(q[i], q[j])
  <2>1. \A k \in (i + 1)..(j - 1) : k \in DOMAIN q /\ new[k] = q[k]
    BY <1>1
  <2> QED BY <1>3, <2>1 DEF Gapless
<1>4. ASSUME NEW i \in DOMAIN q, From(p, q[i]), From(p, line),
             \A k \in (i + 1)..((n + 1) - 1) : ~From(p, new[k])
      PROVE  After(q[i], line)
  <2>1. ASSUME NEW j \in DOMAIN q, From(p, q[j]), ~(j <= i) PROVE FALSE
    <3>1. j \in (i + 1)..((n + 1) - 1) /\ new[j] = q[j]
      BY <1>1, <2>1
    <3> QED BY <1>4, <2>1, <3>1
  <2> QED BY <1>4, <2>1
<1>5. \A i \in DOMAIN new : From(p, new[i]) => Inner(p, new[i].body)
  BY <1>1, <1>2 DEF Gapless
<1>6. \A i, j \in DOMAIN new :
        /\ From(p, new[i]) /\ i < j /\ From(p, new[j])
        /\ \A k \in (i + 1)..(j - 1) : ~From(p, new[k])
        => After(new[i], new[j])
  <2> TAKE i, j \in DOMAIN new
  <2> HAVE /\ From(p, new[i]) /\ i < j /\ From(p, new[j])
           /\ \A k \in (i + 1)..(j - 1) : ~From(p, new[k])
  <2>1. i \in DOMAIN q /\ new[i] = q[i]
    BY <1>1
  <2>2. CASE j \in DOMAIN q
    <3>1. new[j] = q[j]
      BY <1>1, <2>2
    <3> QED BY <1>3, <2>1, <2>2, <3>1
  <2>3. CASE j = n + 1
    <3>1. new[j] = line
      BY <1>1, <2>3
    <3> QED BY <1>4, <2>1, <2>3, <3>1
  <2> QED BY <1>2, <2>2, <2>3
<1> QED BY <1>5, <1>6 DEF Gapless, new

\* The line of a publisher that is publishing, as the lines before see it.
LEMMA NextLine ==
  ASSUME TypeOK, PipelineInv, NEW p \in Publishers, Publishing(p)
  PROVE  /\ LineOf(p).kind = "update" /\ From(p, LineOf(p))
         /\ \A q \in Publishers : From(q, LineOf(p)) => q = p
         /\ Inner(p, LineOf(p).body)
         /\ LineOf(p).body[1][2] = Past(p) + 1
         /\ LineOf(p).body[Len(LineOf(p).body)] = Event(p, Read(p))
<1> DEFINE a == Past(p)
           b == Read(p)
           body == LineOf(p).body
<1>1. /\ a \in Nat /\ b \in Nat /\ a < b
      /\ LineOf(p) = Update(TopicOf[p], Run(p, a, b))
  BY LineFacts
<1> HIDE DEF a, b
<1>2. body = Run(p, a, b) /\ LineOf(p).kind = "update"
  BY <1>1 DEF Update
<1> HIDE DEF body
<1>3. Len(body) = b - a /\ \A i \in 1..(b - a) : body[i] = <<p, a + i>>
  BY <1>1, <1>2, RunFacts
<1>4. 1 \in 1..(b - a) /\ b - a \in 1..(b - a) /\ a + (b - a) = b
  BY <1>1
<1>5. body[1] = <<p, a + 1>> /\ body[Len(body)] = <<p, b>>
  BY <1>3, <1>4
<1>6. Inner(p, body)
  <2>1. \A k \in 1..(Len(body) - 1) :
          k \in 1..(b - a) /\ k + 1 \in 1..(b - a) /\ a + (k + 1) = (a + k) + 1
    BY <1>1, <1>3
  <2> QED BY <1>3, <2>1 DEF Inner, Event
<1> QED BY <1>2, <1>5, <1>6 DEF From, Event, a, b, body

\* One turn of the loop: who is sent the line, if anyone.
LEMMA SendLineTarget ==
  ASSUME TcpAssumption, FeedingInv, NEW c \in Clients, SendLine(c), UNCHANGED clientVars
  PROVE  \E s \in Subscribers :
           /\ Place(s, TopicOf[c], thread[c].i)
           /\ \A r \in Subscribers : thread[r].fd = thread[s].fd => r = s
           /\ ~Left(s) => Received(s)' = Append(Received(s), LineOf(c))
           /\ Left(s) => Received(s)' = Received(s)
           /\ \A r \in Subscribers : r # s => Received(r)' = Received(r)
<1>0. PICK x, f, line : x = thread[c].i /\ f = Targets(c)[x] /\ line = LineOf(c)
  OBVIOUS
<1>1. /\ TypeOK /\ BrokerTypeOK /\ NetTypeOK /\ MutexInv /\ PipelineInv /\ ListedInv
      /\ HeadInv /\ HeldInv /\ DistinctInv /\ ConnInv /\ SockInv
      /\ alive /\ thread[c].pc = "fanout" /\ x <= Len(Targets(c)) /\ UNCHANGED shown
      /\ IF f # thread[c].fd THEN SendDown(f, line) ELSE UNCHANGED <<down, reset>>
      /\ \A d \in Publishers \cup Subscribers : d \in Clients
  BY <1>0 DEF FeedingInv, HoldInv, OrderInv, TcpInv, TypeOK, SendLine, LineOf, clientVars, Clients
<1>2. c \in Publishers /\ c \notin Subscribers
  <2>1. c \in Publishers
    BY <1>1, Kinds
  <2> QED BY <2>1 DEF TcpAssumption
<1>3. TopicOf[c] \in Topics /\ Targets(c) = topic_subscribers[TopicOf[c]]
  BY <1>1, <1>2, PublishedTopic DEF Targets, Publishing, TcpAssumption
<1>4. x \in DOMAIN topic_subscribers[TopicOf[c]] /\ f = topic_subscribers[TopicOf[c]][x]
      /\ f # 0 /\ f \in Elems(topic_subscribers[TopicOf[c]])
  <2> DEFINE list == topic_subscribers[TopicOf[c]]
  <2>1. /\ list \in Seq(Fds) /\ Targets(c) = list
        /\ \A y \in DOMAIN list : list[y] # 0
    BY <1>1, <1>3, ListTypes
  <2>2. x \in Nat /\ x # 0
    BY <1>0, <1>1, <1>2, ThreadTypes DEF HeadInv
  <2> HIDE DEF list
  <2>3. x \in DOMAIN list
    BY <1>1, <2>1, <2>2
  <2> QED BY <1>0, <2>1, <2>3 DEF list, Elems
<1>5. PICK s \in Subscribers : thread[s].fd = f
  <2>1. Owned(TopicOf[c], f)
    BY <1>1, <1>3, <1>4, ListedFacts
  <2> QED BY <2>1 DEF Owned
<1>6. s \in Clients /\ \A d \in Clients : thread[d].fd = f => d = s
  BY <1>1, <1>4, <1>5 DEF DistinctInv
<1>7. SendDown(f, line)
  BY <1>1, <1>2, <1>5, <1>6
<1>8. line \in Lines
  BY <1>0, <1>1, ThreadTypes DEF LineOf, Update, Lines
<1>9. f \in DOMAIN sock => sock[f] = s
  BY <1>1, <1>6 DEF SockInv, NetTypeOK
<1>10. s \in open => ~Left(s)
  BY <1>1, <1>6 DEF ConnInv
<1>11. ~Left(s) => f \in DOMAIN sock /\ s \in open
  <2>1. thread[s].pc # "none"
    BY <1>1, <1>4, <1>5, <1>6 DEF ConnInv
  <2>2. ~Left(s) => f \in DOMAIN sock
    BY <1>1, <1>5, <1>6, <2>1 DEF HeldInv
  <2> QED BY <1>1, <1>6, <2>1, <2>2 DEF ConnInv
<1>12. IF f \in DOMAIN sock /\ sock[f] \in open /\ sock[f] \in Subscribers
       THEN \A r \in Subscribers :
              Received(r)' = IF r = sock[f] THEN Append(Received(r), line) ELSE Received(r)
       ELSE \A r \in Subscribers : Received(r)' = Received(r)
  BY <1>1, <1>7, <1>8, SendingFrame
<1>13. /\ ~Left(s) => Received(s)' = Append(Received(s), line)
       /\ Left(s) => Received(s)' = Received(s)
       /\ \A r \in Subscribers : r # s => Received(r)' = Received(r)
  BY <1>9, <1>10, <1>11, <1>12
<1>14. Place(s, TopicOf[c], thread[c].i)
  BY <1>0, <1>4, <1>5 DEF Place
<1> QED BY <1>0, <1>1, <1>5, <1>6, <1>13, <1>14

\* A subscriber that stays receives each line behind the one before.
LEMMA SendLineFeed ==
  ASSUME TcpAssumption, FeedingInv, HoldInv', OrderInv', HeadInv', NEW c \in Clients,
         SendLine(c), UNCHANGED clientVars
  PROVE  FeedingInv'
<1>0. PICK x, line : x = thread[c].i /\ line = LineOf(c)
  OBVIOUS
<1>1. /\ TcpInv' /\ TypeOK /\ TypeOK' /\ BrokerTypeOK /\ OrderInv /\ MutexInv /\ MutexInv'
      /\ PipelineInv /\ AskedInv /\ ListedInv /\ FeedInv /\ NoGap
      /\ thread[c].pc = "fanout" /\ thread' = [thread EXCEPT ![c].i = @ + 1]
      /\ UNCHANGED <<topic_subscribers, up, alive>>
      /\ \A d \in Publishers \cup Subscribers : d \in Clients
  BY DEF FeedingInv, HoldInv, OrderInv, TcpInv, TypeOK, SendLine, Clients
<1>2. c \in Publishers /\ Publishing(c) /\ TopicOf[c] \in Topics
  <2>1. c \in Publishers
    BY <1>1, Kinds
  <2> QED BY <1>1, <2>1 DEF Publishing, TcpAssumption
<1>3. /\ \A d \in Clients : /\ thread'[d].pc = thread[d].pc /\ thread'[d].req = thread[d].req
                            /\ thread'[d].fd = thread[d].fd
      /\ \A d \in Clients : d # c => thread'[d] = thread[d]
      /\ thread'[c].i = x + 1 /\ x \in Nat
  BY <1>0, <1>1, ThreadTypes DEF BrokerTypeOK
<1>4. PICK s \in Subscribers :
           /\ Place(s, TopicOf[c], x)
           /\ \A r \in Subscribers : thread[r].fd = thread[s].fd => r = s
           /\ ~Left(s) => Received(s)' = Append(Received(s), line)
           /\ Left(s) => Received(s)' = Received(s)
           /\ \A r \in Subscribers : r # s => Received(r)' = Received(r)
  BY <1>0, SendLineTarget
<1>5. /\ line \in Lines /\ From(c, line) /\ \A p \in Publishers : From(p, line) => p = c
      /\ Inner(c, line.body) /\ line.body[1][2] = Past(c) + 1
      /\ line.body[Len(line.body)] = Event(c, Read(c))
  <2>1. line \in Lines
    BY <1>0, <1>1, ThreadTypes DEF LineOf, Update, Lines
  <2> QED BY <1>0, <1>1, <1>2, <2>1, NextLine
<1>6. \A d \in Clients : Left(d)' <=> Left(d)
  BY DEF Left, clientVars
<1>7. \A p \in Publishers : Past(p)' = Past(p) /\ Read(p)' = Read(p)
  BY <1>1, SendLineOrder
<1>8. AskedInv' /\ ListedInv'
  <2>1. AskedInv' /\ \A r \in Subscribers : Settled(r)' >= Settled(r)
    BY <1>1, <1>3, BrokerAsked
  <2> QED BY <1>1, <1>3, <2>1, ListedFrame
<1>9. \A y \in DOMAIN topic_subscribers[TopicOf[c]] : y \in Nat
  <2>1. topic_subscribers[TopicOf[c]] \in Seq(Fds)
    BY <1>1, <1>2, ListTypes
  <2> QED BY <2>1
<1>10. \A p \in Publishers, r \in Subscribers : \A y :
         /\ Place(r, TopicOf[p], y)' <=> Place(r, TopicOf[p], y)
         /\ Place(r, TopicOf[p], y) /\ (p # c \/ r # s) => SentTo(p, y)' = SentTo(p, y)
  <2>1. \A p \in Publishers, r \in Subscribers : \A y :
          Place(r, TopicOf[p], y)' <=> Place(r, TopicOf[p], y)
    BY <1>1, <1>3 DEF Place
  <2>2. \A p \in Publishers : p # c => \A y : SentTo(p, y)' = SentTo(p, y)
    BY <1>1, <1>3, <1>7 DEF SentTo
  <2>3. ASSUME NEW r \in Subscribers, r # s, NEW y, Place(r, TopicOf[c], y)
        PROVE  SentTo(c, y)' = SentTo(c, y)
    <3>1. y # x /\ y \in Nat
      BY <1>4, <1>9, <2>3 DEF Place
    <3>2. y < x + 1 <=> y < x
      BY <1>3, <3>1
    <3> QED BY <1>0, <1>1, <1>2, <1>3, <1>7, <3>2 DEF SentTo
  <2> QED BY <2>1, <2>2, <2>3
<1>11. SentTo(c, x) = Past(c) /\ SentTo(c, x)' = Read(c)
  <2>1. ~(x < x) /\ x < x + 1
    BY <1>3
  <2> QED BY <1>0, <1>1, <1>2, <1>3, <1>7, <2>1 DEF SentTo
<1>12. \A y : Place(s, TopicOf[c], y) => y = x
  <2>1. Once(topic_subscribers[TopicOf[c]])
    BY <1>1, <1>2, ListedFacts
  <2>2. PICK list : list = topic_subscribers[TopicOf[c]]
    OBVIOUS
  <2>3. \A i, j \in DOMAIN list : list[i] = list[j] => i = j
    BY <2>1, <2>2 DEF Once
  <2>4. x \in DOMAIN list /\ list[x] = thread[s].fd
    BY <1>4, <2>2 DEF Place
  <2> QED BY <2>2, <2>3, <2>4 DEF Place
<1>13. PICK q : q = Received(s)
  OBVIOUS
<1>14. q \in Seq(Lines)
  BY <1>1, <1>13, ReceivedTypes
<1>15. /\ \A i \in DOMAIN Append(q, line) :
            \/ i \in DOMAIN q /\ Append(q, line)[i] = q[i]
            \/ i = Len(q) + 1 /\ Append(q, line)[i] = line
       /\ \A i \in DOMAIN q : i \in DOMAIN Append(q, line) /\ Append(q, line)[i] = q[i]
                              /\ ~(Len(q) + 1 <= i)
       /\ Len(q) + 1 \in DOMAIN Append(q, line) /\ Append(q, line)[Len(q) + 1] = line
  BY <1>5, <1>14
<1>16. NoGap'
  <2>1. \A r \in Subscribers, p \in Publishers : Gapless(p, Received(r))
    BY <1>1 DEF NoGap, Gapless, Inner, After
  <2>2. ASSUME ~Left(s), NEW p \in Publishers PROVE Gapless(p, Append(q, line))
    <3>1. Gapless(p, q)
      BY <1>13, <2>1
    <3>2. CASE p # c
      BY <1>5, <1>14, <3>1, <3>2, GaplessAppend
    <3>3. CASE p = c
      <4>1. ASSUME NEW i \in DOMAIN q, From(c, q[i]), \A j \in DOMAIN q : From(c, q[j]) => j <= i
            PROVE  After(q[i], line)
        <5>1. PICK y : /\ Place(s, TopicOf[c], y)
                       /\ q[i].body[Len(q[i].body)] = Event(c, SentTo(c, y))
          <6>1. \A k \in DOMAIN Received(s) :
                  /\ From(c, Received(s)[k])
                  /\ \A j \in DOMAIN Received(s) : From(c, Received(s)[j]) => j <= k
                  => \E y : /\ Place(s, TopicOf[c], y)
                            /\ Received(s)[k].body[Len(Received(s)[k].body)] = Event(c, SentTo(c, y))
            BY <1>1, <1>2, <2>2 DEF FeedInv, Place
          <6> QED BY <1>13, <4>1, <6>1
        <5>2. q[i].body[Len(q[i].body)] = Event(c, Past(c))
          BY <1>11, <1>12, <5>1
        <5> QED BY <1>5, <5>2 DEF After, Event
      <4> QED BY <1>5, <1>14, <3>1, <3>3, <4>1, GaplessAppend
    <3> QED BY <3>2, <3>3
  <2>3. \A r \in Subscribers, p \in Publishers : Gapless(p, Received(r)')
    BY <1>4, <1>13, <2>1, <2>2
  <2> QED BY <2>3 DEF NoGap, Gapless, Inner, After, From
<1>17. FeedInv'
  <2> DEFINE Fed(r, p, all) == \A i \in DOMAIN all :
               /\ From(p, all[i])
               /\ \A j \in DOMAIN all : From(p, all[j]) => j <= i
               => \E y : /\ Place(r, TopicOf[p], y)
                         /\ all[i].body[Len(all[i].body)] = Event(p, SentTo(p, y)')
  <2>1. ASSUME NEW r \in Subscribers, NEW p \in Publishers, ~Left(r), p # c \/ r # s
        PROVE  Fed(r, p, Received(r))
    <3>1. \A i \in DOMAIN Received(r) :
               /\ From(p, Received(r)[i])
               /\ \A j \in DOMAIN Received(r) : From(p, Received(r)[j]) => j <= i
               => \E y : /\ Place(r, TopicOf[p], y)
                         /\ Received(r)[i].body[Len(Received(r)[i].body)] = Event(p, SentTo(p, y))
      BY <1>1, <2>1 DEF FeedInv, Place
    <3> QED BY <1>10, <2>1, <3>1
  <2>2. ASSUME NEW p \in Publishers, ~Left(s) PROVE Fed(s, p, Append(q, line))
    <3>1. CASE p # c
      <4>1. Fed(s, p, q)
        BY <1>13, <2>1, <2>2, <3>1
      <4>2. ~From(p, line)
        BY <1>5, <3>1
      <4> QED BY <1>15, <4>1, <4>2
    <3>2. CASE p = c
      <4>1. \A i \in DOMAIN Append(q, line) :
              (\A j \in DOMAIN Append(q, line) : From(c, Append(q, line)[j]) => j <= i)
              => Append(q, line)[i] = line
        BY <1>5, <1>15
      <4>2. Place(s, TopicOf[c], x) /\ line.body[Len(line.body)] = Event(c, SentTo(c, x)')
        BY <1>4, <1>5, <1>11
      <4> QED BY <3>2, <4>1, <4>2
    <3> QED BY <3>1, <3>2
  <2>3. \A r \in Subscribers, p \in Publishers : ~Left(r)' => Fed(r, p, Received(r)')
    <3> HIDE DEF Fed
    <3> QED BY <1>1, <1>4, <1>6, <1>13, <2>1, <2>2
  <2> QED BY <1>10, <2>3 DEF FeedInv, Place, From
<1> QED BY <1>8, <1>16, <1>17 DEF FeedingInv

---------------------------------------------------------------------------
(* No gap. *)

\* publish_message starts at the head of the list and never goes back.
LEMMA HeadStep ==
  ASSUME TcpAssumption, TcpInv, TcpInv', HeadInv, [Next]_vars
  PROVE  HeadInv'
<1>1. /\ TypeOK /\ TypeOK' /\ BrokerTypeOK /\ ConnInv
      /\ \A p \in Publishers : p \in Clients
  BY DEF TcpInv, TypeOK, Clients
<1>2. CASE UNCHANGED thread
  BY <1>2 DEF HeadInv
<1>3. ASSUME NEW c \in Clients, \A d \in Clients : d # c => thread'[d] = thread[d],
             thread'[c].pc = "fanout" => thread'[c].i # 0
      PROVE  HeadInv'
  BY <1>1, <1>3 DEF HeadInv
<1>4. CASE Accept
  <2> DEFINE c == Head(backlog)
  <2>1. /\ backlog \in Seq(Clients) /\ backlog # <<>>
        /\ thread' = [thread EXCEPT ![c].pc = "recv", ![c].fd = FreeFd]
    BY <1>1, <1>4 DEF TypeOK, NetTypeOK, Accept
  <2>2. c \in Clients
    BY <2>1, TailElems
  <2> HIDE DEF c
  <2> QED BY <1>1, <1>3, <2>1, <2>2 DEF BrokerTypeOK
<1>5. ASSUME NEW c \in Clients, ThreadStep(c) PROVE HeadInv'
  <2>1. CASE RecvRequest(c) \/ RecvEnd(c) \/ LockSubscribe(c) \/ Unregister(c)
    <3>1. /\ \A d \in Clients : d # c => thread'[d] = thread[d]
          /\ thread'[c].pc \in {"handle", "unregister", "confirm", "gone"}
      BY <1>1, <2>1 DEF RecvRequest, RecvEnd, LockSubscribe, Unregister, BrokerTypeOK
    <3> QED BY <1>3, <3>1
  <2>2. CASE EndPublish(c) \/ Confirm(c)
    <3>1. /\ \A d \in Clients : d # c => thread'[d] = thread[d]
          /\ thread'[c].pc = AtLoop
      BY <1>1, <2>2 DEF EndPublish, Confirm, BrokerTypeOK
    <3> QED BY <1>3, <3>1 DEF AtLoop
  <2>3. CASE LockPublish(c)
    <3>1. /\ \A d \in Clients : d # c => thread'[d] = thread[d]
          /\ thread'[c].i = 1
      BY <1>1, <2>3 DEF LockPublish, BrokerTypeOK
    <3> QED BY <1>3, <3>1
  <2>4. CASE SendLine(c)
    <3>1. /\ \A d \in Clients : d # c => thread'[d] = thread[d]
          /\ thread'[c].i = thread[c].i + 1 /\ thread[c].i \in Nat
      BY <1>1, <2>4 DEF SendLine, BrokerTypeOK
    <3> QED BY <1>3, <3>1
  <2> QED BY <1>5, <2>1, <2>2, <2>3, <2>4 DEF ThreadStep
<1>6. CASE Next
  <2>1. CASE ClientNext
    BY <1>2, <2>1 DEF ClientNext, brokerVars
  <2>2. CASE Signal
    BY <1>2, <2>2, Signalled
  <2> QED BY <1>4, <1>5, <1>6, <2>1, <2>2 DEF Next, BrokerNext
<1>7. CASE UNCHANGED vars
  BY <1>2, <1>7 DEF vars, brokerVars
<1> QED BY <1>6, <1>7

\* A signal, or no step at all.
LEMMA IdleFeed ==
  ASSUME TcpAssumption, FeedingInv, HoldInv', OrderInv', HeadInv', Signal \/ UNCHANGED vars,
         UNCHANGED clientVars
  PROVE  FeedingInv'
<1>1. /\ TypeOK /\ TypeOK' /\ AskedInv
      /\ UNCHANGED <<up, down, shown, pub, sub, topic_subscribers, thread>>
      /\ alive' => alive
  <2>1. TypeOK /\ TypeOK' /\ AskedInv
    BY DEF FeedingInv, HoldInv, TcpInv
  <2>2. UNCHANGED <<pub, sub, shown>>
    BY DEF clientVars
  <2>3. CASE Signal
    BY <2>1, <2>2, <2>3, Signalled
  <2>4. CASE UNCHANGED vars
    <3>1. UNCHANGED <<up, down, topic_subscribers, alive, thread>>
      BY <2>4 DEF vars, netVars, brokerVars
    <3> QED BY <2>1, <2>2, <3>1
  <2> QED BY <2>3, <2>4
<1>2. NothingNew /\ NothingLost
  <2>1. NothingNew /\ \A s \in Subscribers : Received(s)' = Received(s)
    BY <1>1, UntouchedFrame DEF Received
  <2> QED BY <2>1, BrokerKeeps
<1>3. AskedInv' /\ \A s \in Subscribers : Settled(s)' >= Settled(s)
  BY <1>1, BrokerAsked
<1>4. \A p \in Publishers : \A x : SentTo(p, x)' = SentTo(p, x)
  <2>1. \A p \in Publishers : Read(p)' = Read(p)
    BY <1>1 DEF Read
  <2> QED BY <1>1, <2>1, SentToFrame DEF Publishing
<1> QED BY <1>1, <1>2, <1>3, <1>4, QuietFeed

\* Nothing has been asked for, listed or received at the start.
LEMMA FeedingInit == ASSUME TcpAssumption, Init PROVE FeedingInv
<1>1. HoldInv /\ OrderInv
  BY HoldInit, OrderInit
<1>2. /\ \A c \in Clients : thread[c].pc = "none" /\ up[c] = <<>>
      /\ \A t \in Topics : topic_subscribers[t] = <<>>
      /\ \A s \in Subscribers : sub[s].idx = 1 /\ shown[s] = <<>> /\ down[s] = <<>> /\ s \in Clients
      /\ \A p \in Publishers : p \in Clients
  BY DEF Init, NetInit, ClientInit, BrokerInit, Clients, Names
<1>3. AskedInv
  <2>1. \A s \in Subscribers : Asked(s) = 0 /\ DOMAIN up[s] = {} /\ thread[s].pc # "handle"
    BY <1>2 DEF Asked
  <2> QED BY <2>1 DEF AskedInv
<1>4. ListedInv
  <2>1. \A t \in Topics : DOMAIN topic_subscribers[t] = {}
    BY <1>2
  <2> QED BY <2>1 DEF ListedInv
<1>5. HeadInv
  BY <1>2 DEF HeadInv
<1>6. \A s \in Subscribers : DOMAIN Received(s) = {}
  <2>1. DOMAIN (<<>> \o <<>>) = {}
    OBVIOUS
  <2> QED BY <1>2, <2>1 DEF Received
<1> QED BY <1>1, <1>3, <1>4, <1>5, <1>6 DEF FeedingInv, FeedInv, NoGap

\* Every step keeps the invariant of what is received.
LEMMA FeedingStep ==
  ASSUME TcpAssumption, TcpSystemAssumption, ~Churn, WantedOnce, FeedingInv, [Next]_vars
  PROVE  FeedingInv'
<1>1. HoldInv' /\ OrderInv'
  BY HoldStep, OrderStep DEF FeedingInv
<1>2. HeadInv'
  BY <1>1, HeadStep DEF FeedingInv, HoldInv
<1>3. CASE ClientNext
  BY <1>1, <1>2, <1>3, ClientFeed
<1>4. CASE BrokerNext
  <2>1. UNCHANGED clientVars
    BY <1>4 DEF BrokerNext
  <2>2. CASE Accept
    BY <1>1, <1>2, <2>1, <2>2, AcceptFeed
  <2>3. CASE Signal
    BY <1>1, <1>2, <2>1, <2>3, IdleFeed
  <2>4. ASSUME NEW c \in Clients, ThreadStep(c) PROVE FeedingInv'
    BY <1>1, <1>2, <2>1, <2>4, RecvRequestFeed, PublishFeed, SendLineFeed, QuietThreadFeed,
       LockSubscribeFeed, UnregisterFeed DEF ThreadStep
  <2> QED BY <1>4, <2>2, <2>3, <2>4 DEF BrokerNext
<1>5. CASE UNCHANGED vars
  BY <1>1, <1>2, <1>5, IdleFeed DEF vars
<1> QED BY <1>3, <1>4, <1>5 DEF Next

\* If nobody leaves before all have been accepted, and no subscriber asks for
\* a match twice, a publisher's events reach every subscriber without gap or
\* repetition from the first it gets: publish_message goes through the whole
\* list under the mutex and send blocks rather than drops.  Without the first
\* condition a descriptor may pass to another client, without the second one
\* it is listed twice and every line comes twice.
THEOREM FeedWithoutGap ==
  ASSUME ~Churn, WantedOnce
  PROVE  Spec => []NoGap
<1>1. Init => FeedingInv
  BY FeedingInit, TcpAssumption
<1>2. FeedingInv /\ [Next]_vars => FeedingInv'
  BY FeedingStep, TcpAssumption, TcpSystemAssumption
<1>3. FeedingInv => NoGap
  BY DEF FeedingInv
<1> QED BY <1>1, <1>2, <1>3, PTL DEF Spec

---------------------------------------------------------------------------
(* One match each. *)

OneMatchAtMost == \A s \in Subscribers : Len(Wants[s]) <= 1

\* Then it has no second one.
LEMMA FirstOnly ==
  ASSUME OneMatchAtMost, NEW s \in Subscribers, NEW k \in DOMAIN Wants[s]
  PROVE  k = 1
<1>1. PICK q : q = Wants[s]
  OBVIOUS
<1>2. q \in Seq(Topics) /\ Len(q) <= 1 /\ k \in DOMAIN q
  BY <1>1, TcpAssumption DEF TcpAssumption, OneMatchAtMost
<1> QED BY <1>2

\* And no two of its requests are ever under way together.
LEMMA OneUnderWay ==
  ASSUME OneMatchAtMost, FeedingInv
  PROVE  OneByOne
<1>1. ASSUME alive, NEW s \in Subscribers PROVE Len(up[s]) <= 1
  <2>1. TypeOK /\ AskedInv
    BY DEF FeedingInv, HoldInv, TcpInv
  <2>2. PICK l, a, d : l = Len(up[s]) /\ a = Asked(s) /\ d = DOMAIN up[s]
    OBVIOUS
  <2>3. l \in Nat /\ d = 1..l /\ a \in Int
    BY <2>1, <2>2, AskedCounts
  <2>4. \A i \in d : Asked(s) + i \in DOMAIN Wants[s]
    BY <1>1, <2>1, <2>2 DEF AskedInv
  <2>5. \A i \in d : a + i = 1
    BY <2>2, <2>4, FirstOnly
  <2>6. l <= 1
    BY <2>3, <2>5
  <2> QED BY <2>2, <2>6
<1> QED BY <1>1 DEF OneByOne

\* However many requests one recv returns, the subscriptions of subscribers
\* that ask for one match each stand, if nobody leaves before all have been
\* accepted: such a subscriber has nothing to send that could be read as part
\* of its SUBSCRIBE.
THEOREM OneMatchStands ==
  ASSUME ~Churn, OneMatchAtMost
  PROVE  Spec => []SubscribedIsListed
<1>1. WantedOnce
  BY FirstOnly DEF WantedOnce
<1>2. Init => FeedingInv /\ OrderlyInv
  BY FeedingInit, OrderlyInit, TcpAssumption
<1>3. FeedingInv /\ OrderlyInv /\ [Next]_vars => FeedingInv' /\ OrderlyInv'
  BY <1>1, FeedingStep, OneUnderWay, OrderlyStep, TcpAssumption, TcpSystemAssumption
<1>4. OrderlyInv => SubscribedIsListed
  BY OrderlyListed, TcpAssumption
<1> QED BY <1>2, <1>3, <1>4, PTL DEF Spec
=============================================================================
