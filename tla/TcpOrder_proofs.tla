-------------------------- MODULE TcpOrder_proofs --------------------------
(***************************************************************************)
(* The order in which the subscribers of the TCP broker receive the lines: *)
(* the theorem OneOrder, for every value of the constants.                 *)
(***************************************************************************)
EXTENDS TcpSystem_proofs, SequenceTheorems

---------------------------------------------------------------------------
(* Lines. *)

\* A run of events is a sequence with the events it names.
LEMMA RunFacts ==
  ASSUME NEW p \in Publishers, NEW a \in Nat, NEW b \in Nat, a < b
  PROVE  /\ Len(Run(p, a, b)) = b - a
         /\ DOMAIN Run(p, a, b) = 1..(b - a)
         /\ \A i \in 1..(b - a) : Run(p, a, b)[i] = <<p, a + i>>
<1>1. b - a \in Nat
  OBVIOUS
<1> QED BY <1>1 DEF Run, Event

\* Lines of different runs differ.
LEMMA RunsDiffer ==
  ASSUME NEW p \in Publishers, NEW a \in Nat, NEW b \in Nat, a < b,
         NEW q \in Publishers, NEW c \in Nat, NEW d \in Nat, c < d,
         Update(TopicOf[p], Run(p, a, b)) = Update(TopicOf[q], Run(q, c, d))
  PROVE  p = q /\ a = c /\ b = d
<1>1. Run(p, a, b) = Run(q, c, d)
  BY DEF Update
<1>2. Len(Run(p, a, b)) = b - a /\ Len(Run(q, c, d)) = d - c
  BY RunFacts
<1>3. Run(p, a, b)[1] = <<p, a + 1>> /\ Run(q, c, d)[1] = <<q, c + 1>>
  <2>1. 1 \in 1..(b - a) /\ 1 \in 1..(d - c)
    OBVIOUS
  <2> QED BY <2>1, RunFacts
<1>4. p = q /\ a + 1 = c + 1
  BY <1>1, <1>3
<1>5. a = c
  BY <1>4
<1>6. b - a = d - c
  BY <1>1, <1>2
<1> QED BY <1>4, <1>5, <1>6

\* Counting what is under way.
LEMMA Counts ==
  ASSUME TypeOK, NEW p \in Publishers
  PROVE  /\ p \in Clients /\ pub[p].seq \in Nat
         /\ up[p] \in Seq(Requests) /\ Len(up[p]) \in Nat
         /\ Read(p) \in Int
<1>1. p \in Clients /\ up[p] \in Seq(Requests)
  BY DEF Clients, TypeOK, NetTypeOK
<1>2. pub[p].seq \in 1..(NumEvents + 1) /\ NumEvents \in Nat
  BY TcpAssumption DEF TypeOK, ClientTypeOK, TcpAssumption
<1>3. pub[p].seq \in Nat /\ Len(up[p]) \in Nat
  BY <1>1, <1>2
<1> QED BY <1>1, <1>3 DEF Read

\* The request and the line of a publisher that is publishing.
LEMMA LineFacts ==
  ASSUME TypeOK, PipelineInv, NEW p \in Publishers
  PROVE  /\ Read(p) \in Nat /\ Past(p) \in Nat /\ Past(p) <= Read(p)
         /\ ~Publishing(p) => Past(p) = Read(p)
         /\ Publishing(p) =>
              /\ Past(p) < Read(p)
              /\ thread[p].req = PublishIn(TopicOf[p], Run(p, Past(p), Read(p)))
              /\ LineOf(p) = Update(TopicOf[p], Run(p, Past(p), Read(p)))
<1>1. Read(p) \in Nat
  BY Counts DEF PipelineInv
<1>2. CASE ~Publishing(p)
  BY <1>1, <1>2 DEF Past
<1>3. CASE Publishing(p)
  <2>1. PICK k \in 1..Read(p) : thread[p].req = PublishIn(TopicOf[p], Run(p, Read(p) - k, Read(p)))
    BY <1>3 DEF PipelineInv
  <2>2. Read(p) - k \in Nat /\ Read(p) - k < Read(p) /\ k = Read(p) - (Read(p) - k)
    BY <1>1
  <2>3. Len(Run(p, Read(p) - k, Read(p))) = k
    BY <1>1, <2>2, RunFacts
  <2>4. Len(thread[p].req.body) = k /\ thread[p].req.topic = TopicOf[p]
        /\ thread[p].req.body = Run(p, Read(p) - k, Read(p))
    BY <2>1, <2>3 DEF PublishIn
  <2>5. Past(p) = Read(p) - k
    BY <1>3, <2>4 DEF Past
  <2> QED BY <1>1, <1>3, <2>1, <2>2, <2>4, <2>5 DEF LineOf
<1> QED BY <1>2, <1>3

---------------------------------------------------------------------------
(* What subscribers have received. *)

\* Taking lines from the front of one sequence to the end of another.
LEMMA MovingLines ==
  ASSUME NEW S, NEW a \in Seq(S), NEW d \in Seq(S), NEW n \in 1..Len(d)
  PROVE  (a \o SubSeq(d, 1, n)) \o SubSeq(d, n + 1, Len(d)) = a \o d
<1>1. /\ SubSeq(d, 1, n) \in Seq(S) /\ SubSeq(d, n + 1, Len(d)) \in Seq(S)
      /\ n \in 0..Len(d) /\ Len(d) \in n..Len(d) /\ 1 \in 1..(Len(d) + 1)
  OBVIOUS
<1>2. SubSeq(d, 1, n) \o SubSeq(d, n + 1, Len(d)) = SubSeq(d, 1, Len(d))
  <2>1. n \in (1 - 1)..Len(d)
    BY <1>1
  <2> QED BY <1>1, <2>1, ConcatAdjacentSubSeq
<1>3. SubSeq(d, 1, Len(d)) = d
  BY SubSeqFull
<1> DEFINE x == SubSeq(d, 1, n)
           y == SubSeq(d, n + 1, Len(d))
<1>4. x \in Seq(S) /\ y \in Seq(S)
  BY <1>1
<1>5. x \o y = d
  BY <1>2, <1>3
<1> HIDE DEF x, y
<1>6. (a \o x) \o y = a \o (x \o y)
  BY <1>4
<1>7. (a \o x) \o y = a \o d
  BY <1>5, <1>6, Zenon
<1> QED BY <1>7 DEF x, y

\* Appending to the second of two sequences.
LEMMA AppendingLine ==
  ASSUME NEW S, NEW a \in Seq(S), NEW d \in Seq(S), NEW x \in S
  PROVE  a \o Append(d, x) = Append(a \o d, x)
  OBVIOUS

\* It is a sequence of lines.
LEMMA ReceivedTypes ==
  ASSUME TypeOK, NEW s \in Subscribers
  PROVE  /\ s \in Clients /\ shown[s] \in Seq(Lines) /\ down[s] \in Seq(Lines)
         /\ Received(s) \in Seq(Lines)
         /\ Len(Received(s)) \in Nat /\ DOMAIN Received(s) = 1..Len(Received(s))
<1>1. s \in Clients /\ shown[s] \in Seq(Lines) /\ down[s] \in Seq(Lines)
  BY DEF Clients, TypeOK, NetTypeOK, ClientTypeOK
<1> DEFINE all == Received(s)
<1>2. all \in Seq(Lines)
  BY <1>1 DEF Received
<1> HIDE DEF all
<1>3. Len(all) \in Nat /\ DOMAIN all = 1..Len(all)
  BY <1>2
<1> QED BY <1>1, <1>2, <1>3 DEF all

\* Its positions are integers, after a step as before.
LEMMA ReceivedInt ==
  ASSUME TypeOK'
  PROVE  \A s \in Subscribers :
           /\ \E n \in Nat : DOMAIN Received(s)' = 1..n
           /\ \A i, j \in DOMAIN Received(s)' : i < j => i \in Int /\ j \in Int /\ ~(j <= i)
<1> TAKE s \in Subscribers
<1> DEFINE a == shown'[s]
           d == down'[s]
<1>1. a \in Seq(Lines) /\ d \in Seq(Lines)
  BY DEF Clients, TypeOK, NetTypeOK, ClientTypeOK
<1>2. Received(s)' = a \o d
  BY Zenon DEF Received
<1> HIDE DEF a, d
<1>3. /\ DOMAIN (a \o d) = 1..Len(a \o d) /\ Len(a \o d) \in Nat
      /\ \A i, j \in DOMAIN (a \o d) : i < j => i \in Int /\ j \in Int /\ ~(j <= i)
  BY <1>1
<1> QED BY <1>2, <1>3

\* No subscriber receives an update; some may lose what was under way.
NothingNew ==
  \A s \in Subscribers : \A i \in DOMAIN Received(s)' :
    IF i \in DOMAIN Received(s) THEN Received(s)'[i] = Received(s)[i]
    ELSE Received(s)'[i].kind # "update"

\* A step that does not touch the sockets towards the subscribers.
LEMMA UntouchedFrame ==
  ASSUME \A s \in Subscribers : shown'[s] = shown[s] /\ down'[s] = down[s]
  PROVE  NothingNew
  BY DEF NothingNew, Received

\* Printing moves lines on, and they stay in their places.
LEMMA ReadingFrame ==
  ASSUME TypeOK, NEW s \in Subscribers, SubRead(s)
  PROVE  NothingNew /\ \A r \in Subscribers : Received(r)' = Received(r)
<1>1. shown[s] \in Seq(Lines) /\ down[s] \in Seq(Lines) /\ s \in Clients
  BY ReceivedTypes
<1>2. PICK n \in 1..Len(down[s]) :
        /\ shown' = [shown EXCEPT ![s] = @ \o SubSeq(down[s], 1, n)]
        /\ down' = [down EXCEPT ![s] = SubSeq(@, n + 1, Len(@))]
  BY DEF SubRead
<1>3. /\ shown'[s] = shown[s] \o SubSeq(down[s], 1, n)
      /\ down'[s] = SubSeq(down[s], n + 1, Len(down[s]))
      /\ \A r \in Subscribers : r # s => shown'[r] = shown[r] /\ down'[r] = down[r]
  BY <1>1, <1>2 DEF TypeOK, NetTypeOK, ClientTypeOK, Clients
<1>4. Received(s)' = Received(s)
  BY <1>1, <1>3, MovingLines DEF Received
<1>5. \A r \in Subscribers : Received(r)' = Received(r)
  BY <1>3, <1>4 DEF Received
<1> QED BY <1>5 DEF NothingNew

\* A client that closes its end keeps what it has printed.
LEMMA ShuttingFrame ==
  ASSUME TypeOK, NEW c \in Clients, Shut(c), UNCHANGED shown
  PROVE  NothingNew /\ \A s \in Subscribers : s # c => Received(s)' = Received(s)
<1>1. down' = [down EXCEPT ![c] = <<>>]
  BY DEF Shut
<1>2. ASSUME NEW s \in Subscribers
      PROVE  Received(s)' = Received(s)
             \/ /\ s = c /\ Received(s)' = shown[s]
                /\ \A i \in DOMAIN shown[s] : i \in DOMAIN Received(s) /\ Received(s)[i] = shown[s][i]
  <2>1. s \in Clients /\ shown[s] \in Seq(Lines) /\ down[s] \in Seq(Lines)
    BY ReceivedTypes
  <2>2. down'[s] = IF s = c THEN <<>> ELSE down[s]
    BY <1>1, <2>1 DEF TypeOK, NetTypeOK
  <2>3. CASE s = c
    <3>1. Received(s)' = shown[s] \o <<>>
      BY <2>2, <2>3 DEF Received
    <3> DEFINE a == shown[s]
               d == down[s]
    <3>2. a \in Seq(Lines) /\ d \in Seq(Lines)
      BY <2>1
    <3> HIDE DEF a, d
    <3>3. a \o <<>> = a
      BY <3>2, ConcatEmptySeq
    <3>4. \A i \in DOMAIN a : i \in DOMAIN (a \o d) /\ (a \o d)[i] = a[i]
      BY <3>2
    <3> QED BY <2>3, <3>1, <3>3, <3>4 DEF a, d, Received
  <2>4. CASE s # c
    BY <2>2, <2>4 DEF Received
  <2> QED BY <2>3, <2>4
<1> QED BY <1>2 DEF NothingNew

\* A send reaches one subscriber, behind what it has received, or none.
LEMMA SendingFrame ==
  ASSUME TypeOK, NEW f, NEW line \in Lines, SendDown(f, line), UNCHANGED shown
  PROVE  IF f \in DOMAIN sock /\ sock[f] \in open /\ sock[f] \in Subscribers
         THEN \A s \in Subscribers :
                Received(s)' = IF s = sock[f] THEN Append(Received(s), line) ELSE Received(s)
         ELSE \A s \in Subscribers : Received(s)' = Received(s)
<1>1. CASE f \in DOMAIN sock /\ sock[f] \in open
  <2> DEFINE c == sock[f]
  <2>1. down' = [down EXCEPT ![c] = Append(@, line)] /\ c \in Clients
    BY <1>1 DEF SendDown, TypeOK, NetTypeOK
  <2> HIDE DEF c
  <2>2. \A s \in Subscribers : Received(s)' = IF s = c THEN Append(Received(s), line) ELSE Received(s)
    <3> TAKE s \in Subscribers
    <3>1. s \in Clients /\ shown[s] \in Seq(Lines) /\ down[s] \in Seq(Lines)
      BY ReceivedTypes
    <3>2. down'[s] = IF s = c THEN Append(down[s], line) ELSE down[s]
      BY <2>1, <3>1 DEF TypeOK, NetTypeOK
    <3>3. shown[s] \o Append(down[s], line) = Append(shown[s] \o down[s], line)
      <4> DEFINE a == shown[s]
                 d == down[s]
      <4>1. a \in Seq(Lines) /\ d \in Seq(Lines)
        BY <3>1
      <4> HIDE DEF a, d
      <4>2. a \o Append(d, line) = Append(a \o d, line)
        BY <4>1, AppendingLine
      <4> QED BY <4>2 DEF a, d
    <3>4. Received(s)' = shown[s] \o down'[s]
      BY Zenon DEF Received
    <3>5. CASE s = c
      BY <3>2, <3>3, <3>4, <3>5, Zenon DEF Received
    <3>6. CASE s # c
      BY <3>2, <3>4, <3>6, Zenon DEF Received
    <3> QED BY <3>5, <3>6
  <2>3. CASE c \in Subscribers
    BY <1>1, <2>2, <2>3 DEF c
  <2>4. CASE c \notin Subscribers
    <3>1. \A s \in Subscribers : Received(s)' = Received(s)
      BY <2>2, <2>4
    <3> QED BY <2>4, <3>1 DEF c
  <2> QED BY <2>3, <2>4
<1>2. CASE ~(f \in DOMAIN sock /\ sock[f] \in open)
  <2>1. UNCHANGED down
    BY <1>2 DEF SendDown
  <2>2. \A s \in Subscribers : Received(s)' = Received(s)
    BY <2>1 DEF Received
  <2> QED BY <1>2, <2>2
<1> QED BY <1>1, <1>2

---------------------------------------------------------------------------
(* What a step leaves alone. *)

\* Nothing is received that was not sent before.
LEMMA SentFrame ==
  ASSUME SentInv, NothingNew,
         \A p \in Publishers : Past(p) \in Nat /\ Past(p)' \in Nat /\ Past(p) <= Past(p)',
         \A p \in Publishers : thread[p].pc = "fanout" =>
           thread'[p].pc = "fanout" /\ LineOf(p)' = LineOf(p)
  PROVE  SentInv'
<1>1. \A p \in Publishers : \A a \in 0..Past(p) : a \in 0..Past(p)'
  OBVIOUS
<1> QED BY <1>1 DEF SentInv, NothingNew, PastLine

\* The line being sent is still the last.
LEMMA LastFrame ==
  ASSUME LastInv, NothingNew,
         \A s \in Subscribers : Received(s) \in Seq(Lines) /\ Received(s)' \in Seq(Lines),
         \A p \in Publishers : thread'[p].pc = "fanout" =>
           thread[p].pc = "fanout" /\ LineOf(p)' = LineOf(p)
  PROVE  LastInv'
<1>1. \A p \in Publishers : thread'[p].pc = "fanout" => LineOf(p)'.kind = "update"
  BY DEF LineOf, Update
<1> QED BY <1>1 DEF LastInv, NothingNew

\* No two lines change places.
LEMMA SameOrderFrame ==
  ASSUME SameOrder, NothingNew
  PROVE  SameOrder'
<1>1. \A s \in Subscribers : \A i \in DOMAIN Received(s)' :
        Received(s)'[i].kind = "update" => i \in DOMAIN Received(s) /\ Received(s)'[i] = Received(s)[i]
  BY DEF NothingNew
<1> QED BY <1>1 DEF SameOrder

\* A step that reads none of p's events and does not change its request.
LEMMA PipelineFrame ==
  ASSUME PipelineInv,
         \A p \in Publishers :
           /\ pub'[p].seq = pub[p].seq /\ up'[p] = up[p]
           /\ Publishing(p)' => Publishing(p) /\ thread'[p].req = thread[p].req
  PROVE  PipelineInv' /\ \A p \in Publishers : Read(p)' = Read(p)
<1>1. \A p \in Publishers : Read(p)' = Read(p)
  BY DEF Read
<1> QED BY <1>1 DEF PipelineInv

\* A step of anything but publish_message keeps OrderInv.
LEMMA QuietStep ==
  ASSUME TypeOK, TypeOK', OrderInv, TcpInv', MutexInv', NothingNew,
         \A p \in Publishers :
           /\ pub'[p].seq = pub[p].seq /\ up'[p] = up[p]
           /\ Publishing(p)' <=> Publishing(p)
           /\ Publishing(p) => thread'[p].pc = thread[p].pc /\ thread'[p].req = thread[p].req
  PROVE  OrderInv'
<1>1. PipelineInv' /\ \A p \in Publishers : Read(p)' = Read(p)
  BY PipelineFrame DEF OrderInv
<1>2. \A p \in Publishers : Past(p)' = Past(p) /\ Past(p) \in Nat
  BY <1>1, LineFacts DEF Past, OrderInv
<1>3. \A p \in Publishers : (thread'[p].pc = "fanout" <=> thread[p].pc = "fanout")
        /\ (thread[p].pc = "fanout" => LineOf(p)' = LineOf(p))
  BY DEF Publishing, LineOf
<1>4. SentInv'
  <2>1. \A p \in Publishers : Past(p) \in Nat /\ Past(p)' \in Nat /\ Past(p) <= Past(p)'
    BY <1>2
  <2> QED BY <1>3, <2>1, SentFrame DEF OrderInv
<1>5. LastInv'
  <2>1. \A s \in Subscribers : Received(s) \in Seq(Lines)
    BY ReceivedTypes
  <2>2. \A s \in Subscribers : Received(s)' \in Seq(Lines)
    BY DEF Received, TypeOK, NetTypeOK, ClientTypeOK, Clients
  <2> QED BY <1>3, <2>1, <2>2, LastFrame DEF OrderInv
<1>6. SameOrder'
  BY SameOrderFrame DEF OrderInv
<1> QED BY <1>1, <1>4, <1>5, <1>6 DEF OrderInv

---------------------------------------------------------------------------
(* recv and the mutex. *)

\* recv takes one or more requests from the front.
LEMMA Receiving ==
  ASSUME TypeOK, NEW c \in Clients, RecvRequest(c)
  PROVE  \E n \in 1..Len(up[c]) :
           /\ thread[c].pc = "recv" /\ thread'[c].pc = "handle"
           /\ thread'[c].req = Parse(SubSeq(up[c], 1, n))
           /\ thread'[c].fd = thread[c].fd /\ thread'[c].i = thread[c].i
           /\ Len(up'[c]) = Len(up[c]) - n /\ DOMAIN up'[c] = 1..(Len(up[c]) - n)
           /\ \A i \in 1..(Len(up[c]) - n) : up'[c][i] = up[c][n + i]
           /\ \A d \in Clients : d # c => thread'[d] = thread[d] /\ up'[d] = up[d]
<1>1. up[c] \in Seq(Requests) /\ RecvMax \in Nat
  BY TcpAssumption DEF TypeOK, NetTypeOK, TcpAssumption
<1>2. PICK n \in 1..RecvMax :
        /\ n <= Len(up[c])
        /\ thread' = [thread EXCEPT ![c].pc = "handle",
                                    ![c].req = Parse(SubSeq(up[c], 1, n))]
        /\ up' = [up EXCEPT ![c] = SubSeq(@, n + 1, Len(@))]
  BY DEF RecvRequest
<1>3. n \in 1..Len(up[c])
  BY <1>1, <1>2
<1>4. /\ thread[c].pc = "recv" /\ thread'[c].pc = "handle"
      /\ thread'[c].req = Parse(SubSeq(up[c], 1, n))
      /\ thread'[c].fd = thread[c].fd /\ thread'[c].i = thread[c].i
      /\ \A d \in Clients : d # c => thread'[d] = thread[d] /\ up'[d] = up[d]
  BY <1>2 DEF RecvRequest, TypeOK, BrokerTypeOK, NetTypeOK
<1>5. up'[c] = SubSeq(up[c], n + 1, Len(up[c]))
  BY <1>2 DEF TypeOK, NetTypeOK
<1> DEFINE q == up[c]
<1>6. q \in Seq(Requests) /\ n \in 1..Len(q)
  BY <1>1, <1>3
<1> HIDE DEF q
<1>7. /\ Len(SubSeq(q, n + 1, Len(q))) = Len(q) - n
      /\ DOMAIN SubSeq(q, n + 1, Len(q)) = 1..(Len(q) - n)
      /\ \A i \in 1..(Len(q) - n) : SubSeq(q, n + 1, Len(q))[i] = q[n + i]
  BY <1>6
<1>8. up'[c] = SubSeq(q, n + 1, Len(q))
  BY <1>5 DEF q
<1>9. /\ Len(up'[c]) = Len(up[c]) - n /\ DOMAIN up'[c] = 1..(Len(up[c]) - n)
      /\ \A i \in 1..(Len(up[c]) - n) : up'[c][i] = up[c][n + i]
  BY <1>7, <1>8 DEF q
<1> QED BY <1>3, <1>4, <1>9

\* SUBSCRIBEs that are received together are garbled.
LEMMA ParsedSubscribe ==
  ASSUME TcpAssumption, TypeOK, UpInv, NEW s \in Subscribers, NEW n \in 1..Len(up[s])
  PROVE  /\ Parse(SubSeq(up[s], 1, n)).op = "SUBSCRIBE"
         /\ \/ n = 1 /\ Parse(SubSeq(up[s], 1, n)) = up[s][1]
            \/ Parse(SubSeq(up[s], 1, n)).topic = Garbled
<1> DEFINE q == up[s]
<1>1. q \in Seq(Requests) /\ n \in 1..Len(q) /\ s \in Clients /\ s \notin Publishers
  BY DEF TypeOK, NetTypeOK, Clients, TcpAssumption
<1>2. \A i \in DOMAIN q : OwnRequest(s, q[i])
  BY <1>1 DEF UpInv
<1> HIDE DEF q
<1>3. Head(SubSeq(q, 1, n)) = q[1] /\ Len(SubSeq(q, 1, n)) = n /\ 1 \in DOMAIN q
  BY <1>1
<1>4. q[1].op = "SUBSCRIBE"
  BY <1>1, <1>2, <1>3 DEF OwnRequest, SubscribeTo
<1>5. /\ Parse(SubSeq(q, 1, n)).op = "SUBSCRIBE"
      /\ \/ n = 1 /\ Parse(SubSeq(q, 1, n)) = q[1]
         \/ Parse(SubSeq(q, 1, n)).topic = Garbled
  BY <1>3, <1>4 DEF Parse, SubscribeTo
<1> QED BY <1>5 DEF q

\* Events that are received together make one run.
LEMMA ParsedPublish ==
  ASSUME TcpAssumption, TypeOK, PipelineInv, NEW p \in Publishers, NEW n \in 1..Len(up[p])
  PROVE  Parse(SubSeq(up[p], 1, n)) = PublishIn(TopicOf[p], Run(p, Read(p), Read(p) + n))
<1> DEFINE q == up[p]
           r == Read(p)
<1>1. q \in Seq(Requests) /\ n \in 1..Len(q) /\ r \in Nat
  BY Counts, LineFacts
<1>2. \A i \in DOMAIN q : q[i] = PublishIn(TopicOf[p], <<Event(p, r + i)>>)
  BY DEF PipelineInv
<1> HIDE DEF q, r
<1>3. /\ Head(SubSeq(q, 1, n)) = q[1] /\ Len(SubSeq(q, 1, n)) = n
      /\ \A i \in 1..n : SubSeq(q, 1, n)[i] = q[i] /\ i \in DOMAIN q
  BY <1>1
<1>4. \A i \in 1..n : SubSeq(q, 1, n)[i].body[1] = Event(p, r + i)
  BY <1>2, <1>3 DEF PublishIn
<1>5. q[1] = PublishIn(TopicOf[p], <<Event(p, r + 1)>>)
  BY <1>1, <1>2
<1>6. (r + n) - r = n
  BY <1>1
<1>7. CASE n = 1
  <2>1. Run(p, r, r + n) = <<Event(p, r + 1)>>
    <3>1. Run(p, r, r + n) = [i \in 1..1 |-> Event(p, r + i)]
      BY <1>6, <1>7 DEF Run
    <3>2. [i \in 1..1 |-> Event(p, r + i)] = <<Event(p, r + 1)>>
      OBVIOUS
    <3> QED BY <3>1, <3>2
  <2>2. Parse(SubSeq(q, 1, n)) = q[1]
    BY <1>3, <1>7 DEF Parse
  <2>3. Parse(SubSeq(q, 1, n)) = PublishIn(TopicOf[p], Run(p, r, r + n))
    BY <2>1, <2>2, <1>5
  <2> QED BY <2>3 DEF q, r
<1>8. CASE n # 1
  <2>1. Run(p, r, r + n) = [i \in 1..n |-> Event(p, r + i)]
    BY <1>6 DEF Run
  <2>2. [i \in 1..n |-> SubSeq(q, 1, n)[i].body[1]] = [i \in 1..n |-> Event(p, r + i)]
    BY <1>4
  <2>3. q[1].op = "PUBLISH" /\ q[1].topic = TopicOf[p]
    BY <1>5 DEF PublishIn
  <2>4. Parse(SubSeq(q, 1, n)) = PublishIn(TopicOf[p], [i \in 1..n |-> SubSeq(q, 1, n)[i].body[1]])
    BY <2>3, <1>3, <1>8 DEF Parse
  <2>5. Parse(SubSeq(q, 1, n)) = PublishIn(TopicOf[p], Run(p, r, r + n))
    BY <2>1, <2>2, <2>4
  <2> QED BY <2>5 DEF q, r
<1> QED BY <1>7, <1>8

\* Only a publisher's thread publishes, and only a subscriber's subscribes.
LEMMA Kinds ==
  ASSUME TypeOK, MutexInv, PipelineInv, NEW c \in Clients
  PROVE  /\ thread[c].pc = "fanout" => c \in Publishers
         /\ thread[c].pc = "handle" /\ thread[c].req.op = "PUBLISH" => c \in Publishers
         /\ thread[c].pc = "confirm" => c \in Subscribers
         /\ thread[c].pc = "handle" /\ thread[c].req.op = "SUBSCRIBE" => c \in Subscribers
<1>1. CASE c \in Subscribers
  BY <1>1 DEF MutexInv
<1>2. CASE c \in Publishers
  <2>1. Publishing(c) => thread[c].req.op = "PUBLISH"
    <3>1. Publishing(c) => \E k \in 1..Read(c) :
            thread[c].req = PublishIn(TopicOf[c], Run(c, Read(c) - k, Read(c)))
      BY <1>2, Zenon DEF PipelineInv
    <3>2. \A t, evs : PublishIn(t, evs).op = "PUBLISH"
      BY DEF PublishIn
    <3> QED BY <3>1, <3>2, Zenon
  <2>2. thread[c].pc = "handle" => thread[c].req.op = "PUBLISH"
    BY <2>1 DEF Publishing
  <2>3. thread[c].pc # "confirm"
    BY <1>2 DEF MutexInv
  <2> QED BY <1>2, <2>2, <2>3
<1> QED BY <1>1, <1>2 DEF Clients

\* A thread takes the mutex when it is free and gives it back when it is done.
LEMMA MutexStep ==
  ASSUME TcpAssumption, TcpInv, MutexInv, PipelineInv, NEW c \in Clients, ThreadStep(c)
  PROVE  MutexInv'
<1> DEFINE Inside(d) == thread[d].pc \in {"fanout", "confirm"}
<1>1. /\ TypeOK /\ UpInv /\ BrokerTypeOK /\ Publishers \cap Subscribers = {}
      /\ topics_mutex = {d \in Clients : Inside(d)}
      /\ \A d, e \in topics_mutex : d = e
      /\ \A p \in Publishers : thread[p].pc # "confirm"
      /\ \A s \in Subscribers : thread[s].pc # "fanout"
      /\ \A s \in Subscribers : thread[s].pc = "handle" => thread[s].req.op = "SUBSCRIBE"
  BY DEF TcpInv, TypeOK, MutexInv, TcpAssumption
<1>2. \A d \in Publishers \cup Subscribers : d \in Clients
  BY DEF Clients
<1>3. CASE RecvRequest(c)
  <2>1. PICK n \in 1..Len(up[c]) :
           /\ thread[c].pc = "recv" /\ thread'[c].pc = "handle"
           /\ thread'[c].req = Parse(SubSeq(up[c], 1, n))
           /\ \A d \in Clients : d # c => thread'[d] = thread[d]
    BY <1>1, <1>3, Receiving
  <2>2. c \in Subscribers => thread'[c].req.op = "SUBSCRIBE"
    BY <1>1, <2>1, ParsedSubscribe
  <2>3. UNCHANGED topics_mutex
    BY <1>3 DEF RecvRequest
  <2> QED BY <1>1, <1>2, <2>1, <2>2, <2>3 DEF MutexInv
<1>4. CASE RecvEnd(c) \/ Unregister(c)
  <2>1. /\ thread[c].pc \in {"recv", "unregister"} /\ thread'[c].pc \in {"unregister", "gone"}
        /\ \A d \in Clients : d # c => thread'[d] = thread[d]
        /\ UNCHANGED topics_mutex
    BY <1>1, <1>4 DEF RecvEnd, Unregister, BrokerTypeOK
  <2> QED BY <1>1, <1>2, <2>1 DEF MutexInv
<1>5. CASE LockPublish(c)
  <2>1. /\ thread[c].pc = "handle" /\ thread'[c].pc = "fanout"
        /\ \A d \in Clients : d # c => thread'[d] = thread[d]
        /\ topics_mutex = {} /\ topics_mutex' = {c} /\ c \in Publishers
    BY <1>1, <1>5, Kinds DEF LockPublish, Lock, BrokerTypeOK
  <2>2. c \notin Subscribers
    BY <1>1, <2>1
  <2> QED BY <1>1, <1>2, <2>1, <2>2 DEF MutexInv
<1>6. CASE SendLine(c)
  <2>1. thread[c].pc = "fanout" /\ thread' = [thread EXCEPT ![c].i = @ + 1] /\ UNCHANGED topics_mutex
    BY <1>6 DEF SendLine
  <2>2. \A d \in Clients : thread'[d].pc = thread[d].pc /\ thread'[d].req = thread[d].req
    BY <1>1, <2>1 DEF BrokerTypeOK
  <2> QED BY <1>1, <1>2, <2>1, <2>2 DEF MutexInv
<1>7. CASE LockSubscribe(c)
  <2>1. /\ thread[c].pc = "handle" /\ thread'[c].pc = "confirm"
        /\ \A d \in Clients : d # c => thread'[d] = thread[d]
        /\ topics_mutex = {} /\ topics_mutex' = {c} /\ c \in Subscribers
    BY <1>1, <1>7, Kinds DEF LockSubscribe, Lock, BrokerTypeOK
  <2>2. c \notin Publishers
    BY <1>1, <2>1
  <2> QED BY <1>1, <1>2, <2>1, <2>2 DEF MutexInv
<1>8. CASE EndPublish(c) \/ Confirm(c)
  <2>1. /\ Inside(c) /\ thread'[c].pc \in {"recv", "quit"}
        /\ \A d \in Clients : d # c => thread'[d] = thread[d]
        /\ topics_mutex' = topics_mutex \ {c}
    <3>1. CASE EndPublish(c)
      BY <1>1, <3>1 DEF EndPublish, Unlock, AtLoop, BrokerTypeOK
    <3>2. CASE Confirm(c)
      <4>1. /\ thread[c].pc = "confirm" /\ topics_mutex' = topics_mutex \ {c}
            /\ thread' = [thread EXCEPT ![c].pc = AtLoop, ![c].req = NoRequest]
        BY <3>2 DEF Confirm, Unlock
      <4> QED BY <1>1, <4>1 DEF AtLoop, BrokerTypeOK
    <3> QED BY <1>8, <3>1, <3>2
  <2> QED BY <1>1, <1>2, <2>1 DEF MutexInv
<1> QED BY <1>3, <1>4, <1>5, <1>6, <1>7, <1>8 DEF ThreadStep

---------------------------------------------------------------------------
(* What the client programs do. *)

\* publish_events hands over the next event.
LEMMA PubSendOrder ==
  ASSUME TcpAssumption, OrderInv, TcpInv', NEW p \in Publishers, PubSend(p), UNCHANGED brokerVars
  PROVE  OrderInv' /\ \A q \in Publishers : Read(q)' = Read(q)
<1> DEFINE req == PublishIn(TopicOf[p], <<Event(p, pub[p].seq)>>)
<1>1. TypeOK /\ TypeOK' /\ PipelineInv /\ p \in Clients /\ p \notin Subscribers
  BY DEF OrderInv, TcpInv, Clients, TcpAssumption
<1>2. /\ up' = [up EXCEPT ![p] = Append(@, req)]
      /\ pub' = [pub EXCEPT ![p] = [pc |-> IF @.seq = NumEvents THEN "close" ELSE "send",
                                    seq |-> @.seq + 1]]
      /\ UNCHANGED <<down, shown, thread, topics_mutex>>
  BY DEF PubSend, SendUp, brokerVars
<1>3. pub[p].seq \in Nat /\ up[p] \in Seq(Requests) /\ Len(up[p]) \in Nat
  BY <1>1, Counts
<1>4. /\ up'[p] = Append(up[p], req) /\ pub'[p].seq = pub[p].seq + 1
      /\ \A q \in Publishers : q # p => up'[q] = up[q] /\ pub'[q].seq = pub[q].seq
  BY <1>1, <1>2 DEF TypeOK, NetTypeOK, ClientTypeOK, Clients
<1>5. /\ Len(up'[p]) = Len(up[p]) + 1
      /\ \A i \in DOMAIN up'[p] : (i \in DOMAIN up[p] /\ up'[p][i] = up[p][i])
                                  \/ (i = Len(up[p]) + 1 /\ up'[p][i] = req)
  <2>1. req \in Requests
    <3>1. pub[p].seq \in 1..NumEvents
      BY DEF PubSend, OrderInv, TcpInv, ProgressInv
    <3>2. Event(p, pub[p].seq) \in Events
      BY <3>1 DEF Event, Events
    <3> QED BY <3>2, RequestTypes
  <2> HIDE DEF req
  <2> QED BY <1>3, <1>4, <2>1
<1>6. \A q \in Publishers : Read(q)' = Read(q)
  <2>1. Read(p)' = Read(p)
    <3>1. Read(p) = pub[p].seq - 1 - Len(up[p]) /\ Read(p)' = pub'[p].seq - 1 - Len(up'[p])
      BY Zenon DEF Read
    <3> DEFINE n == pub[p].seq
               l == Len(up[p])
    <3>2. n \in Nat /\ l \in Nat /\ pub'[p].seq = n + 1 /\ Len(up'[p]) = l + 1
      BY <1>3, <1>4, <1>5
    <3> HIDE DEF n, l
    <3>3. (n + 1) - 1 - (l + 1) = n - 1 - l
      BY <3>2
    <3> QED BY <3>1, <3>2, <3>3 DEF n, l
  <2> QED BY <1>4, <2>1 DEF Read
<1>7. Read(p) + (Len(up[p]) + 1) = pub[p].seq
  <2> DEFINE n == pub[p].seq
             l == Len(up[p])
  <2>1. Read(p) = n - 1 - l /\ n \in Nat /\ l \in Nat
    BY <1>3 DEF Read
  <2> HIDE DEF n, l
  <2>2. Read(p) + (l + 1) = n
    BY <2>1
  <2> QED BY <2>2 DEF n, l
<1>8. PipelineInv'
  <2> SUFFICES ASSUME NEW q \in Publishers
               PROVE  /\ Read(q)' >= 0
                      /\ \A i \in DOMAIN up'[q] :
                           up'[q][i] = PublishIn(TopicOf[q], <<Event(q, Read(q)' + i)>>)
                      /\ Publishing(q)' => \E k \in 1..Read(q)' :
                           thread'[q].req = PublishIn(TopicOf[q], Run(q, Read(q)' - k, Read(q)'))
    BY DEF PipelineInv
  <2>1. CASE q # p
    BY <2>1, <1>1, <1>2, <1>4, <1>6 DEF PipelineInv, Publishing
  <2>2. CASE q = p
    <3>1. \A i \in DOMAIN up'[p] : up'[p][i] = PublishIn(TopicOf[p], <<Event(p, Read(p) + i)>>)
      BY <1>1, <1>5, <1>7 DEF PipelineInv
    <3> QED BY <2>2, <3>1, <1>1, <1>2, <1>6 DEF PipelineInv, Publishing
  <2> QED BY <2>1, <2>2
<1>9. \A q \in Publishers : Past(q)' = Past(q) /\ Past(q) \in Nat
  BY <1>1, <1>2, <1>6, LineFacts DEF Past, Publishing
<1>10. NothingNew
  BY <1>2, UntouchedFrame
<1>11. SentInv'
  <2>1. \A q \in Publishers : Past(q) \in Nat /\ Past(q)' \in Nat /\ Past(q) <= Past(q)'
    BY <1>9
  <2> QED BY <1>2, <1>10, <2>1, SentFrame DEF OrderInv, LineOf
<1>12. LastInv'
  <2>1. \A s \in Subscribers : Received(s) \in Seq(Lines) /\ Received(s)' = Received(s)
    BY <1>1, <1>2, ReceivedTypes DEF Received
  <2>2. \A q \in Publishers : LineOf(q)' = LineOf(q)
    BY <1>2 DEF LineOf
  <2> QED BY <1>2, <2>1, <2>2 DEF OrderInv, LastInv
<1>13. SameOrder'
  BY <1>10, SameOrderFrame DEF OrderInv
<1>14. MutexInv'
  BY <1>2 DEF OrderInv, MutexInv
<1> QED BY <1>6, <1>8, <1>11, <1>12, <1>13, <1>14 DEF OrderInv

\* Nothing else that a client does sends an event or receives one.
LEMMA ClientOrder ==
  ASSUME TcpAssumption, TcpSystemAssumption, OrderInv, TcpInv', ClientNext
  PROVE  OrderInv'
<1>1. UNCHANGED brokerVars /\ TypeOK /\ TypeOK' /\ MutexInv /\ ClientTypeOK
  BY DEF ClientNext, OrderInv, TcpInv, TypeOK
<1>2. MutexInv'
  BY <1>1 DEF MutexInv, brokerVars
<1>3. ASSUME NothingNew, UNCHANGED up, \A p \in Publishers : pub'[p].seq = pub[p].seq
      PROVE  OrderInv'
  BY <1>1, <1>2, <1>3, QuietStep DEF brokerVars, Publishing
<1>4. ASSUME NEW p \in Publishers, PublisherNext(p) PROVE OrderInv'
  <2>1. CASE PubSend(p)
    BY <1>1, <2>1, PubSendOrder
  <2>2. CASE PubConnect(p) \/ PubBreak(p)
    <3>1. UNCHANGED <<up, down, shown>>
      BY <2>2 DEF PubConnect, PubBreak, Connect, netVars
    <3>2. \E v \in {"send", "close"} : pub' = [pub EXCEPT ![p].pc = v]
      BY <2>2 DEF PubConnect, PubBreak
    <3>3. \A q \in Publishers : pub'[q].seq = pub[q].seq
      BY <1>1, <3>2 DEF ClientTypeOK
    <3> QED BY <3>1, <3>3, <1>3, UntouchedFrame
  <2>3. CASE PubClose(p)
    <3>1. UNCHANGED <<up, shown>> /\ \A q \in Publishers : pub'[q].seq = pub[q].seq
      BY <1>1, <2>3 DEF PubClose, Shut, ClientTypeOK
    <3>2. NothingNew
      BY <1>1, <2>3, <3>1, ShuttingFrame DEF PubClose, Clients
    <3> QED BY <3>1, <3>2, <1>3
  <2> QED BY <1>4, <2>1, <2>2, <2>3 DEF PublisherNext
<1>5. ASSUME NEW s \in Subscribers, SubscriberNext(s) \/ SubLeave(s) PROVE OrderInv'
  <2>0. UNCHANGED pub /\ \A p \in Publishers : p # s /\ p \in Clients
    BY <1>5 DEF SubscriberNext, SubConnect, SubSend, SubRead, SubLeave, TcpAssumption, Clients
  <2>1. CASE SubConnect(s)
    BY <2>0, <2>1, <1>3, UntouchedFrame DEF SubConnect, Connect
  <2>2. CASE SubSend(s)
    <3>1. UNCHANGED <<down, shown>> /\ \A p \in Publishers : up'[p] = up[p]
      BY <1>1, <2>0, <2>2 DEF SubSend, SendUp, netVars, TypeOK, NetTypeOK
    <3>2. NothingNew
      BY <3>1, UntouchedFrame
    <3> QED BY <1>1, <1>2, <2>0, <3>1, <3>2, QuietStep DEF brokerVars, Publishing
  <2>3. CASE SubRead(s)
    <3>1. NothingNew
      BY <1>1, <2>3, ReadingFrame
    <3> QED BY <2>0, <2>3, <3>1, <1>3 DEF SubRead
  <2>4. CASE SubLeave(s)
    <3>1. NothingNew
      BY <1>1, <2>4, ShuttingFrame DEF SubLeave, Clients
    <3> QED BY <2>0, <2>4, <3>1, <1>3 DEF SubLeave, Shut
  <2> QED BY <1>5, <2>1, <2>2, <2>3, <2>4 DEF SubscriberNext
<1> QED BY <1>4, <1>5 DEF ClientNext, Leave, TcpSystemAssumption

---------------------------------------------------------------------------
(* What the broker does. *)

\* What a publisher's thread receives is the next run of its events.
LEMMA RecvRequestOrder ==
  ASSUME TcpAssumption, OrderInv, TcpInv', MutexInv', NEW c \in Clients, RecvRequest(c),
         UNCHANGED clientVars
  PROVE  /\ OrderInv'
         /\ \A q \in Publishers : Past(q)' = Past(q) /\ (q # c => Read(q)' = Read(q))
<1>1. /\ TypeOK /\ TypeOK' /\ PipelineInv /\ UNCHANGED <<pub, shown, down>>
      /\ \A q \in Publishers : q \in Clients /\ q \notin Subscribers
  BY DEF OrderInv, TcpInv, RecvRequest, clientVars, Clients, TcpAssumption
<1>2. PICK n \in 1..Len(up[c]) :
         /\ thread[c].pc = "recv" /\ thread'[c].pc = "handle"
         /\ thread'[c].req = Parse(SubSeq(up[c], 1, n))
         /\ Len(up'[c]) = Len(up[c]) - n /\ DOMAIN up'[c] = 1..(Len(up[c]) - n)
         /\ \A i \in 1..(Len(up[c]) - n) : up'[c][i] = up[c][n + i]
         /\ \A d \in Clients : d # c => thread'[d] = thread[d] /\ up'[d] = up[d]
  BY <1>1, Receiving
<1>3. NothingNew
  BY <1>1, UntouchedFrame
<1>4. CASE c \in Subscribers
  <2>1. \A q \in Publishers : q # c
    BY <1>1, <1>4
  <2>2. OrderInv'
    BY <1>1, <1>2, <1>3, <2>1, QuietStep DEF Publishing
  <2>3. \A q \in Publishers : Read(q)' = Read(q) /\ Past(q)' = Past(q)
    BY <1>1, <1>2, <2>1 DEF Read, Past, Publishing
  <2> QED BY <2>2, <2>3
<1>5. CASE c \in Publishers
  <2> DEFINE l == Len(up[c])
             r == Read(c)
  <2>1. /\ l \in Nat /\ r \in Nat /\ n \in Nat /\ n >= 1 /\ n <= l /\ ~Publishing(c)
        /\ DOMAIN up[c] = 1..l
    BY <1>1, <1>2, <1>5, Counts, LineFacts DEF Publishing
  <2>2. Read(c)' = r + n
    <3>1. r = pub[c].seq - 1 - l /\ Read(c)' = pub[c].seq - 1 - Len(up'[c])
      BY <1>1, Zenon DEF Read
    <3> DEFINE seq == pub[c].seq
    <3>2. Len(up'[c]) = l - n /\ seq \in Nat
      BY <1>1, <1>2, <1>5, Counts
    <3> HIDE DEF seq, l, r
    <3>3. seq - 1 - (l - n) = (seq - 1 - l) + n
      BY <2>1, <3>2
    <3> QED BY <3>1, <3>2, <3>3 DEF seq
  <2>3. thread'[c].req = PublishIn(TopicOf[c], Run(c, r, r + n))
    BY <1>1, <1>2, <1>5, ParsedPublish
  <2>4. \A q \in Publishers : q # c => Read(q)' = Read(q) /\ Past(q)' = Past(q)
    BY <1>1, <1>2 DEF Read, Past, Publishing
  <2>5. \A i \in DOMAIN up'[c] : up'[c][i] = PublishIn(TopicOf[c], <<Event(c, (r + n) + i)>>)
    <3> TAKE i \in DOMAIN up'[c]
    <3>1. DOMAIN up'[c] = 1..(l - n) /\ up'[c][i] = up[c][n + i]
      BY <1>2
    <3>2. \A j \in 1..l : up[c][j] = PublishIn(TopicOf[c], <<Event(c, r + j)>>)
      BY <1>1, <1>5, <2>1 DEF PipelineInv
    <3> HIDE DEF l, r
    <3>3. n + i \in 1..l /\ r + (n + i) = (r + n) + i
      BY <2>1, <3>1
    <3>4. up[c][n + i] = PublishIn(TopicOf[c], <<Event(c, r + (n + i))>>)
      BY <3>2, <3>3
    <3> QED BY <3>1, <3>3, <3>4
  <2>6. (r + n) - n = r /\ r + n >= 0 /\ n \in 1..(r + n)
    <3> HIDE DEF r, l
    <3> QED BY <2>1
  <2>7. Past(c)' = Past(c) /\ Past(c) = r
    <3>1. thread'[c].req.body = Run(c, r, r + n)
      BY <2>3 DEF PublishIn
    <3>2. Publishing(c)'
      BY <1>2 DEF Publishing
    <3>3. r + n \in Nat /\ r < r + n /\ (r + n) - r = n
      <4> HIDE DEF r, l
      <4> QED BY <2>1
    <3>4. Len(Run(c, r, r + n)) = n
      BY <1>5, <2>1, <3>3, RunFacts
    <3>5. Past(c)' = Read(c)' - Len(thread'[c].req.body)
      BY <3>2, Zenon DEF Past
    <3>6. Past(c)' = r
      BY <2>2, <2>6, <3>1, <3>4, <3>5
    <3> QED BY <2>1, <3>6 DEF Past
  <2> HIDE DEF l, r
  <2>8. PipelineInv'
    <3> SUFFICES ASSUME NEW q \in Publishers
                 PROVE  /\ Read(q)' >= 0
                        /\ \A i \in DOMAIN up'[q] :
                             up'[q][i] = PublishIn(TopicOf[q], <<Event(q, Read(q)' + i)>>)
                        /\ Publishing(q)' => \E k \in 1..Read(q)' :
                             thread'[q].req = PublishIn(TopicOf[q], Run(q, Read(q)' - k, Read(q)'))
      BY DEF PipelineInv
    <3>1. CASE q # c
      BY <3>1, <1>1, <1>2, <2>4 DEF PipelineInv, Publishing
    <3>2. CASE q = c
      <4>1. Read(q)' >= 0 /\ n \in 1..Read(q)'
        BY <3>2, <2>2, <2>6
      <4>2. thread'[q].req = PublishIn(TopicOf[q], Run(q, Read(q)' - n, Read(q)'))
        BY <3>2, <2>2, <2>3, <2>6
      <4> QED BY <3>2, <4>1, <4>2, <2>2, <2>5
    <3> QED BY <3>1, <3>2
  <2>9. \A q \in Publishers : Past(q) \in Nat /\ Past(q)' \in Nat /\ Past(q) <= Past(q)'
    BY <1>1, <2>4, <2>7, LineFacts
  <2>10. \A q \in Publishers : (thread'[q].pc = "fanout" <=> thread[q].pc = "fanout")
           /\ (thread[q].pc = "fanout" => LineOf(q)' = LineOf(q))
    BY <1>1, <1>2 DEF LineOf
  <2>11. SentInv'
    BY <1>3, <2>9, <2>10, SentFrame DEF OrderInv
  <2>12. \A s \in Subscribers : Received(s) \in Seq(Lines) /\ Received(s)' \in Seq(Lines)
    BY <1>1, ReceivedTypes DEF Received
  <2>13. LastInv'
    BY <1>3, <2>10, <2>12, LastFrame DEF OrderInv
  <2>14. OrderInv'
    BY <1>3, <2>8, <2>11, <2>13, SameOrderFrame DEF OrderInv
  <2> QED BY <2>4, <2>7, <2>14
<1> QED BY <1>4, <1>5 DEF Clients

\* When publish_message takes the mutex nobody has received the line it is
\* going to send.
LEMMA LockPublishOrder ==
  ASSUME TcpAssumption, OrderInv, TcpInv', MutexInv', NEW c \in Clients, LockPublish(c),
         UNCHANGED clientVars
  PROVE  OrderInv' /\ \A q \in Publishers : Past(q)' = Past(q) /\ Read(q)' = Read(q)
<1>1. /\ TypeOK /\ TypeOK' /\ BrokerTypeOK /\ PipelineInv /\ MutexInv
      /\ UNCHANGED <<pub, shown, down, up>>
      /\ \A q \in Publishers : q \in Clients
  BY DEF OrderInv, TcpInv, TypeOK, LockPublish, netVars, clientVars, Clients
<1>2. /\ thread[c].pc = "handle" /\ thread[c].req.op = "PUBLISH" /\ topics_mutex = {}
      /\ thread' = [thread EXCEPT ![c].pc = "fanout", ![c].i = 1]
  BY DEF LockPublish, Lock
<1>3. c \in Publishers
  BY <1>1, <1>2, Kinds
<1>4. /\ thread'[c].pc = "fanout" /\ thread'[c].req = thread[c].req
      /\ \A d \in Clients : d # c => thread'[d] = thread[d]
      /\ \A d \in Clients : thread[d].pc # "fanout"
  BY <1>1, <1>2 DEF BrokerTypeOK, MutexInv
<1>5. NothingNew /\ \A s \in Subscribers : Received(s)' = Received(s)
  BY <1>1, UntouchedFrame DEF Received
<1>6. \A q \in Publishers : thread'[q].req = thread[q].req /\ (Publishing(q)' <=> Publishing(q))
  BY <1>1, <1>2, <1>4 DEF Publishing
<1>7. PipelineInv' /\ \A q \in Publishers : Read(q)' = Read(q)
  BY <1>1, <1>6, PipelineFrame
<1>8. \A q \in Publishers : Past(q)' = Past(q) /\ Past(q) \in Nat
  BY <1>1, <1>6, <1>7, LineFacts DEF Past
<1>9. SentInv'
  <2>1. \A q \in Publishers : Past(q) \in Nat /\ Past(q)' \in Nat /\ Past(q) <= Past(q)'
    BY <1>8
  <2> QED BY <1>1, <1>4, <1>5, <2>1, SentFrame DEF OrderInv
<1>10. LastInv'
  <2>1. LineOf(c)' = Update(TopicOf[c], Run(c, Past(c), Read(c)))
        /\ Past(c) \in Nat /\ Read(c) \in Nat /\ Past(c) < Read(c)
    <3>1. LineOf(c)' = LineOf(c)
      BY <1>4 DEF LineOf
    <3>2. Publishing(c)
      BY <1>2 DEF Publishing
    <3> QED BY <1>1, <1>3, <3>1, <3>2, LineFacts
  <2>2. ASSUME NEW s \in Subscribers, NEW i \in DOMAIN Received(s),
               Received(s)[i] = Update(TopicOf[c], Run(c, Past(c), Read(c)))
        PROVE  FALSE
    <3>1. Received(s)[i].kind = "update"
      BY <2>2 DEF Update
    <3>2. PICK p \in Publishers : PastLine(p, Received(s)[i])
      BY <1>1, <1>4, <3>1 DEF OrderInv, SentInv
    <3>3. PICK a \in 0..Past(p), b \in 0..Past(p) :
             a < b /\ Received(s)[i] = Update(TopicOf[p], Run(p, a, b))
      BY <3>2 DEF PastLine
    <3>4. a \in Nat /\ b \in Nat /\ b <= Past(p)
      BY <1>8
    <3>5. Update(TopicOf[p], Run(p, a, b)) = Update(TopicOf[c], Run(c, Past(c), Read(c)))
      BY <2>2, <3>3
    <3>6. p = c /\ a = Past(c) /\ b = Read(c)
      BY <1>3, <2>1, <3>3, <3>4, <3>5, RunsDiffer
    <3> QED BY <2>1, <3>4, <3>6
  <2>3. \A p \in Publishers : thread'[p].pc = "fanout" => p = c
    BY <1>1, <1>4
  <2>4. \A s \in Subscribers : \A i \in DOMAIN Received(s)' : Received(s)'[i] # LineOf(c)'
    BY <1>5, <2>1, <2>2
  <2> QED BY <2>3, <2>4 DEF LastInv
<1>11. OrderInv'
  BY <1>5, <1>7, <1>9, <1>10, SameOrderFrame DEF OrderInv
<1> QED BY <1>7, <1>8, <1>11

\* What a subscriber is sent by publish_message comes last, for everyone who
\* has it.
LEMMA SendLineOrder ==
  ASSUME TcpAssumption, OrderInv, TcpInv', MutexInv', NEW c \in Clients, SendLine(c),
         UNCHANGED clientVars
  PROVE  OrderInv' /\ \A q \in Publishers : Past(q)' = Past(q) /\ Read(q)' = Read(q)
<1> DEFINE line == LineOf(c)
<1>1. /\ TypeOK /\ TypeOK' /\ BrokerTypeOK /\ PipelineInv /\ MutexInv
      /\ UNCHANGED <<pub, shown, up>>
      /\ \A q \in Publishers : q \in Clients
      /\ thread[c].pc = "fanout" /\ thread' = [thread EXCEPT ![c].i = @ + 1]
  BY DEF OrderInv, TcpInv, TypeOK, SendLine, clientVars, Clients
<1>2. c \in Publishers /\ \A q \in Publishers : thread[q].pc = "fanout" => q = c
  BY <1>1, Kinds DEF MutexInv
<1>3. \A d \in Clients : thread'[d].pc = thread[d].pc /\ thread'[d].req = thread[d].req
  BY <1>1 DEF BrokerTypeOK
<1>4. line \in Lines /\ line.kind = "update" /\ LineOf(c)' = line
  <2>1. line \in Lines
    BY <1>1, ThreadTypes DEF LineOf, Update, Lines
  <2> QED BY <1>3, <2>1 DEF LineOf, Update
<1>5. \/ \A s \in Subscribers : Received(s)' = Received(s)
      \/ \E r \in Subscribers : \A s \in Subscribers :
           Received(s)' = IF s = r THEN Append(Received(s), line) ELSE Received(s)
  <2> DEFINE f == Targets(c)[thread[c].i]
  <2>1. IF f # thread[c].fd THEN SendDown(f, line) ELSE UNCHANGED <<down, reset>>
    BY DEF SendLine, LineOf
  <2>2. CASE UNCHANGED down
    BY <1>1, <2>2 DEF Received
  <2>3. CASE SendDown(f, line)
    <3> HIDE DEF f, line
    <3> QED BY <1>1, <1>4, <2>3, SendingFrame
  <2> QED BY <2>1, <2>2, <2>3
<1>6. \A s \in Subscribers : Received(s) \in Seq(Lines)
  BY <1>1, ReceivedTypes
<1> HIDE DEF line
<1>7. \A s \in Subscribers : \A i \in DOMAIN Received(s)' :
        \/ i \in DOMAIN Received(s) /\ Received(s)'[i] = Received(s)[i]
        \/ Received(s)'[i] = line /\ \A j \in DOMAIN Received(s)' : j <= i
  <2> TAKE s \in Subscribers
  <2> DEFINE all == Received(s)
             new == Append(all, line)
  <2>1. all \in Seq(Lines)
    BY <1>6
  <2> HIDE DEF all
  <2>2. \A i \in DOMAIN new :
          \/ i \in DOMAIN all /\ new[i] = all[i]
          \/ new[i] = line /\ \A j \in DOMAIN new : j <= i
    BY <1>4, <2>1
  <2>3. Received(s)' = all \/ Received(s)' = new
    BY <1>5 DEF all
  <2> QED BY <2>2, <2>3 DEF all
<1>8. PipelineInv' /\ \A q \in Publishers : Read(q)' = Read(q)
  BY <1>1, <1>3, PipelineFrame DEF Publishing
<1>9. \A q \in Publishers : Past(q)' = Past(q)
  BY <1>1, <1>3, <1>8 DEF Past, Publishing
<1>10. SentInv'
  <2> SUFFICES ASSUME NEW s \in Subscribers
               PROVE  \A i \in DOMAIN Received(s)' : Received(s)'[i].kind = "update" =>
                 \E p \in Publishers :
                   \/ PastLine(p, Received(s)[i])'
                   \/ thread'[p].pc = "fanout" /\ Received(s)'[i] = LineOf(p)'
    BY DEF SentInv
  <2>1. \A p \in Publishers : \A l : PastLine(p, l)' <=> PastLine(p, l)
    BY <1>9 DEF PastLine
  <2>2. \A p \in Publishers : thread'[p].pc = thread[p].pc /\ LineOf(p)' = LineOf(p)
    BY <1>1, <1>3 DEF LineOf
  <2> QED BY <1>1, <1>2, <1>4, <1>7, <2>1, <2>2 DEF OrderInv, SentInv
<1>11. LastInv'
  <2>1. \A p \in Publishers : thread'[p].pc = "fanout" => p = c
    BY <1>1, <1>2, <1>3
  <2>2. ASSUME NEW s \in Subscribers
        PROVE  \A i, j \in DOMAIN Received(s)' :
                 i < j /\ Received(s)'[i] = line /\ Received(s)'[j].kind = "update"
                 => Received(s)'[j] = line
    <3>1. \A i, j \in DOMAIN Received(s) :
            i < j /\ Received(s)[i] = line /\ Received(s)[j].kind = "update"
            => Received(s)[j] = line
      BY <1>1, <1>2 DEF OrderInv, LastInv, line
    <3>2. \A i, j \in DOMAIN Received(s)' : i < j => i \in Int /\ j \in Int /\ ~(j <= i)
      BY <1>1, ReceivedInt
    <3> QED BY <1>7, <3>1, <3>2
  <2> QED BY <1>4, <2>1, <2>2 DEF LastInv
<1>12. SameOrder'
  <2> SUFFICES ASSUME NEW s \in Subscribers, NEW r \in Subscribers
               PROVE  \A i, j \in DOMAIN Received(s)', k, l \in DOMAIN Received(r)' :
      /\ i < j /\ Received(s)'[i].kind = "update" /\ Received(s)'[j].kind = "update"
      /\ k < l /\ Received(r)'[k] = Received(s)'[j] /\ Received(r)'[l] = Received(s)'[i]
      => Received(s)'[i] = Received(s)'[j]
    BY DEF SameOrder
  <2>1. \A i, j \in DOMAIN Received(s), k, l \in DOMAIN Received(r) :
      /\ i < j /\ Received(s)[i].kind = "update" /\ Received(s)[j].kind = "update"
      /\ k < l /\ Received(r)[k] = Received(s)[j] /\ Received(r)[l] = Received(s)[i]
      => Received(s)[i] = Received(s)[j]
    BY DEF OrderInv, SameOrder
  <2>2. \A t \in Subscribers : \A i, j \in DOMAIN Received(t)' :
          i < j => i \in Int /\ j \in Int /\ ~(j <= i)
    BY <1>1, ReceivedInt
  <2>3. \A t \in Subscribers : \A i, j \in DOMAIN Received(t)' :
          i < j /\ Received(t)'[i] = line /\ Received(t)'[j].kind = "update"
          => Received(t)'[j] = line
    BY <1>1, <1>2, <1>3, <1>4, <1>11 DEF LastInv
  <2> QED BY <1>7, <2>1, <2>2, <2>3
<1>13. OrderInv'
  BY <1>8, <1>10, <1>11, <1>12 DEF OrderInv
<1> QED BY <1>8, <1>9, <1>13

\* When publish_message returns, its line is one that was sent to all before.
LEMMA EndPublishOrder ==
  ASSUME TcpAssumption, OrderInv, TcpInv', MutexInv', NEW c \in Clients, EndPublish(c),
         UNCHANGED clientVars
  PROVE  /\ OrderInv' /\ Past(c)' = Read(c)
         /\ \A q \in Publishers : Read(q)' = Read(q) /\ (q # c => Past(q)' = Past(q))
<1>1. /\ TypeOK /\ TypeOK' /\ BrokerTypeOK /\ PipelineInv /\ MutexInv
      /\ UNCHANGED <<pub, shown, down, up>>
      /\ \A q \in Publishers : q \in Clients
      /\ thread[c].pc = "fanout"
  BY DEF OrderInv, TcpInv, TypeOK, EndPublish, netVars, clientVars, Clients
<1>2. c \in Publishers /\ Publishing(c)
  BY <1>1, Kinds DEF Publishing
<1>3. /\ thread'[c].pc \in {"recv", "quit"}
      /\ \A d \in Clients : d # c => thread'[d] = thread[d]
  <2>1. thread' = [thread EXCEPT ![c] = [pc |-> AtLoop, fd |-> @.fd, req |-> NoRequest, i |-> 0]]
    BY DEF EndPublish
  <2> QED BY <1>1, <2>1 DEF AtLoop, BrokerTypeOK
<1>4. NothingNew /\ \A s \in Subscribers : Received(s)' = Received(s)
  BY <1>1, UntouchedFrame DEF Received
<1>5. PipelineInv' /\ \A q \in Publishers : Read(q)' = Read(q)
  <2>1. \A q \in Publishers : Publishing(q)' => Publishing(q) /\ thread'[q].req = thread[q].req
    BY <1>1, <1>3 DEF Publishing
  <2> QED BY <1>1, <2>1, PipelineFrame
<1>6. \A q \in Publishers : q # c => Past(q)' = Past(q)
  BY <1>1, <1>3, <1>5 DEF Past, Publishing
<1>7. Past(c)' = Read(c)
  BY <1>2, <1>3, <1>5 DEF Past, Publishing
<1>8. /\ \A q \in Publishers : Past(q) \in Nat /\ Past(q)' \in Nat /\ Past(q) <= Past(q)'
      /\ Past(c) < Read(c) /\ Read(c) \in Nat
      /\ LineOf(c) = Update(TopicOf[c], Run(c, Past(c), Read(c)))
  BY <1>1, <1>2, <1>6, <1>7, LineFacts
<1>9. SentInv'
  <2> DEFINE Sent(line) == \E q \in Publishers :
               \/ \E a, b \in 0..Past(q)' : a < b /\ line = Update(TopicOf[q], Run(q, a, b))
               \/ thread'[q].pc = "fanout" /\ line = LineOf(q)'
             Was(line) == \E p \in Publishers :
               PastLine(p, line) \/ (thread[p].pc = "fanout" /\ line = LineOf(p))
  <2>1. ASSUME NEW line, NEW p \in Publishers,
               PastLine(p, line) \/ (thread[p].pc = "fanout" /\ line = LineOf(p))
        PROVE  Sent(line)
    <3>1. CASE PastLine(p, line)
      <4>1. PICK a \in 0..Past(p), b \in 0..Past(p) :
                a < b /\ line = Update(TopicOf[p], Run(p, a, b))
        BY <3>1 DEF PastLine
      <4>2. a \in 0..Past(p)' /\ b \in 0..Past(p)'
        BY <1>8
      <4> QED BY <4>1, <4>2
    <3>2. CASE p = c /\ line = LineOf(c)
      <4>1. Past(c) \in 0..Past(c)' /\ Read(c) \in 0..Past(c)'
        BY <1>2, <1>7, <1>8
      <4> QED BY <1>2, <1>8, <3>2, <4>1
    <3>3. CASE p # c /\ thread[p].pc = "fanout" /\ line = LineOf(p)
      <4>1. thread'[p].pc = "fanout" /\ LineOf(p)' = LineOf(p)
        BY <1>1, <1>3, <3>3 DEF LineOf
      <4> QED BY <3>3, <4>1
    <3> QED BY <2>1, <3>1, <3>2, <3>3
  <2>2. \A s \in Subscribers : \A i \in DOMAIN Received(s) :
          Received(s)[i].kind = "update" => Was(Received(s)[i])
    BY Zenon DEF OrderInv, SentInv
  <2>3. \A line : Was(line) => Sent(line)
    BY <2>1
  <2>4. \A s \in Subscribers : \A i \in DOMAIN Received(s)' :
          Received(s)'[i].kind = "update" => Sent(Received(s)'[i])
    <3> HIDE DEF Sent, Was
    <3> QED BY <1>4, <2>2, <2>3
  <2> QED BY <2>4, Zenon DEF SentInv, PastLine
<1>10. LastInv'
  <2>1. \A p \in Publishers : thread'[p].pc = "fanout" =>
           thread[p].pc = "fanout" /\ LineOf(p)' = LineOf(p)
    BY <1>1, <1>3 DEF LineOf
  <2>2. \A s \in Subscribers : Received(s) \in Seq(Lines) /\ Received(s)' \in Seq(Lines)
    BY <1>1, <1>4, ReceivedTypes
  <2> QED BY <1>4, <2>1, <2>2, LastFrame DEF OrderInv
<1>11. OrderInv'
  BY <1>4, <1>5, <1>9, <1>10, SameOrderFrame DEF OrderInv
<1> QED BY <1>5, <1>6, <1>7, <1>11

\* A confirmation comes behind what a subscriber has received.
LEMMA ConfirmFrame ==
  ASSUME TypeOK, NEW c \in Clients, Confirm(c), UNCHANGED shown
  PROVE  /\ NothingNew
         /\ \A s \in Subscribers : \A i \in DOMAIN Received(s) :
              i \in DOMAIN Received(s)' /\ Received(s)'[i] = Received(s)[i]
<1> DEFINE line == Confirmation(thread[c].req.topic)
           f == thread[c].fd
<1>1. SendDown(f, line)
  BY DEF Confirm
<1>2. line \in Lines /\ line.kind # "update"
  BY ThreadTypes DEF Confirmation, Lines
<1> HIDE DEF line, f
<1>3. ASSUME NEW s \in Subscribers
      PROVE  Received(s)' = Received(s) \/ Received(s)' = Append(Received(s), line)
  BY <1>1, <1>2, SendingFrame
<1>4. ASSUME NEW s \in Subscribers
      PROVE  /\ \A i \in DOMAIN Append(Received(s), line) :
                  IF i \in DOMAIN Received(s) THEN Append(Received(s), line)[i] = Received(s)[i]
                  ELSE Append(Received(s), line)[i] = line
             /\ \A i \in DOMAIN Received(s) : /\ i \in DOMAIN Append(Received(s), line)
                                              /\ Append(Received(s), line)[i] = Received(s)[i]
  <2> DEFINE all == Received(s)
  <2>1. all \in Seq(Lines)
    BY ReceivedTypes
  <2> HIDE DEF all
  <2>2. /\ \A i \in DOMAIN Append(all, line) :
             IF i \in DOMAIN all THEN Append(all, line)[i] = all[i] ELSE Append(all, line)[i] = line
        /\ \A i \in DOMAIN all : i \in DOMAIN Append(all, line) /\ Append(all, line)[i] = all[i]
    BY <1>2, <2>1
  <2> QED BY <2>2 DEF all
<1> QED BY <1>2, <1>3, <1>4 DEF NothingNew

\* The other steps of a thread carry no event anywhere.
LEMMA ThreadOrder ==
  ASSUME TcpAssumption, OrderInv, TcpInv', NEW c \in Clients, ThreadStep(c),
         UNCHANGED clientVars
  PROVE  OrderInv'
<1>1. /\ TypeOK /\ TypeOK' /\ BrokerTypeOK /\ NetTypeOK /\ PipelineInv /\ MutexInv
      /\ UNCHANGED <<pub, shown>>
      /\ \A q \in Publishers : q \in Clients
  BY DEF OrderInv, TcpInv, TypeOK, clientVars, Clients
<1>2. MutexInv'
  BY MutexStep DEF OrderInv
<1>3. ASSUME NothingNew, UNCHANGED up,
             \A d \in Clients : d # c => thread'[d] = thread[d],
             c \in Publishers => /\ thread[c].pc \notin {"handle", "fanout"}
                                 /\ thread'[c].pc \notin {"handle", "fanout"}
      PROVE  OrderInv'
  <2>1. \A q \in Publishers :
          /\ Publishing(q)' <=> Publishing(q)
          /\ Publishing(q) => thread'[q].pc = thread[q].pc /\ thread'[q].req = thread[q].req
    BY <1>1, <1>3 DEF Publishing
  <2> QED BY <1>1, <1>2, <1>3, <2>1, QuietStep
<1>4. CASE RecvEnd(c) \/ Unregister(c)
  <2>1. /\ thread[c].pc \in {"recv", "unregister"} /\ thread'[c].pc \in {"unregister", "gone"}
        /\ \A d \in Clients : d # c => thread'[d] = thread[d]
        /\ UNCHANGED <<up, down>>
    BY <1>1, <1>4 DEF RecvEnd, Unregister, BrokerTypeOK, netVars
  <2> QED BY <1>1, <1>3, <2>1, UntouchedFrame
<1>5. CASE LockSubscribe(c)
  <2>1. /\ thread[c].pc = "handle" /\ thread[c].req.op = "SUBSCRIBE"
        /\ \A d \in Clients : d # c => thread'[d] = thread[d]
        /\ UNCHANGED <<up, down>>
    BY <1>1, <1>5 DEF LockSubscribe, BrokerTypeOK, netVars
  <2>2. c \notin Publishers
    BY <1>1, <2>1, Kinds DEF TcpAssumption
  <2> QED BY <1>1, <1>3, <2>1, <2>2, UntouchedFrame
<1>6. CASE Confirm(c)
  <2> DEFINE line == Confirmation(thread[c].req.topic)
             f == thread[c].fd
  <2>1. /\ thread[c].pc = "confirm" /\ SendDown(f, line) /\ UNCHANGED up
        /\ thread' = [thread EXCEPT ![c].pc = AtLoop, ![c].req = NoRequest]
    BY <1>6 DEF Confirm
  <2>2. \A d \in Clients : d # c => thread'[d] = thread[d]
    BY <1>1, <2>1 DEF BrokerTypeOK
  <2>3. c \notin Publishers
    BY <1>1, <2>1, Kinds DEF TcpAssumption
  <2>4. NothingNew
    BY <1>1, <1>6, ConfirmFrame
  <2> QED BY <1>3, <2>1, <2>2, <2>3, <2>4
<1> QED BY <1>2, <1>4, <1>5, <1>6, RecvRequestOrder, LockPublishOrder, SendLineOrder,
           EndPublishOrder DEF ThreadStep

\* A client that is accepted has nothing under way in the broker.
LEMMA AcceptOrder ==
  ASSUME TcpAssumption, OrderInv, TcpInv', Accept, UNCHANGED clientVars
  PROVE  OrderInv'
<1> DEFINE c == Head(backlog)
<1>1. /\ TypeOK /\ TypeOK' /\ BrokerTypeOK /\ backlog \in Seq(Clients) /\ ConnInv /\ MutexInv
      /\ backlog # <<>> /\ UNCHANGED <<pub, shown, up, down, topics_mutex>>
      /\ thread' = [thread EXCEPT ![c].pc = "recv", ![c].fd = FreeFd]
      /\ \A q \in Publishers : q \in Clients
  BY DEF OrderInv, TcpInv, TypeOK, NetTypeOK, Accept, clientVars, Clients
<1>2. c \in Clients /\ c \in Elems(backlog)
  BY <1>1, TailElems
<1>3. thread[c].pc = "none"
  BY <1>1, <1>2 DEF ConnInv
<1> HIDE DEF c
<1>4. thread'[c].pc = "recv" /\ \A d \in Clients : d # c => thread'[d] = thread[d]
  BY <1>1, <1>2 DEF BrokerTypeOK
<1>5. MutexInv'
  BY <1>1, <1>3, <1>4 DEF MutexInv, Clients
<1>6. \A q \in Publishers :
        /\ Publishing(q)' <=> Publishing(q)
        /\ Publishing(q) => thread'[q].pc = thread[q].pc /\ thread'[q].req = thread[q].req
  BY <1>1, <1>3, <1>4 DEF Publishing
<1> QED BY <1>1, <1>5, <1>6, QuietStep, UntouchedFrame

\* A signal sends nothing.
LEMMA SignalOrder ==
  ASSUME OrderInv, TcpInv', Signal, UNCHANGED clientVars
  PROVE  OrderInv'
<1>1. UNCHANGED <<up, down, topics_mutex, thread, pub, shown>>
  <2>1. UNCHANGED <<pub, shown>>
    BY DEF clientVars
  <2> QED BY <2>1, Signalled
<1>2. TypeOK /\ TypeOK' /\ MutexInv'
  BY <1>1 DEF OrderInv, TcpInv, MutexInv
<1>3. NothingNew
  BY <1>1, UntouchedFrame
<1> QED BY <1>1, <1>2, <1>3, QuietStep DEF Publishing

---------------------------------------------------------------------------
(* The order of the events. *)

\* Nothing has been sent at the start.
LEMMA OrderInit == ASSUME TcpAssumption, Init PROVE OrderInv
<1>1. TcpInv /\ TypeOK
  BY TcpInit DEF TcpInv
<1>2. /\ \A c \in Clients : thread[c].pc = "none" /\ up[c] = <<>>
      /\ topics_mutex = {}
      /\ \A p \in Publishers : pub[p].seq = 1 /\ p \in Clients
      /\ \A s \in Subscribers : shown[s] = <<>> /\ down[s] = <<>> /\ s \in Clients
  BY DEF Init, NetInit, ClientInit, BrokerInit, Clients
<1>3. MutexInv
  BY <1>2 DEF MutexInv
<1>4. PipelineInv
  <2>1. \A p \in Publishers : Read(p) = 0 /\ DOMAIN up[p] = {} /\ ~Publishing(p)
    BY <1>2 DEF Read, Publishing
  <2> QED BY <2>1 DEF PipelineInv
<1>5. \A s \in Subscribers : DOMAIN Received(s) = {}
  <2>1. DOMAIN (<<>> \o <<>>) = {}
    OBVIOUS
  <2> QED BY <1>2, <2>1 DEF Received
<1> QED BY <1>1, <1>3, <1>4, <1>5 DEF OrderInv, SentInv, LastInv, SameOrder

\* Every step keeps the invariant of the order.
LEMMA OrderStep ==
  ASSUME TcpAssumption, TcpSystemAssumption, OrderInv, [Next]_vars
  PROVE  OrderInv'
<1>1. TcpInv'
  BY TcpStep DEF OrderInv
<1>2. CASE ClientNext
  BY <1>1, <1>2, ClientOrder
<1>3. CASE BrokerNext
  <2>1. UNCHANGED clientVars
    BY <1>3 DEF BrokerNext
  <2>2. CASE Signal
    BY <1>1, <2>1, <2>2, SignalOrder
  <2> QED BY <1>1, <1>3, <2>1, <2>2, AcceptOrder, ThreadOrder DEF BrokerNext
<1>4. CASE UNCHANGED vars
  <2>1. UNCHANGED <<netVars, clientVars, brokerVars>>
    BY <1>4 DEF vars
  <2>2. MutexInv' /\ TypeOK /\ TypeOK'
    BY <1>1, <2>1 DEF OrderInv, TcpInv, MutexInv, brokerVars
  <2>3. NothingNew
    BY <2>1, UntouchedFrame DEF netVars, clientVars
  <2> QED BY <1>1, <2>1, <2>2, <2>3, QuietStep DEF netVars, clientVars, brokerVars, Publishing
<1> QED BY <1>2, <1>3, <1>4 DEF Next

\* publish_message sends to all subscribers under the mutex: whatever the
\* clients do and however requests are received together, no two subscribers
\* see two lines in opposite orders.
THEOREM OneOrder == Spec => []SameOrder
<1>1. Init => OrderInv
  BY OrderInit, TcpAssumption
<1>2. OrderInv /\ [Next]_vars => OrderInv'
  BY OrderStep, TcpAssumption, TcpSystemAssumption
<1>3. OrderInv => SameOrder
  BY DEF OrderInv
<1> QED BY <1>1, <1>2, <1>3, PTL DEF Spec
=============================================================================
