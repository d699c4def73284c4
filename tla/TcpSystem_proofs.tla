-------------------------- MODULE TcpSystem_proofs --------------------------
(***************************************************************************)
(* Theorems about TcpSystem for every value of its constants.              *)
(***************************************************************************)
EXTENDS TcpInvariant, FiniteSetTheorems, WellFoundedInduction, TLAPS

---------------------------------------------------------------------------
(* Numbers and sequences. *)

\* A set of natural numbers has a least element.
LEMMA LeastNatural ==
  ASSUME NEW T \in SUBSET Nat, T # {}
  PROVE  \E m \in T : \A k \in T : m <= k
<1> DEFINE Less == {ss \in Nat \X Nat : ss[1] < ss[2]}
<1>1. OpToRel(<, Nat) = Less
  BY Zenon DEF OpToRel
<1>2. IsWellFoundedOn(Less, Nat)
  BY Zenon, <1>1, NatLessThanWellFounded
<1>3. \A k, n \in Nat : k < n => <<k, n>> \in Less
  OBVIOUS
<1> HIDE DEF Less
<1>4. PICK m \in T : \A k \in T : ~(<<k, m>> \in Less)
  BY <1>2, WFMin
<1>5. ASSUME NEW k \in T PROVE m <= k
  <2>1. k \in Nat /\ m \in Nat
    OBVIOUS
  <2>2. ~(k < m)
    BY <2>1, <1>3, <1>4
  <2> QED BY <2>1, <2>2
<1> QED BY <1>5

\* Induction, for a set of natural numbers.
LEMMA NatSetInduction ==
  ASSUME NEW A \in SUBSET Nat, 0 \in A, \A n \in A : n + 1 \in A
  PROVE  A = Nat
<1> SUFFICES ASSUME Nat \ A # {} PROVE FALSE
  OBVIOUS
<1>1. PICK m \in Nat \ A : \A k \in Nat \ A : m <= k
  BY LeastNatural
<1>2. m - 1 \in A
  BY <1>1
<1> QED BY <1>1, <1>2

\* The function behind Without(q, f), on the first k elements.
Kept(q, f, k) ==
  CHOOSE g : g = [i \in 0..k |-> IF i = 0 THEN <<>>
                     ELSE IF q[i] = f THEN g[i - 1] ELSE Append(g[i - 1], q[i])]

\* The equation of the recursive function behind Without has a solution.
LEMMA KeptExists ==
  ASSUME NEW S, NEW q \in Seq(S), NEW f, NEW n \in Nat
  PROVE  Kept(q, f, n) = [i \in 0..n |-> IF i = 0 THEN <<>>
            ELSE IF q[i] = f THEN Kept(q, f, n)[i - 1] ELSE Append(Kept(q, f, n)[i - 1], q[i])]
<1> DEFINE Body(g, i) == IF i = 0 THEN <<>>
                     ELSE IF q[i] = f THEN g[i - 1] ELSE Append(g[i - 1], q[i])
           A == {k \in Nat : \E g : g = [i \in 0..k |-> Body(g, i)]}
<1>1. 0 \in A
  <2>1. [i \in 0..0 |-> <<>>] = [i \in 0..0 |-> Body([j \in 0..0 |-> <<>>], i)]
    OBVIOUS
  <2> QED BY <2>1
<1>2. ASSUME NEW k \in A PROVE k + 1 \in A
  <2>0. k \in Nat
    OBVIOUS
  <2>1. PICK g : g = [i \in 0..k |-> Body(g, i)]
    OBVIOUS
  <2>2. \A i \in 0..k : g[i] = Body(g, i)
    BY <2>1
  <2> DEFINE h == [i \in 0..(k+1) |-> IF i = k + 1 THEN Body(g, i) ELSE g[i]]
  <2>3. \A i \in 0..(k+1) : h[i] = Body(h, i)
    <3> TAKE i \in 0..(k+1)
    <3>1. CASE i = 0
      BY <3>1, <2>0, <2>2
    <3>2. CASE i \in 1..k
      <4>1. h[i] = g[i] BY <3>2, <2>0
      <4>2. h[i-1] = g[i-1] BY <3>2, <2>0
      <4>3. i \in 0..k /\ i # 0 BY <3>2, <2>0
      <4>4. g[i] = Body(g, i) BY <4>3, <2>2
      <4> HIDE DEF h
      <4> QED BY <4>1, <4>2, <4>3, <4>4
    <3>3. CASE i = k + 1
      <4>1. h[i] = Body(g, i) BY <3>3, <2>0
      <4>2. h[i-1] = g[i-1] BY <3>3, <2>0
      <4> HIDE DEF h
      <4> QED BY <4>1, <4>2, <3>3, <2>0
    <3> QED BY <3>1, <3>2, <3>3, <2>0
  <2>4. h = [i \in 0..(k+1) |-> h[i]]
    OBVIOUS
  <2> HIDE DEF h
  <2>5. h = [i \in 0..(k+1) |-> Body(h, i)]
    BY <2>3, <2>4
  <2> HIDE DEF Body
  <2>6. \E gg : gg = [i \in 0..(k+1) |-> Body(gg, i)]
    BY <2>5
  <2> QED BY <2>6, <2>0
<1>3. A = Nat
  BY <1>1, <1>2, NatSetInduction
<1> QED BY <1>3 DEF Kept

\* Append adds one element.
LEMMA ElemsAppend ==
  ASSUME NEW S, NEW q \in Seq(S), NEW x \in S
  PROVE  Elems(Append(q, x)) = Elems(q) \cup {x}
<1>1. DOMAIN Append(q, x) = DOMAIN q \cup {Len(q) + 1}
  OBVIOUS
<1>2. \A i \in DOMAIN q : Append(q, x)[i] = q[i]
  OBVIOUS
<1>3. Append(q, x)[Len(q) + 1] = x
  OBVIOUS
<1> QED BY <1>1, <1>2, <1>3 DEF Elems

\* What std::remove and erase leave: everything but the descriptor.
LEMMA WithoutElems ==
  ASSUME NEW S, NEW q \in Seq(S), NEW f
  PROVE  /\ Without(q, f) \in Seq(S)
         /\ Elems(Without(q, f)) = Elems(q) \ {f}
<1> DEFINE K == Kept(q, f, Len(q))
           A == {k \in Nat : k <= Len(q) => K[k] \in Seq(S) /\ Elems(K[k]) = {q[i] : i \in 1..k} \ {f}}
<1>0. Without(q, f) = K[Len(q)]
  BY DEF Without, Kept
<1>1. K = [i \in 0..Len(q) |-> IF i = 0 THEN <<>>
            ELSE IF q[i] = f THEN K[i - 1] ELSE Append(K[i - 1], q[i])]
  BY KeptExists
<1> HIDE DEF K
<1>2. 0 \in A
  <2>1. K[0] = <<>>
    <3>1. 0 \in 0..Len(q)
      OBVIOUS
    <3> QED BY <3>1, <1>1
  <2>2. {q[i] : i \in 1..0} = {}
    OBVIOUS
  <2>3. Elems(<<>>) = {} /\ <<>> \in Seq(S)
    BY DEF Elems
  <2> QED BY <2>1, <2>2, <2>3
<1>3. ASSUME NEW k \in A PROVE k + 1 \in A
  <2> SUFFICES ASSUME k + 1 <= Len(q)
               PROVE  K[k+1] \in Seq(S) /\ Elems(K[k+1]) = {q[i] : i \in 1..(k+1)} \ {f}
    OBVIOUS
  <2>0. k \in Nat /\ k + 1 \in 1..Len(q) /\ q[k+1] \in S
    OBVIOUS
  <2>1. K[k] \in Seq(S) /\ Elems(K[k]) = {q[i] : i \in 1..k} \ {f}
    BY <2>0
  <2>9. K[k+1] = IF q[k+1] = f THEN K[k] ELSE Append(K[k], q[k+1])
    <3>1. k + 1 \in 0..Len(q) /\ k + 1 # 0 /\ (k+1)-1 = k
      BY <2>0
    <3> QED BY <3>1, <1>1
  <2>2. {q[i] : i \in 1..(k+1)} = {q[i] : i \in 1..k} \cup {q[k+1]}
    <3>1. 1..(k+1) = 1..k \cup {k+1} OBVIOUS
    <3> QED BY <3>1
  <2>3. CASE q[k+1] = f
    BY <2>1, <2>2, <2>3, <2>9
  <2>4. CASE q[k+1] # f
    <3>1. K[k+1] = Append(K[k], q[k+1])
      BY <2>4, <2>9
    <3>3. Elems(Append(K[k], q[k+1])) = Elems(K[k]) \cup {q[k+1]}
      BY <2>1, <2>0, ElemsAppend
    <3> QED BY <3>1, <3>3, <2>0, <2>1, <2>2, <2>4
  <2> QED BY <2>3, <2>4
<1>4. A = Nat
  BY <1>2, <1>3, NatSetInduction
<1>5. Len(q) \in A
  <2>1. Len(q) \in Nat
    OBVIOUS
  <2> HIDE DEF A
  <2> QED BY <2>1, <1>4
<1>6. Elems(q) = {q[i] : i \in 1..Len(q)}
  BY DEF Elems
<1> QED BY <1>0, <1>5, <1>6

\* A subsequence has elements of the sequence only.
LEMMA SubSeqElems ==
  ASSUME NEW S, NEW q \in Seq(S), NEW a \in 1..(Len(q) + 1), NEW b \in 0..Len(q)
  PROVE  /\ SubSeq(q, a, b) \in Seq(S)
         /\ \A i \in DOMAIN SubSeq(q, a, b) :
              \E j \in DOMAIN q : SubSeq(q, a, b)[i] = q[j]
<1>1. SubSeq(q, a, b) \in Seq(S)
  OBVIOUS
<1>2. ASSUME NEW i \in DOMAIN SubSeq(q, a, b)
      PROVE  a + i - 1 \in DOMAIN q /\ SubSeq(q, a, b)[i] = q[a + i - 1]
  OBVIOUS
<1> QED BY <1>1, <1>2

\* What Head and Tail take from a sequence.
LEMMA TailElems ==
  ASSUME NEW S, NEW q \in Seq(S), q # <<>>
  PROVE  /\ Tail(q) \in Seq(S)
         /\ Head(q) \in S /\ Head(q) \in Elems(q)
         /\ Elems(Tail(q)) \subseteq Elems(q)
<1>1. Tail(q) \in Seq(S) /\ Len(Tail(q)) = Len(q) - 1 /\ Head(q) = q[1] /\ Len(q) # 0
  OBVIOUS
<1>2. \A i \in DOMAIN Tail(q) : Tail(q)[i] = q[i + 1] /\ i + 1 \in DOMAIN q
  OBVIOUS
<1>3. 1 \in DOMAIN q /\ q[1] \in S
  BY <1>1
<1> QED BY <1>1, <1>2, <1>3 DEF Elems

\* A sequence without repetitions loses its head for good.
LEMMA DistinctTail ==
  ASSUME NEW S, NEW q \in Seq(S), q # <<>>,
         \A i, j \in DOMAIN q : q[i] = q[j] => i = j
  PROVE  /\ Head(q) \notin Elems(Tail(q))
         /\ \A i, j \in DOMAIN Tail(q) : Tail(q)[i] = Tail(q)[j] => i = j
<1>1. Len(Tail(q)) = Len(q) - 1 /\ Head(q) = q[1] /\ Len(q) # 0 /\ 1 \in DOMAIN q
  OBVIOUS
<1>2. \A i \in DOMAIN Tail(q) : Tail(q)[i] = q[i + 1] /\ i + 1 \in DOMAIN q /\ i \in Nat \ {0}
  OBVIOUS
<1>3. Head(q) \notin Elems(Tail(q))
  <2> SUFFICES ASSUME NEW i \in DOMAIN Tail(q), Tail(q)[i] = Head(q) PROVE FALSE
    BY DEF Elems
  <2> QED BY <1>1, <1>2
<1>4. ASSUME NEW i \in DOMAIN Tail(q), NEW j \in DOMAIN Tail(q), Tail(q)[i] = Tail(q)[j]
      PROVE  i = j
  BY <1>2, <1>4
<1> QED BY <1>3, <1>4

\* accept finds a free descriptor: each one in use belongs to a client, and
\* the client in the backlog has none.
LEMMA FreeFdExists ==
  ASSUME TcpAssumption, NetTypeOK, SockInv,
         NEW c \in Clients, thread[c].fd = 0
  PROVE  FreeFd \in Fds /\ FreeFd \notin DOMAIN sock
<1>1. Cardinality(Clients) \in Nat /\ IsFiniteSet(Clients)
  BY FS_CardinalityType DEF TcpAssumption
<1>2. IsFiniteSet(Fds) /\ Cardinality(Fds) = Cardinality(Clients)
  BY <1>1, FS_Interval DEF Fds
<1>3. Fds \ DOMAIN sock # {}
  <2> SUFFICES ASSUME DOMAIN sock = Fds PROVE FALSE
    BY DEF NetTypeOK
  <2> DEFINE Others == Clients \ {c}
  <2>1. IsFiniteSet(Others) /\ Cardinality(Others) = Cardinality(Clients) - 1
    BY <1>1, FS_RemoveElement
  <2>2. Cardinality(Others) < Cardinality(Fds)
    BY <1>1, <1>2, <2>1
  <2> DEFINE owner == [f \in Fds |-> sock[f]]
  <2>3. owner \in [Fds -> Others]
    <3> SUFFICES ASSUME NEW f \in Fds PROVE sock[f] \in Clients /\ sock[f] # c
      OBVIOUS
    <3>1. thread[sock[f]].fd = f /\ f # 0
      BY <1>1 DEF SockInv, Fds
    <3> QED BY <3>1 DEF NetTypeOK
  <2>4. \A f, g \in Fds : owner[f] = owner[g] => f = g
    BY DEF SockInv
  <2> HIDE DEF Others, owner
  <2>5. \E f, g \in Fds : f # g /\ owner[f] = owner[g]
    BY <1>2, <2>1, <2>2, <2>3, FS_PigeonHole
  <2> QED BY <2>4, <2>5
<1>4. Fds \ DOMAIN sock \in SUBSET Nat
  BY <1>1 DEF Fds
<1>5. \E m \in Fds \ DOMAIN sock : \A k \in Fds \ DOMAIN sock : m <= k
  BY <1>3, <1>4, LeastNatural
<1> QED BY <1>5 DEF FreeFd

---------------------------------------------------------------------------
(* What a step leaves alone. *)

\* A step of a client process cannot disturb what is about the broker only.
LEMMA ClientFrame ==
  ASSUME TcpInv, UNCHANGED brokerVars, UNCHANGED sock
  PROVE  BrokerTypeOK' /\ SockInv' /\ NoneLeftBehind'
  BY DEF TcpInv, TypeOK, BrokerTypeOK, brokerVars, SockInv, NoneLeftBehind

\* A client that neither connects nor closes its end leaves ConnInv alone.
LEMMA ConnFrame ==
  ASSUME ConnInv, UNCHANGED <<brokerVars, backlog, open>>,
         \A c \in Clients : (Fresh(c)' <=> Fresh(c)) /\ (Left(c)' <=> Left(c))
  PROVE  ConnInv'
  BY DEF ConnInv, brokerVars

\* A thread that is neither started nor ended, and takes requests from the
\* front of its queue, leaves ConnInv, UpInv and ProgressInv alone, and
\* SockInv if it opens no descriptor.
LEMMA BrokerFrame ==
  ASSUME TcpInv, UNCHANGED <<clientVars, backlog, open>>,
         \A c \in Clients : thread'[c].fd = thread[c].fd
                            /\ (thread'[c].pc = "none" <=> thread[c].pc = "none"),
         DOMAIN sock' \subseteq DOMAIN sock,
         \A f \in DOMAIN sock' : sock'[f] = sock[f],
         \A c \in Clients : \A i \in DOMAIN up'[c] :
           \E j \in DOMAIN up[c] : up'[c][i] = up[c][j]
  PROVE  ClientTypeOK' /\ ConnInv' /\ SockInv' /\ UpInv' /\ ProgressInv'
<1> USE DEF clientVars
<1>1. ClientTypeOK'
  BY DEF TcpInv, TypeOK, ClientTypeOK
<1>2. \A c \in Clients : (Fresh(c)' <=> Fresh(c)) /\ (Left(c)' <=> Left(c))
  BY DEF Fresh, Left
<1>3. ConnInv'
  BY <1>2 DEF TcpInv, ConnInv
<1>4. SockInv'
  BY DEF TcpInv, TypeOK, NetTypeOK, SockInv
<1>5. UpInv'
  BY DEF TcpInv, UpInv
<1>6. ProgressInv'
  BY DEF TcpInv, ProgressInv
<1> QED BY <1>1, <1>3, <1>4, <1>5, <1>6

\* NoneLeftBehind survives as long as lists do not grow and threads do not end.
LEMMA ListFrame ==
  ASSUME NoneLeftBehind,
         \A c \in Clients : thread'[c].fd = thread[c].fd
                            /\ (thread'[c].pc = "gone" => thread[c].pc = "gone"),
         \A t \in Names : Elems(topic_subscribers'[t]) \subseteq Elems(topic_subscribers[t])
  PROVE  NoneLeftBehind'
  BY DEF NoneLeftBehind

---------------------------------------------------------------------------
(* The initial state. *)

\* The invariant holds at the start.
LEMMA TcpInit == ASSUME TcpAssumption, Init PROVE TcpInv
<1> USE DEF Init, NetInit, ClientInit, BrokerInit
<1>1. Cardinality(Clients) \in Nat
  BY FS_CardinalityType DEF TcpAssumption
<1>2. NetTypeOK
  BY DEF NetTypeOK, TcpAssumption
<1>3. ClientTypeOK
  BY DEF ClientTypeOK, TcpAssumption
<1>4. BrokerTypeOK
  BY DEF BrokerTypeOK
<1>5. ConnInv
  BY DEF ConnInv, Fresh, Left, Elems, Clients
<1>6. SockInv /\ UpInv /\ NoneLeftBehind
  BY DEF SockInv, UpInv, NoneLeftBehind, Elems, Clients
<1>7. ProgressInv
  BY DEF ProgressInv
<1> QED BY <1>2, <1>3, <1>4, <1>5, <1>6, <1>7 DEF TcpInv, TypeOK

---------------------------------------------------------------------------
(* The client programs. *)

\* What goes up is a request.
LEMMA RequestTypes ==
  ASSUME TcpAssumption
  PROVE  /\ \A t \in Topics : SubscribeTo(t) \in Requests
         /\ \A p \in Publishers, e \in Events : PublishIn(TopicOf[p], <<e>>) \in Requests
  BY DEF TcpAssumption, SubscribeTo, PublishIn, Requests, Names

\* A client that connects is the only one of its kind in the backlog.
LEMMA Connecting ==
  ASSUME TypeOK, ConnInv, NEW c \in Clients, Fresh(c), Connect(c)
  PROVE  /\ NetTypeOK'
         /\ \A i, j \in DOMAIN backlog' : backlog'[i] = backlog'[j] => i = j
         /\ Elems(backlog') = Elems(backlog) \cup {c}
         /\ open' = open \cup {c}
<1>1. backlog \in Seq(Clients) /\ c \notin Elems(backlog)
  BY DEF TypeOK, NetTypeOK, ConnInv
<1>2. backlog' = Append(backlog, c) /\ open' = open \cup {c}
  BY DEF Connect
<1>3. NetTypeOK'
  BY <1>1, <1>2 DEF Connect, TypeOK, NetTypeOK
<1>4. Elems(backlog') = Elems(backlog) \cup {c}
  BY <1>1, <1>2, ElemsAppend
<1>5. ASSUME NEW i \in DOMAIN backlog', NEW j \in DOMAIN backlog', backlog'[i] = backlog'[j]
      PROVE  i = j
  <2>1. \A k \in DOMAIN backlog' :
          IF k \in DOMAIN backlog THEN backlog'[k] = backlog[k] ELSE k = Len(backlog) + 1
    BY <1>1, <1>2
  <2>2. backlog'[Len(backlog) + 1] = c
    BY <1>1, <1>2
  <2>3. \A k \in DOMAIN backlog : backlog[k] # c
    BY <1>1 DEF Elems
  <2> QED BY <1>5, <2>1, <2>2, <2>3 DEF ConnInv
<1> QED BY <1>2, <1>3, <1>4, <1>5

\* connect_to_broker of a publisher.
LEMMA PubConnectStep ==
  ASSUME TcpAssumption, TcpInv, NEW p \in Publishers, PubConnect(p), UNCHANGED brokerVars
  PROVE  TcpInv'
<1>1. p \in Clients /\ p \notin Subscribers /\ Fresh(p) /\ Connect(p) /\ TypeOK /\ ConnInv
  BY DEF TcpAssumption, Clients, Fresh, PubConnect, TcpInv
<1>2. /\ NetTypeOK'
      /\ \A i, j \in DOMAIN backlog' : backlog'[i] = backlog'[j] => i = j
      /\ Elems(backlog') = Elems(backlog) \cup {p}
      /\ open' = open \cup {p}
  BY <1>1, Connecting
<1>3. pub' = [pub EXCEPT ![p].pc = "send"] /\ UNCHANGED <<sub, shown, sock, up, thread>>
  BY DEF PubConnect, Connect, brokerVars
<1>4. BrokerTypeOK' /\ SockInv' /\ NoneLeftBehind'
  BY <1>3, ClientFrame
<1>5. ClientTypeOK'
  BY <1>3 DEF TcpInv, TypeOK, ClientTypeOK
<1>6. \A c \in Clients : c # p => (Fresh(c)' <=> Fresh(c)) /\ (Left(c)' <=> Left(c))
  BY <1>1, <1>3 DEF Fresh, Left, TypeOK, ClientTypeOK
<1>7. ~Fresh(p)' /\ ~Left(p)'
  BY <1>1, <1>3 DEF Fresh, Left, TypeOK, ClientTypeOK
<1>8. ConnInv'
  <2> SUFFICES ASSUME NEW c \in Clients
               PROVE  /\ Fresh(c)' => thread'[c].pc = "none" /\ c \notin Elems(backlog')
                      /\ c \in Elems(backlog') => thread'[c].pc = "none"
                      /\ thread'[c].pc = "none" <=> thread'[c].fd = 0
                      /\ c \in open' <=> ~Fresh(c)' /\ ~Left(c)'
    BY <1>2 DEF ConnInv, Elems
  <2> QED BY <1>1, <1>2, <1>3, <1>6, <1>7 DEF ConnInv
<1>9. UpInv'
  BY <1>3 DEF TcpInv, UpInv
<1>10. ProgressInv'
  BY <1>3 DEF TcpInv, ProgressInv, TypeOK, ClientTypeOK, PubConnect
<1> QED BY <1>2, <1>4, <1>5, <1>8, <1>9, <1>10 DEF TcpInv, TypeOK

\* A turn of the loop of publish_events.
LEMMA PubSendStep ==
  ASSUME TcpAssumption, TcpInv, NEW p \in Publishers, PubSend(p), UNCHANGED brokerVars
  PROVE  TcpInv'
<1> DEFINE req == PublishIn(TopicOf[p], <<Event(p, pub[p].seq)>>)
<1>1. p \in Clients /\ pub[p].pc = "send" /\ SendUp(p, req) /\ TypeOK
  BY DEF Clients, PubSend, TcpInv
<1>2. /\ up' = [up EXCEPT ![p] = Append(@, req)]
      /\ pub' = [pub EXCEPT ![p] = [pc |-> IF @.seq = NumEvents THEN "close" ELSE "send",
                                    seq |-> @.seq + 1]]
      /\ UNCHANGED <<alive, backlog, open, sock, down, reset, sub, shown, thread>>
  BY DEF PubSend, SendUp, brokerVars
<1>3. pub[p].seq \in 1..NumEvents /\ Event(p, pub[p].seq) \in Events
  BY <1>1 DEF TcpInv, ProgressInv, Event, Events
<1>4. req \in Requests /\ up[p] \in Seq(Requests)
  BY <1>1, <1>3, RequestTypes DEF TypeOK, NetTypeOK
<1> HIDE DEF req
<1>5. NetTypeOK'
  BY <1>1, <1>2, <1>4 DEF TypeOK, NetTypeOK
<1>6. BrokerTypeOK' /\ SockInv' /\ NoneLeftBehind'
  BY <1>2, ClientFrame
<1>7. ClientTypeOK'
  BY <1>1, <1>2, <1>3 DEF TypeOK, ClientTypeOK, TcpAssumption
<1>8. \A c \in Clients : (Fresh(c)' <=> Fresh(c)) /\ (Left(c)' <=> Left(c))
  BY <1>1, <1>2 DEF Fresh, Left, TypeOK, ClientTypeOK
<1>9. ConnInv'
  BY <1>2, <1>8, ConnFrame DEF TcpInv
<1>10. UpInv'
  <2>1. \A i \in DOMAIN up'[p] : up'[p][i] = req \/ (i \in DOMAIN up[p] /\ up'[p][i] = up[p][i])
    BY <1>1, <1>2, <1>4 DEF TypeOK, NetTypeOK
  <2>2. \A c \in Clients : c # p => up'[c] = up[c]
    BY <1>2 DEF TcpInv, TypeOK, NetTypeOK
  <2>3. OwnRequest(p, req)
    BY <1>3 DEF OwnRequest, req
  <2> QED BY <2>1, <2>2, <2>3, <1>1 DEF TcpInv, UpInv
<1>11. ProgressInv'
  BY <1>1, <1>2, <1>3 DEF TcpInv, ProgressInv, TypeOK, ClientTypeOK, TcpAssumption
<1> QED BY <1>5, <1>6, <1>7, <1>9, <1>10, <1>11 DEF TcpInv, TypeOK

\* The broken loop of publish_events.
LEMMA PubBreakStep ==
  ASSUME TcpAssumption, TcpInv, NEW p \in Publishers, PubBreak(p), UNCHANGED brokerVars
  PROVE  TcpInv'
<1>1. p \in Clients /\ pub[p].pc = "send" /\ TypeOK
  BY DEF Clients, PubBreak, TcpInv
<1>2. pub' = [pub EXCEPT ![p].pc = "close"] /\ UNCHANGED <<netVars, sub, shown, thread>>
  BY DEF PubBreak, brokerVars
<1>3. NetTypeOK' /\ UpInv'
  BY <1>1, <1>2 DEF TcpInv, TypeOK, NetTypeOK, UpInv, netVars
<1>4. BrokerTypeOK' /\ SockInv' /\ NoneLeftBehind'
  BY <1>2, ClientFrame DEF netVars
<1>5. ClientTypeOK' /\ ProgressInv'
  BY <1>1, <1>2 DEF TcpInv, ProgressInv, TypeOK, ClientTypeOK
<1>6. \A c \in Clients : (Fresh(c)' <=> Fresh(c)) /\ (Left(c)' <=> Left(c))
  BY <1>1, <1>2 DEF Fresh, Left, TypeOK, ClientTypeOK
<1>7. ConnInv'
  BY <1>2, <1>6, ConnFrame DEF TcpInv, netVars
<1> QED BY <1>3, <1>4, <1>5, <1>7 DEF TcpInv, TypeOK

\* A client that closes its end loses its place among the open ones only.
LEMMA Shutting ==
  ASSUME TypeOK, NEW c \in Clients, Shut(c)
  PROVE  NetTypeOK' /\ open' = open \ {c} /\ UNCHANGED <<alive, backlog, sock, up>>
<1>1. down' = [down EXCEPT ![c] = <<>>] /\ open' = open \ {c} /\ UNCHANGED <<alive, backlog, sock, up>>
  BY DEF Shut
<1>2. down' \in [Clients -> Seq(Lines)]
  BY <1>1 DEF TypeOK, NetTypeOK
<1>3. reset' \subseteq Clients
  BY DEF Shut, TypeOK, NetTypeOK
<1> QED BY <1>1, <1>2, <1>3 DEF TypeOK, NetTypeOK

\* close_connection.
LEMMA PubCloseStep ==
  ASSUME TcpAssumption, TcpInv, NEW p \in Publishers, PubClose(p), UNCHANGED brokerVars
  PROVE  TcpInv'
<1>1. p \in Clients /\ p \notin Subscribers /\ pub[p].pc = "close" /\ Shut(p) /\ TypeOK
  BY DEF TcpAssumption, Clients, PubClose, TcpInv
<1>2. NetTypeOK' /\ open' = open \ {p} /\ UNCHANGED <<alive, backlog, sock, up>>
  BY <1>1, Shutting
<1>3. pub' = [pub EXCEPT ![p].pc = "done"] /\ UNCHANGED <<sub, shown, thread>>
  BY DEF PubClose, brokerVars
<1>4. UpInv'
  BY <1>2 DEF TcpInv, UpInv
<1>5. BrokerTypeOK' /\ SockInv' /\ NoneLeftBehind'
  BY <1>2, ClientFrame
<1>6. ClientTypeOK' /\ ProgressInv'
  BY <1>1, <1>3 DEF TcpInv, ProgressInv, TypeOK, ClientTypeOK
<1>7. /\ \A c \in Clients : Fresh(c)' <=> Fresh(c)
      /\ \A c \in Clients : c # p => (Left(c)' <=> Left(c))
      /\ Left(p)'
  BY <1>1, <1>3 DEF Fresh, Left, TypeOK, ClientTypeOK
<1>8. ConnInv'
  BY <1>1, <1>2, <1>3, <1>7 DEF TcpInv, ConnInv
<1> QED BY <1>2, <1>4, <1>5, <1>6, <1>8 DEF TcpInv, TypeOK

\* connect_to_broker of a subscriber.
LEMMA SubConnectStep ==
  ASSUME TcpAssumption, TcpInv, NEW s \in Subscribers, SubConnect(s), UNCHANGED brokerVars
  PROVE  TcpInv'
<1>1. s \in Clients /\ s \notin Publishers /\ Fresh(s) /\ Connect(s) /\ TypeOK /\ ConnInv
  BY DEF TcpAssumption, Clients, Fresh, SubConnect, TcpInv
<1>2. /\ NetTypeOK'
      /\ \A i, j \in DOMAIN backlog' : backlog'[i] = backlog'[j] => i = j
      /\ Elems(backlog') = Elems(backlog) \cup {s}
      /\ open' = open \cup {s}
  BY <1>1, Connecting
<1>3. sub' = [sub EXCEPT ![s].pc = NextMatch(s, 1)] /\ UNCHANGED <<pub, shown, sock, up, thread>>
  BY DEF SubConnect, Connect, brokerVars
<1>4. BrokerTypeOK' /\ SockInv' /\ NoneLeftBehind'
  BY <1>3, ClientFrame
<1>5. ClientTypeOK'
  BY <1>3 DEF TcpInv, TypeOK, ClientTypeOK, NextMatch
<1>6. \A c \in Clients : c # s => (Fresh(c)' <=> Fresh(c)) /\ (Left(c)' <=> Left(c))
  BY <1>1, <1>3 DEF Fresh, Left, TypeOK, ClientTypeOK
<1>7. ~Fresh(s)' /\ ~Left(s)'
  BY <1>1, <1>3 DEF Fresh, Left, TypeOK, ClientTypeOK, NextMatch
<1>8. ConnInv'
  <2> SUFFICES ASSUME NEW c \in Clients
               PROVE  /\ Fresh(c)' => thread'[c].pc = "none" /\ c \notin Elems(backlog')
                      /\ c \in Elems(backlog') => thread'[c].pc = "none"
                      /\ thread'[c].pc = "none" <=> thread'[c].fd = 0
                      /\ c \in open' <=> ~Fresh(c)' /\ ~Left(c)'
    BY <1>2 DEF ConnInv, Elems
  <2> QED BY <1>1, <1>2, <1>3, <1>6, <1>7 DEF ConnInv
<1>9. UpInv'
  BY <1>3 DEF TcpInv, UpInv
<1>10. ProgressInv'
  <2>1. sub[s].idx = 1 /\ Wants[s] \in Seq(Topics)
    BY DEF TcpInv, ProgressInv, SubConnect, TcpAssumption
  <2>2. \A r \in Subscribers : sub'[r] = IF r = s THEN [sub[s] EXCEPT !.pc = NextMatch(s, 1)] ELSE sub[r]
    BY <1>3 DEF TcpInv, TypeOK, ClientTypeOK
  <2>3. sub'[s].idx = 1 /\ sub'[s].pc = NextMatch(s, 1)
    BY <2>1, <2>2 DEF TcpInv, TypeOK, ClientTypeOK
  <2> QED BY <1>3, <2>1, <2>2, <2>3 DEF TcpInv, ProgressInv, NextMatch
<1> QED BY <1>2, <1>4, <1>5, <1>8, <1>9, <1>10 DEF TcpInv, TypeOK

\* subscribe_to_match.
LEMMA SubSendStep ==
  ASSUME TcpAssumption, TcpInv, NEW s \in Subscribers, SubSend(s), UNCHANGED brokerVars
  PROVE  TcpInv'
<1> DEFINE t == Wants[s][sub[s].idx]
           req == SubscribeTo(t)
<1>1. s \in Clients /\ s \notin Publishers /\ sub[s].pc = "subscribe" /\ TypeOK
  BY DEF TcpAssumption, Clients, SubSend, TcpInv
<1>2. /\ sub' = [sub EXCEPT ![s] = [pc |-> NextMatch(s, @.idx + 1), idx |-> @.idx + 1]]
      /\ up' = IF alive THEN [up EXCEPT ![s] = Append(@, req)] ELSE up
      /\ UNCHANGED <<alive, backlog, open, sock, down, reset, pub, shown, thread>>
  BY DEF SubSend, SendUp, brokerVars, netVars
<1>3. sub[s].idx \in DOMAIN Wants[s] /\ Wants[s] \in Seq(Topics) /\ t \in Topics
  BY <1>1 DEF TcpInv, ProgressInv, TcpAssumption
<1>4. req \in Requests /\ up[s] \in Seq(Requests)
  BY <1>1, <1>3, RequestTypes DEF TypeOK, NetTypeOK
<1>5. NetTypeOK'
  <2> HIDE DEF req
  <2> QED BY <1>1, <1>2, <1>4 DEF TypeOK, NetTypeOK
<1>6. BrokerTypeOK' /\ SockInv' /\ NoneLeftBehind'
  BY <1>2, ClientFrame
<1>7. \A r \in Subscribers :
        sub'[r] = IF r = s THEN [pc |-> NextMatch(s, sub[s].idx + 1), idx |-> sub[s].idx + 1]
                  ELSE sub[r]
  BY <1>2 DEF TcpInv, TypeOK, ClientTypeOK
<1>8. ClientTypeOK'
  BY <1>1, <1>2, <1>3 DEF TypeOK, ClientTypeOK, NextMatch
<1>9. \A c \in Clients : (Fresh(c)' <=> Fresh(c)) /\ (Left(c)' <=> Left(c))
  BY <1>1, <1>2, <1>7 DEF Fresh, Left, NextMatch, Clients
<1>10. ConnInv'
  BY <1>2, <1>9, ConnFrame DEF TcpInv
<1>11. UpInv'
  <2> HIDE DEF req
  <2>1. \A i \in DOMAIN up'[s] : up'[s][i] = req \/ (i \in DOMAIN up[s] /\ up'[s][i] = up[s][i])
    BY <1>1, <1>2, <1>4 DEF TypeOK, NetTypeOK
  <2>2. \A c \in Clients : c # s => up'[c] = up[c]
    BY <1>2 DEF TcpInv, TypeOK, NetTypeOK
  <2>3. OwnRequest(s, req)
    BY <1>1, <1>3 DEF OwnRequest, req
  <2> QED BY <2>1, <2>2, <2>3, <1>1 DEF TcpInv, UpInv
<1>12. ProgressInv'
  BY <1>1, <1>2, <1>3, <1>7 DEF TcpInv, ProgressInv, NextMatch
<1> QED BY <1>5, <1>6, <1>8, <1>10, <1>11, <1>12 DEF TcpInv, TypeOK

\* A turn of receive_messages.
LEMMA SubReadStep ==
  ASSUME TcpAssumption, TcpInv, NEW s \in Subscribers, SubRead(s), UNCHANGED brokerVars
  PROVE  TcpInv'
<1>1. s \in Clients /\ TypeOK /\ down[s] \in Seq(Lines) /\ shown[s] \in Seq(Lines)
  BY DEF Clients, TcpInv, TypeOK, NetTypeOK, ClientTypeOK, TcpAssumption
<1>2. PICK n \in 1..Len(down[s]) :
        /\ shown' = [shown EXCEPT ![s] = @ \o SubSeq(down[s], 1, n)]
        /\ down' = [down EXCEPT ![s] = SubSeq(@, n + 1, Len(@))]
  BY DEF SubRead
<1>3. UNCHANGED <<alive, backlog, open, sock, up, reset, pub, sub, thread>>
  BY DEF SubRead, brokerVars
<1>4. SubSeq(down[s], 1, n) \in Seq(Lines)
  BY <1>1, SubSeqElems
<1>5. SubSeq(down[s], n + 1, Len(down[s])) \in Seq(Lines)
  BY <1>1
<1>6. NetTypeOK'
  BY <1>1, <1>2, <1>3, <1>5 DEF TypeOK, NetTypeOK
<1>7. ClientTypeOK' /\ ProgressInv' /\ UpInv'
  <2>1. ClientTypeOK'
    BY <1>1, <1>2, <1>3, <1>4 DEF TypeOK, ClientTypeOK
  <2>2. ProgressInv'
    BY <1>3 DEF TcpInv, ProgressInv
  <2>3. UpInv'
    BY <1>3 DEF TcpInv, UpInv
  <2> QED BY <2>1, <2>2, <2>3
<1>8. BrokerTypeOK' /\ SockInv' /\ NoneLeftBehind'
  BY <1>3, ClientFrame
<1>9. \A c \in Clients : (Fresh(c)' <=> Fresh(c)) /\ (Left(c)' <=> Left(c))
  BY <1>3 DEF Fresh, Left
<1>10. ConnInv'
  BY <1>3, <1>9, ConnFrame DEF TcpInv
<1> QED BY <1>6, <1>7, <1>8, <1>10 DEF TcpInv, TypeOK

\* Ctrl+C in a subscriber.
LEMMA SubLeaveStep ==
  ASSUME TcpAssumption, TcpInv, NEW s \in Subscribers, SubLeave(s), UNCHANGED brokerVars
  PROVE  TcpInv'
<1>1. s \in Clients /\ s \notin Publishers /\ sub[s].pc \in {"subscribe", "listen"} /\ Shut(s) /\ TypeOK
  BY DEF TcpAssumption, Clients, SubLeave, TcpInv
<1>2. NetTypeOK' /\ open' = open \ {s} /\ UNCHANGED <<alive, backlog, sock, up>>
  BY <1>1, Shutting
<1>3. sub' = [sub EXCEPT ![s].pc = "down"] /\ UNCHANGED <<pub, shown, thread>>
  BY DEF SubLeave, brokerVars
<1>4. UpInv'
  BY <1>2 DEF TcpInv, UpInv
<1>5. BrokerTypeOK' /\ SockInv' /\ NoneLeftBehind'
  BY <1>2, ClientFrame
<1>6. ClientTypeOK' /\ ProgressInv'
  BY <1>1, <1>3 DEF TcpInv, ProgressInv, TypeOK, ClientTypeOK
<1>7. /\ \A c \in Clients : Fresh(c)' <=> Fresh(c)
      /\ \A c \in Clients : c # s => (Left(c)' <=> Left(c))
      /\ Left(s)'
  BY <1>1, <1>3 DEF Fresh, Left, TypeOK, ClientTypeOK
<1>8. ConnInv'
  BY <1>1, <1>2, <1>3, <1>7 DEF TcpInv, ConnInv
<1> QED BY <1>2, <1>4, <1>5, <1>6, <1>8 DEF TcpInv, TypeOK

---------------------------------------------------------------------------
(* The broker: accept, and the signal. *)

\* accept: the new descriptor is free, and its client had none.
LEMMA AcceptStep ==
  ASSUME TcpAssumption, TcpInv, Accept, UNCHANGED clientVars
  PROVE  TcpInv'
<1> DEFINE c == Head(backlog)
<1>1. backlog \in Seq(Clients) /\ backlog # <<>> /\ TypeOK /\ ConnInv /\ SockInv
  BY DEF Accept, TcpInv, TypeOK, NetTypeOK
<1>2. c \in Clients /\ c \in Elems(backlog) /\ Tail(backlog) \in Seq(Clients)
      /\ Elems(Tail(backlog)) \subseteq Elems(backlog)
  BY <1>1, TailElems
<1>3. c \notin Elems(Tail(backlog))
      /\ \A i, j \in DOMAIN Tail(backlog) : Tail(backlog)[i] = Tail(backlog)[j] => i = j
  BY <1>1, DistinctTail DEF ConnInv
<1>4. thread[c].fd = 0 /\ thread[c].pc = "none" /\ ~Fresh(c)
  BY <1>1, <1>2 DEF ConnInv
<1>5. FreeFd \in Fds /\ FreeFd \notin DOMAIN sock /\ Fds \subseteq Nat \ {0}
  <2>1. Cardinality(Clients) \in Nat
    BY FS_CardinalityType DEF TcpAssumption
  <2> QED BY <2>1, <1>1, <1>2, <1>4, FreeFdExists DEF TypeOK, Fds
<1>6. /\ sock' = IF server_running
                 THEN [f \in DOMAIN sock \cup {FreeFd} |-> IF f = FreeFd THEN c ELSE sock[f]]
                 ELSE [f \in {} |-> f]
      /\ thread' = [thread EXCEPT ![c].pc = "recv", ![c].fd = FreeFd]
      /\ backlog' = Tail(backlog)
      /\ alive' = server_running
      /\ UNCHANGED <<open, up, down, reset, server_running, topic_subscribers, topics_mutex>>
  BY DEF Accept
<1> HIDE DEF c
<1>7. NetTypeOK'
  BY <1>1, <1>2, <1>5, <1>6 DEF TypeOK, NetTypeOK, BrokerTypeOK
<1>8. ClientTypeOK' /\ ProgressInv' /\ UpInv'
  <2>1. ClientTypeOK'
    BY DEF TcpInv, TypeOK, ClientTypeOK, clientVars
  <2>2. ProgressInv'
    BY DEF TcpInv, ProgressInv, clientVars
  <2>3. UpInv'
    BY <1>6 DEF TcpInv, UpInv
  <2> QED BY <2>1, <2>2, <2>3
<1>9. BrokerTypeOK'
  BY <1>1, <1>2, <1>5, <1>6 DEF TypeOK, BrokerTypeOK
<1>10. /\ thread'[c].pc = "recv" /\ thread'[c].fd = FreeFd
       /\ \A d \in Clients : d # c => thread'[d] = thread[d]
  BY <1>1, <1>2, <1>6 DEF TypeOK, BrokerTypeOK
<1>11. \A d \in Clients : (Fresh(d)' <=> Fresh(d)) /\ (Left(d)' <=> Left(d))
  BY DEF Fresh, Left, clientVars
<1>12. ConnInv'
  <2> SUFFICES ASSUME NEW d \in Clients
               PROVE  /\ Fresh(d)' => thread'[d].pc = "none" /\ d \notin Elems(backlog')
                      /\ d \in Elems(backlog') => thread'[d].pc = "none"
                      /\ thread'[d].pc = "none" <=> thread'[d].fd = 0
                      /\ d \in open' <=> ~Fresh(d)' /\ ~Left(d)'
    BY <1>3, <1>6 DEF ConnInv, Elems
  <2>1. CASE d = c
    BY <2>1, <1>1, <1>2, <1>3, <1>4, <1>5, <1>6, <1>10, <1>11 DEF ConnInv
  <2>2. CASE d # c
    BY <2>2, <1>1, <1>2, <1>6, <1>10, <1>11 DEF ConnInv
  <2> QED BY <2>1, <2>2
<1>13. SockInv'
  <2> SUFFICES ASSUME NEW f \in DOMAIN sock' PROVE thread'[sock'[f]].fd = f
    BY DEF SockInv
  <2>1. server_running
    BY <1>6
  <2>2. CASE f = FreeFd
    BY <2>1, <2>2, <1>6, <1>10
  <2>3. CASE f # FreeFd
    <3>1. f \in DOMAIN sock /\ sock'[f] = sock[f] /\ sock[f] \in Clients
      BY <2>1, <2>3, <1>1, <1>6 DEF TypeOK, NetTypeOK
    <3>2. thread[sock[f]].fd = f /\ f # 0
      BY <3>1, <1>1, <1>5 DEF SockInv, TypeOK, NetTypeOK
    <3> QED BY <3>1, <3>2, <1>4, <1>10
  <2> QED BY <2>2, <2>3
<1>14. NoneLeftBehind'
  <2> SUFFICES ASSUME NEW t \in Names, NEW f \in Elems(topic_subscribers[t])
               PROVE  \E d \in Clients : thread'[d].fd = f /\ thread'[d].pc # "gone"
    BY <1>6 DEF NoneLeftBehind
  <2>1. PICK d \in Clients : thread[d].fd = f /\ thread[d].pc # "gone"
    BY DEF TcpInv, NoneLeftBehind
  <2>2. f # 0
    BY <1>5 DEF TcpInv, TypeOK, BrokerTypeOK, Elems
  <2> QED BY <2>1, <2>2, <1>4, <1>10
<1> QED BY <1>7, <1>8, <1>9, <1>12, <1>13, <1>14 DEF TcpInv, TypeOK

\* The signal handler, and perhaps the end of the process.
LEMMA Signalled ==
  ASSUME Signal
  PROVE  /\ UNCHANGED <<backlog, open, up, down, reset, topic_subscribers, topics_mutex, thread>>
         /\ alive /\ server_running' = FALSE
         /\ UNCHANGED <<alive, sock>> \/ (alive' = FALSE /\ sock' = [f \in {} |-> f])
  BY Zenon DEF Signal

\* A signal leaves the threads and the lists as they are.
LEMMA SignalStep ==
  ASSUME TcpAssumption, TcpInv, Signal, UNCHANGED clientVars
  PROVE  TcpInv'
<1>1. /\ UNCHANGED <<backlog, open, up, down, reset, topic_subscribers, topics_mutex, thread>>
      /\ UNCHANGED <<alive, sock>> \/ (alive' = FALSE /\ sock' = [f \in {} |-> f])
      /\ server_running' = FALSE
  BY Signalled
<1>2. NetTypeOK'
  <2>1. CASE UNCHANGED <<alive, sock>>
    BY <1>1, <2>1 DEF TcpInv, TypeOK, NetTypeOK
  <2>2. CASE alive' = FALSE /\ sock' = [f \in {} |-> f]
    BY <1>1, <2>2 DEF TcpInv, TypeOK, NetTypeOK
  <2> QED BY <1>1, <2>1, <2>2
<1>3. ClientTypeOK' /\ ConnInv' /\ SockInv' /\ UpInv' /\ ProgressInv'
  BY <1>1, BrokerFrame
<1>4. BrokerTypeOK' /\ NoneLeftBehind'
  BY <1>1 DEF TcpInv, TypeOK, BrokerTypeOK, NoneLeftBehind
<1> QED BY <1>2, <1>3, <1>4 DEF TcpInv, TypeOK

---------------------------------------------------------------------------
(* The broker: the thread of a client. *)

\* What a thread keeps of a request has a topic and a body.
LEMMA ThreadTypes ==
  ASSUME TypeOK, NEW c \in Clients
  PROVE  /\ thread[c].fd \in Fds \cup {0} /\ thread[c].i \in Nat
         /\ thread[c].req \in Requests \cup {NoRequest}
         /\ thread[c].req.topic \in Names /\ thread[c].req.body \in Seq(Events)
<1>1. thread[c] \in [pc : {"none", "recv", "handle", "fanout", "confirm",
                           "unregister", "gone", "quit"},
                     fd : Fds \cup {0}, req : Requests \cup {NoRequest}, i : Nat]
  BY DEF TypeOK, BrokerTypeOK
<1>2. NoRequest.topic \in Names /\ NoRequest.body \in Seq(Events)
  BY DEF NoRequest, Names
<1> QED BY <1>1, <1>2 DEF Requests

\* A send adds a line to one buffer at most.
LEMMA Sending ==
  ASSUME TypeOK, NEW f, NEW line \in Lines, SendDown(f, line)
  PROVE  down' \in [Clients -> Seq(Lines)] /\ reset' \subseteq Clients
<1> DEFINE c == sock[f]
<1>1. /\ down \in [Clients -> Seq(Lines)] /\ reset \subseteq Clients
      /\ f \in DOMAIN sock => c \in Clients
  BY DEF TypeOK, NetTypeOK
<1>2. CASE UNCHANGED <<down, reset>>
  BY <1>1, <1>2
<1>3. CASE f \in DOMAIN sock /\ c \in open /\ down' = [down EXCEPT ![c] = Append(@, line)] /\ UNCHANGED reset
  <2> HIDE DEF c
  <2>1. Append(down[c], line) \in Seq(Lines)
    BY <1>1, <1>3
  <2> QED BY <1>1, <1>3, <2>1
<1>4. CASE f \in DOMAIN sock /\ reset' = reset \cup {c} /\ UNCHANGED down
  BY <1>1, <1>4
<1> QED BY <1>2, <1>3, <1>4 DEF SendDown

\* What Parse makes of requests of one client is a request.
LEMMA Parsing ==
  ASSUME TcpAssumption, TcpInv, NEW c \in Clients, NEW n \in 1..Len(up[c])
  PROVE  Parse(SubSeq(up[c], 1, n)) \in Requests
<1> DEFINE chunk == SubSeq(up[c], 1, n)
<1>1. up[c] \in Seq(Requests)
  BY DEF TcpInv, TypeOK, NetTypeOK
<1>2. /\ chunk \in Seq(Requests) /\ Len(chunk) = n /\ n \in Nat \ {0}
      /\ \A i \in DOMAIN chunk : \E j \in DOMAIN up[c] : chunk[i] = up[c][j]
  BY <1>1, SubSeqElems
<1>3. Head(chunk) \in Requests /\ Head(chunk) = chunk[1] /\ 1 \in DOMAIN chunk
  BY <1>2
<1> HIDE DEF chunk
<1>4. CASE c \in Subscribers
  <2>1. \E t \in Topics : Head(chunk) = SubscribeTo(t)
    <3>1. c \notin Publishers
      BY <1>4 DEF TcpAssumption
    <3>2. OwnRequest(c, Head(chunk))
      BY <1>2, <1>3 DEF TcpInv, UpInv
    <3> QED BY <3>1, <3>2 DEF OwnRequest
  <2>2. Head(chunk).op = "SUBSCRIBE"
    BY <2>1 DEF SubscribeTo
  <2>3. SubscribeTo(Garbled) \in Requests
    BY DEF SubscribeTo, Requests, Names
  <2> QED BY <1>3, <2>2, <2>3 DEF Parse, chunk
<1>5. CASE c \in Publishers
  <2>1. \A i \in DOMAIN chunk : \E e \in Events : chunk[i] = PublishIn(TopicOf[c], <<e>>)
    <3>1. \A i \in DOMAIN chunk : OwnRequest(c, chunk[i])
      BY <1>2 DEF TcpInv, UpInv
    <3> QED BY <3>1, <1>5 DEF OwnRequest
  <2>2. \A i \in 1..Len(chunk) : chunk[i].body[1] \in Events
    BY <1>2, <2>1 DEF PublishIn
  <2>3. Head(chunk).op = "PUBLISH" /\ Head(chunk).topic \in Names
    BY <1>3, <2>1 DEF PublishIn, Requests
  <2>4. [i \in 1..Len(chunk) |-> chunk[i].body[1]] \in Seq(Events)
    BY <1>2, <2>2
  <2>5. PublishIn(Head(chunk).topic, [i \in 1..Len(chunk) |-> chunk[i].body[1]]) \in Requests
    BY <2>3, <2>4 DEF PublishIn, Requests
  <2> QED BY <1>3, <2>3, <2>5 DEF Parse, chunk
<1> QED BY <1>4, <1>5 DEF Clients

\* recv with data.
LEMMA RecvRequestStep ==
  ASSUME TcpAssumption, TcpInv, NEW c \in Clients, RecvRequest(c), UNCHANGED clientVars
  PROVE  TcpInv'
<1>1. PICK n \in 1..RecvMax :
        /\ n <= Len(up[c])
        /\ thread' = [thread EXCEPT ![c].pc = "handle",
                                    ![c].req = Parse(SubSeq(up[c], 1, n))]
        /\ up' = [up EXCEPT ![c] = SubSeq(@, n + 1, Len(@))]
  BY DEF RecvRequest
<1>2. thread[c].pc = "recv" /\ UNCHANGED <<alive, backlog, open, sock, down, reset,
                                         server_running, topic_subscribers, topics_mutex>>
  BY DEF RecvRequest
<1>3. up[c] \in Seq(Requests) /\ TypeOK /\ n \in 1..Len(up[c])
  BY <1>1 DEF TcpInv, TypeOK, NetTypeOK, TcpAssumption
<1>4. /\ SubSeq(up[c], n + 1, Len(up[c])) \in Seq(Requests)
      /\ \A i \in DOMAIN SubSeq(up[c], n + 1, Len(up[c])) :
           \E j \in DOMAIN up[c] : SubSeq(up[c], n + 1, Len(up[c]))[i] = up[c][j]
  <2>1. n + 1 \in 1..(Len(up[c]) + 1) /\ Len(up[c]) \in 0..Len(up[c])
    BY <1>3
  <2> QED BY <2>1, <1>3, SubSeqElems
<1>5. Parse(SubSeq(up[c], 1, n)) \in Requests
  BY <1>3, Parsing
<1>6. NetTypeOK'
  BY <1>1, <1>2, <1>3, <1>4 DEF TypeOK, NetTypeOK
<1>7. BrokerTypeOK'
  BY <1>1, <1>2, <1>3, <1>5 DEF TypeOK, BrokerTypeOK
<1>8. \A d \in Clients :
        /\ thread'[d].fd = thread[d].fd
        /\ IF d = c THEN thread'[d].pc = "handle" ELSE thread'[d].pc = thread[d].pc
        /\ up'[d] = IF d = c THEN SubSeq(up[c], n + 1, Len(up[c])) ELSE up[d]
  BY <1>1, <1>3 DEF TypeOK, BrokerTypeOK, NetTypeOK
<1>9. \A d \in Clients : \A i \in DOMAIN up'[d] : \E j \in DOMAIN up[d] : up'[d][i] = up[d][j]
  <2> TAKE d \in Clients
  <2>1. CASE d = c
    <3> DEFINE rest == SubSeq(up[c], n + 1, Len(up[c]))
    <3>1. \A i \in DOMAIN rest : \E j \in DOMAIN up[c] : rest[i] = up[c][j]
      BY <1>4
    <3>2. up'[d] = rest
      BY <2>1, <1>8
    <3> HIDE DEF rest
    <3> QED BY <3>1, <3>2, <2>1
  <2>2. CASE d # c
    BY <2>2, <1>8
  <2> QED BY <2>1, <2>2
<1>10. ClientTypeOK' /\ ConnInv' /\ SockInv' /\ UpInv' /\ ProgressInv'
  BY <1>2, <1>8, <1>9, BrokerFrame
<1>11. NoneLeftBehind'
  BY <1>2, <1>8, ListFrame DEF TcpInv
<1> QED BY <1>6, <1>7, <1>10, <1>11 DEF TcpInv, TypeOK

\* recv without: the descriptor is closed.
LEMMA RecvEndStep ==
  ASSUME TcpAssumption, TcpInv, NEW c \in Clients, RecvEnd(c), UNCHANGED clientVars
  PROVE  TcpInv'
<1>1. /\ thread[c].pc = "recv"
      /\ sock' = [f \in DOMAIN sock \ {thread[c].fd} |-> sock[f]]
      /\ thread' = [thread EXCEPT ![c].pc = "unregister"]
      /\ UNCHANGED <<alive, backlog, open, up, down, reset,
                     server_running, topic_subscribers, topics_mutex>>
  BY DEF RecvEnd
<1>2. NetTypeOK'
  BY <1>1 DEF TcpInv, TypeOK, NetTypeOK
<1>3. BrokerTypeOK'
  BY <1>1 DEF TcpInv, TypeOK, BrokerTypeOK
<1>4. \A d \in Clients :
        /\ thread'[d].fd = thread[d].fd
        /\ thread'[d].pc = IF d = c THEN "unregister" ELSE thread[d].pc
  BY <1>1 DEF TcpInv, TypeOK, BrokerTypeOK
<1>5. ClientTypeOK' /\ ConnInv' /\ SockInv' /\ UpInv' /\ ProgressInv'
  BY <1>1, <1>4, BrokerFrame
<1>6. NoneLeftBehind'
  BY <1>1, <1>4, ListFrame DEF TcpInv
<1> QED BY <1>2, <1>3, <1>5, <1>6 DEF TcpInv, TypeOK

\* publish_message takes the mutex.
LEMMA LockPublishStep ==
  ASSUME TcpAssumption, TcpInv, NEW c \in Clients, LockPublish(c), UNCHANGED clientVars
  PROVE  TcpInv'
<1>1. /\ thread[c].pc = "handle" /\ topics_mutex' = {c}
      /\ thread' = [thread EXCEPT ![c].pc = "fanout", ![c].i = 1]
      /\ UNCHANGED <<netVars, server_running, topic_subscribers>>
  BY DEF LockPublish, Lock
<1>2. NetTypeOK'
  BY <1>1 DEF TcpInv, TypeOK, NetTypeOK, netVars
<1>3. BrokerTypeOK'
  BY <1>1 DEF TcpInv, TypeOK, BrokerTypeOK
<1>4. \A d \in Clients :
        /\ thread'[d].fd = thread[d].fd
        /\ thread'[d].pc = IF d = c THEN "fanout" ELSE thread[d].pc
  BY <1>1 DEF TcpInv, TypeOK, BrokerTypeOK
<1>5. \A d \in Clients :
        /\ thread'[d].pc = "none" <=> thread[d].pc = "none"
        /\ thread'[d].pc = "gone" => thread[d].pc = "gone"
  <2>1. thread[c].pc = "handle"
    BY <1>1
  <2> QED BY <2>1, <1>4
<1>6. UNCHANGED <<backlog, open, sock, up, topic_subscribers>>
  BY <1>1 DEF netVars
<1>7. ClientTypeOK' /\ ConnInv' /\ SockInv' /\ UpInv' /\ ProgressInv'
  BY <1>4, <1>5, <1>6, BrokerFrame
<1>8. NoneLeftBehind'
  BY <1>4, <1>5, <1>6, ListFrame DEF TcpInv
<1> QED BY <1>2, <1>3, <1>7, <1>8 DEF TcpInv, TypeOK

\* One send of publish_message.
LEMMA SendLineStep ==
  ASSUME TcpAssumption, TcpInv, NEW c \in Clients, SendLine(c), UNCHANGED clientVars
  PROVE  TcpInv'
<1> DEFINE f == Targets(c)[thread[c].i]
           line == Update(thread[c].req.topic, thread[c].req.body)
<1>1. /\ thread[c].pc = "fanout"
      /\ thread' = [thread EXCEPT ![c].i = @ + 1]
      /\ UNCHANGED <<alive, backlog, open, sock, up,
                     server_running, topic_subscribers, topics_mutex>>
      /\ SendDown(f, line) \/ UNCHANGED <<down, reset>>
  BY DEF SendLine
<1>2. line \in Lines /\ TypeOK /\ thread[c].i \in Nat
  BY ThreadTypes DEF TcpInv, Update, Lines
<1>3. /\ down' \in [Clients -> Seq(Lines)]
      /\ reset' \subseteq Clients
  <2> HIDE DEF f, line
  <2>1. CASE SendDown(f, line)
    BY <2>1, <1>2, Sending
  <2>2. CASE UNCHANGED <<down, reset>>
    BY <2>2, <1>2 DEF TypeOK, NetTypeOK
  <2> QED BY <1>1, <2>1, <2>2
<1>4. NetTypeOK'
  BY <1>1, <1>2, <1>3 DEF TypeOK, NetTypeOK
<1>5. BrokerTypeOK'
  <2>1. thread[c].i + 1 \in Nat
    BY <1>2
  <2>2. thread' = [thread EXCEPT ![c].i = thread[c].i + 1]
    BY <1>1
  <2> QED BY <2>1, <2>2, <1>1, <1>2 DEF TypeOK, BrokerTypeOK
<1>6. \A d \in Clients : thread'[d].fd = thread[d].fd /\ thread'[d].pc = thread[d].pc
  BY <1>1 DEF TcpInv, TypeOK, BrokerTypeOK
<1>7. ClientTypeOK' /\ ConnInv' /\ SockInv' /\ UpInv' /\ ProgressInv'
  BY <1>1, <1>6, BrokerFrame
<1>8. NoneLeftBehind'
  BY <1>1, <1>6, ListFrame DEF TcpInv
<1> QED BY <1>4, <1>5, <1>7, <1>8 DEF TcpInv, TypeOK

\* publish_message returns.
LEMMA EndPublishStep ==
  ASSUME TcpAssumption, TcpInv, NEW c \in Clients, EndPublish(c), UNCHANGED clientVars
  PROVE  TcpInv'
<1>1. /\ thread[c].pc = "fanout" /\ topics_mutex' = topics_mutex \ {c}
      /\ thread' = [thread EXCEPT ![c] = [pc |-> AtLoop, fd |-> @.fd,
                                          req |-> NoRequest, i |-> 0]]
      /\ UNCHANGED <<netVars, server_running, topic_subscribers>>
  BY DEF EndPublish, Unlock
<1>2. NetTypeOK'
  BY <1>1 DEF TcpInv, TypeOK, NetTypeOK, netVars
<1>3. BrokerTypeOK'
  BY <1>1, ThreadTypes DEF TcpInv, TypeOK, BrokerTypeOK, AtLoop
<1>4. \A d \in Clients :
        /\ thread'[d].fd = thread[d].fd
        /\ thread'[d].pc = IF d = c THEN AtLoop ELSE thread[d].pc
  BY <1>1 DEF TcpInv, TypeOK, BrokerTypeOK
<1>5. AtLoop # "none" /\ AtLoop # "gone"
  BY DEF AtLoop
<1>6. ClientTypeOK' /\ ConnInv' /\ SockInv' /\ UpInv' /\ ProgressInv'
  BY <1>1, <1>4, <1>5, BrokerFrame DEF netVars
<1>7. NoneLeftBehind'
  BY <1>1, <1>4, <1>5, ListFrame DEF TcpInv
<1> QED BY <1>2, <1>3, <1>6, <1>7 DEF TcpInv, TypeOK

\* subscribe_client lists the descriptor of its own thread.
LEMMA LockSubscribeStep ==
  ASSUME TcpAssumption, TcpInv, NEW c \in Clients, LockSubscribe(c), UNCHANGED clientVars
  PROVE  TcpInv'
<1> DEFINE t == thread[c].req.topic
           fd == thread[c].fd
<1>1. /\ thread[c].pc = "handle" /\ topics_mutex' = {c}
      /\ topic_subscribers' = [topic_subscribers EXCEPT ![t] = Append(@, fd)]
      /\ thread' = [thread EXCEPT ![c].pc = "confirm"]
      /\ UNCHANGED <<netVars, server_running>>
  BY DEF LockSubscribe, Lock
<1>2. t \in Names /\ fd \in Fds /\ TypeOK
  BY <1>1, ThreadTypes DEF TcpInv, ConnInv
<1>3. topic_subscribers[t] \in Seq(Fds)
  BY <1>2 DEF TypeOK, BrokerTypeOK
<1>4. NetTypeOK'
  BY <1>1 DEF TcpInv, TypeOK, NetTypeOK, netVars
<1>5. \A d \in Clients :
        /\ thread'[d].fd = thread[d].fd
        /\ thread'[d].pc = IF d = c THEN "confirm" ELSE thread[d].pc
  BY <1>1 DEF TcpInv, TypeOK, BrokerTypeOK
<1> HIDE DEF t, fd
<1>6. BrokerTypeOK'
  <2>1. Append(topic_subscribers[t], fd) \in Seq(Fds)
    BY <1>2, <1>3
  <2>2. topic_subscribers' \in [Names -> Seq(Fds)]
    BY <1>1, <1>2, <2>1 DEF TypeOK, BrokerTypeOK
  <2>3. UNCHANGED server_running /\ topics_mutex' \subseteq Clients
    BY <1>1
  <2>4. thread' \in [Clients -> [pc : {"none", "recv", "handle", "fanout", "confirm",
                                      "unregister", "gone", "quit"},
                                fd : Fds \cup {0}, req : Requests \cup {NoRequest},
                                i : Nat]]
    BY <1>1, <1>2 DEF TypeOK, BrokerTypeOK
  <2> QED BY <1>2, <2>2, <2>3, <2>4 DEF TypeOK, BrokerTypeOK
<1>7. ClientTypeOK' /\ ConnInv' /\ SockInv' /\ UpInv' /\ ProgressInv'
  BY <1>1, <1>5, BrokerFrame DEF netVars
<1>8. \A x \in Names : Elems(topic_subscribers'[x])
        = IF x = t THEN Elems(topic_subscribers[t]) \cup {fd} ELSE Elems(topic_subscribers[x])
  <2>1. \A x \in Names : topic_subscribers'[x]
          = IF x = t THEN Append(topic_subscribers[t], fd) ELSE topic_subscribers[x]
    BY <1>1 DEF TcpInv, TypeOK, BrokerTypeOK
  <2> QED BY <2>1, <1>2, <1>3, ElemsAppend
<1>9. NoneLeftBehind'
  <2> SUFFICES ASSUME NEW x \in Names, NEW f \in Elems(topic_subscribers'[x])
               PROVE  \E d \in Clients : thread'[d].fd = f /\ thread'[d].pc # "gone"
    BY DEF NoneLeftBehind
  <2>1. CASE f \in Elems(topic_subscribers[x])
    BY <2>1, <1>5 DEF TcpInv, NoneLeftBehind
  <2>2. CASE f = fd
    BY <2>2, <1>5 DEF fd
  <2> QED BY <2>1, <2>2, <1>8
<1> QED BY <1>4, <1>6, <1>7, <1>9 DEF TcpInv, TypeOK

\* subscribe_client confirms.
LEMMA ConfirmStep ==
  ASSUME TcpAssumption, TcpInv, NEW c \in Clients, Confirm(c), UNCHANGED clientVars
  PROVE  TcpInv'
<1> DEFINE line == Confirmation(thread[c].req.topic)
<1>1. /\ thread[c].pc = "confirm" /\ topics_mutex' = topics_mutex \ {c}
      /\ SendDown(thread[c].fd, line)
      /\ thread' = [thread EXCEPT ![c].pc = AtLoop, ![c].req = NoRequest]
      /\ UNCHANGED <<alive, backlog, open, sock, up, server_running, topic_subscribers>>
  BY DEF Confirm, Unlock
<1>2. line \in Lines /\ TypeOK
  BY ThreadTypes DEF TcpInv, Confirmation, Lines
<1> HIDE DEF line
<1>3. /\ down' \in [Clients -> Seq(Lines)]
      /\ reset' \subseteq Clients
  BY <1>1, <1>2, Sending
<1>4. NetTypeOK'
  BY <1>1, <1>2, <1>3 DEF TypeOK, NetTypeOK
<1>5. BrokerTypeOK'
  BY <1>1, <1>2 DEF TypeOK, BrokerTypeOK, AtLoop
<1>6. \A d \in Clients :
        /\ thread'[d].fd = thread[d].fd
        /\ thread'[d].pc = IF d = c THEN AtLoop ELSE thread[d].pc
  BY <1>1 DEF TcpInv, TypeOK, BrokerTypeOK
<1>7. AtLoop # "none" /\ AtLoop # "gone"
  BY DEF AtLoop
<1>8. ClientTypeOK' /\ ConnInv' /\ SockInv' /\ UpInv' /\ ProgressInv'
  BY <1>1, <1>6, <1>7, BrokerFrame
<1>9. NoneLeftBehind'
  BY <1>1, <1>6, <1>7, ListFrame DEF TcpInv
<1> QED BY <1>4, <1>5, <1>8, <1>9 DEF TcpInv, TypeOK

\* unregister_client: what is still listed belongs to somebody else.
LEMMA UnregisterStep ==
  ASSUME TcpAssumption, TcpInv, NEW c \in Clients, Unregister(c), UNCHANGED clientVars
  PROVE  TcpInv'
<1> DEFINE fd == thread[c].fd
<1>1. /\ thread[c].pc = "unregister"
      /\ topic_subscribers' = [t \in Names |-> Without(topic_subscribers[t], fd)]
      /\ thread' = [thread EXCEPT ![c].pc = "gone"]
      /\ UNCHANGED <<netVars, server_running, topics_mutex>>
  BY DEF Unregister
<1>2. \A t \in Names :
        /\ topic_subscribers'[t] \in Seq(Fds)
        /\ Elems(topic_subscribers'[t]) = Elems(topic_subscribers[t]) \ {fd}
  <2> TAKE t \in Names
  <2>1. topic_subscribers[t] \in Seq(Fds)
    BY DEF TcpInv, TypeOK, BrokerTypeOK
  <2>2. topic_subscribers'[t] = Without(topic_subscribers[t], fd)
    BY <1>1
  <2> HIDE DEF fd
  <2> QED BY <2>1, <2>2, WithoutElems
<1>3. NetTypeOK'
  BY <1>1 DEF TcpInv, TypeOK, NetTypeOK, netVars
<1>4. \A d \in Clients :
        /\ thread'[d].fd = thread[d].fd
        /\ thread'[d].pc = IF d = c THEN "gone" ELSE thread[d].pc
  BY <1>1 DEF TcpInv, TypeOK, BrokerTypeOK
<1>5. BrokerTypeOK'
  BY <1>1, <1>2 DEF TcpInv, TypeOK, BrokerTypeOK
<1>6. ClientTypeOK' /\ ConnInv' /\ SockInv' /\ UpInv' /\ ProgressInv'
  BY <1>1, <1>4, BrokerFrame DEF netVars
<1>7. NoneLeftBehind'
  <2> SUFFICES ASSUME NEW t \in Names, NEW f \in Elems(topic_subscribers'[t])
               PROVE  \E d \in Clients : thread'[d].fd = f /\ thread'[d].pc # "gone"
    BY DEF NoneLeftBehind
  <2>1. f \in Elems(topic_subscribers[t]) /\ f # fd
    BY <1>2
  <2>2. PICK d \in Clients : thread[d].fd = f /\ thread[d].pc # "gone"
    BY <2>1 DEF TcpInv, NoneLeftBehind
  <2> QED BY <2>1, <2>2, <1>4
<1> QED BY <1>3, <1>5, <1>6, <1>7 DEF TcpInv, TypeOK

---------------------------------------------------------------------------
(* When nobody leaves before all are accepted and a recv returns one       *)
(* request: what a step leaves alone.                                      *)

\* A step of a client process: nobody comes back, and nobody leaves while a
\* client is still to be accepted.
LEMMA ClientHolds ==
  ASSUME HoldInv, UNCHANGED <<brokerVars, alive, sock>>,
         \A c \in Clients : Left(c) => Left(c)',
         \A c \in Clients : Left(c)' => Left(c) \/ \A d \in Clients : thread[d].pc # "none"
  PROVE  StayInv' /\ HeldInv' /\ DistinctInv'
<1>1. StayInv'
  BY DEF HoldInv, StayInv, brokerVars
<1>2. HeldInv'
  BY DEF HoldInv, HeldInv, brokerVars
<1>3. DistinctInv'
  BY DEF HoldInv, DistinctInv, brokerVars
<1> QED BY <1>1, <1>2, <1>3

\* A step of a thread that closes no descriptor.
LEMMA ThreadHolds ==
  ASSUME HoldInv, UNCHANGED <<clientVars, alive, sock>>,
         \A c \in Clients :
           /\ thread'[c].fd = thread[c].fd
           /\ thread'[c].pc = "none" <=> thread[c].pc = "none"
           /\ thread'[c].pc \in {"unregister", "gone"} <=> thread[c].pc \in {"unregister", "gone"}
  PROVE  StayInv' /\ HeldInv' /\ DistinctInv'
<1>0. \A c \in Clients : Left(c)' <=> Left(c)
  BY DEF Left, clientVars
<1>1. StayInv'
  BY <1>0 DEF HoldInv, StayInv
<1>2. HeldInv'
  BY <1>0 DEF HoldInv, HeldInv
<1>3. DistinctInv'
  BY DEF HoldInv, DistinctInv
<1> QED BY <1>1, <1>2, <1>3

\* A step that sends no SUBSCRIBE and forgets none.
LEMMA AccountedFrame ==
  ASSUME TcpAssumption, OrderlyInv, alive' => alive,
         \A s \in Subscribers : sub'[s].idx = sub[s].idx,
         \A s \in Subscribers : s \in open' => s \in open \/ sub[s].idx = 1,
         \A s \in Subscribers : \A t \in Topics :
           alive /\ s \in open /\ s \in open' /\ Accounted(s, t) => Accounted(s, t)'
  PROVE  AccountedInv'
<1> SUFFICES ASSUME NEW s \in Subscribers, alive', s \in open',
                    NEW k \in DOMAIN Wants[s], k < sub'[s].idx
             PROVE  Accounted(s, Wants[s][k])'
  BY DEF AccountedInv
<1>1. Wants[s] \in Seq(Topics)
  BY DEF TcpAssumption
<1>2. Wants[s][k] \in Topics /\ k \in Nat \ {0}
  BY <1>1
<1>3. s \in open /\ k < sub[s].idx
  BY <1>2
<1>4. Accounted(s, Wants[s][k])
  BY <1>3 DEF OrderlyInv, AccountedInv
<1> QED BY <1>2, <1>3, <1>4

\* A step of a client process that keeps what it has sent.
LEMMA ClientAccounted ==
  ASSUME TcpAssumption, OrderlyInv, UNCHANGED <<brokerVars, alive>>,
         \A s \in Subscribers : sub'[s].idx = sub[s].idx,
         \A s \in Subscribers : s \in open' => s \in open \/ sub[s].idx = 1,
         \A s \in Subscribers : up'[s] = up[s]
  PROVE  AccountedInv'
<1>1. \A s \in Subscribers : \A t \in Topics : Accounted(s, t) => Accounted(s, t)'
  BY DEF Accounted, brokerVars
<1> QED BY <1>1, AccountedFrame

---------------------------------------------------------------------------
(* The client programs again. *)

\* Who has left after a step of a client program.
LEMMA ClientLeft ==
  ASSUME TcpAssumption, TcpSystemAssumption, TcpInv, ~Churn, ClientNext
  PROVE  /\ UNCHANGED <<brokerVars, alive, sock>>
         /\ \A c \in Clients : Left(c) => Left(c)'
         /\ \A c \in Clients : Left(c)' => Left(c) \/ \A d \in Clients : thread[d].pc # "none"
<1>0. UNCHANGED brokerVars /\ ClientTypeOK
  BY DEF ClientNext, TcpInv, TypeOK
<1>1. ASSUME NEW p \in Publishers, PubConnect(p) \/ PubSend(p) \/ PubBreak(p)
      PROVE  UNCHANGED <<alive, sock>> /\ \A c \in Clients : Left(c)' <=> Left(c)
  <2>1. UNCHANGED <<alive, sock, sub>>
    BY <1>1 DEF PubConnect, PubSend, PubBreak, Connect, SendUp, netVars
  <2>2. pub[p].pc # "done" /\ pub'[p].pc # "done"
        /\ \A r \in Publishers : r # p => pub'[r] = pub[r]
    <3>1. CASE PubConnect(p)
      BY <3>1, <1>0 DEF PubConnect, ClientTypeOK
    <3>2. CASE PubSend(p)
      BY <3>2, <1>0 DEF PubSend, ClientTypeOK
    <3>3. CASE PubBreak(p)
      BY <3>3, <1>0 DEF PubBreak, ClientTypeOK
    <3> QED BY <1>1, <3>1, <3>2, <3>3
  <2> QED BY <2>1, <2>2 DEF Left
<1>2. ASSUME NEW p \in Publishers, MayLeave, PubClose(p)
      PROVE  /\ UNCHANGED <<alive, sock>>
             /\ \A c \in Clients : Left(c) => Left(c)'
             /\ \A d \in Clients : thread[d].pc # "none"
  <2>1. \A c \in Clients : Left(c) => Left(c)'
    BY <1>0, <1>2 DEF PubClose, Left, ClientTypeOK
  <2>2. UNCHANGED <<alive, sock>>
    BY <1>2 DEF PubClose, Shut
  <2>3. \A d \in Clients : thread[d].pc # "none"
    BY <1>2 DEF MayLeave
  <2> QED BY <2>1, <2>2, <2>3
<1>3. ASSUME NEW s \in Subscribers, SubscriberNext(s)
      PROVE  UNCHANGED <<alive, sock>> /\ \A c \in Clients : Left(c)' <=> Left(c)
  <2>1. CASE SubConnect(s)
    BY <2>1, <1>0 DEF SubConnect, Connect, Left, ClientTypeOK, NextMatch
  <2>2. CASE SubSend(s)
    <3>1. UNCHANGED <<alive, sock, pub>>
      BY <2>2 DEF SubSend, SendUp, netVars
    <3>2. sub[s].pc = "subscribe" /\ sub'[s].pc # "down"
          /\ \A r \in Subscribers : r # s => sub'[r] = sub[r]
      BY <2>2, <1>0 DEF SubSend, NextMatch, ClientTypeOK
    <3> QED BY <3>1, <3>2 DEF Left, Clients
  <2>3. CASE SubRead(s)
    BY <2>3 DEF SubRead, Left
  <2> QED BY <1>3, <2>1, <2>2, <2>3 DEF SubscriberNext
<1>4. ASSUME Leave
      PROVE  /\ UNCHANGED <<alive, sock>>
             /\ \A c \in Clients : Left(c) => Left(c)'
             /\ \A d \in Clients : thread[d].pc # "none"
  <2>0. PICK s \in Subscribers : SubLeave(s)
    BY <1>4 DEF Leave, TcpSystemAssumption
  <2>1. \A c \in Clients : Left(c) => Left(c)'
    BY <1>0, <2>0 DEF SubLeave, Left, ClientTypeOK
  <2>2. UNCHANGED <<alive, sock>>
    BY <2>0 DEF SubLeave, Shut
  <2>3. \A d \in Clients : thread[d].pc # "none"
    BY <1>4 DEF Leave, MayLeave
  <2> QED BY <2>1, <2>2, <2>3
<1>5. CASE \E p \in Publishers : PublisherNext(p)
  BY <1>0, <1>1, <1>2, <1>5 DEF PublisherNext
<1>6. CASE \E s \in Subscribers : SubscriberNext(s)
  BY <1>0, <1>3, <1>6
<1>7. CASE Leave
  BY <1>0, <1>4, <1>7
<1> QED BY <1>5, <1>6, <1>7 DEF ClientNext

\* What a publisher sends is no SUBSCRIBE.
LEMMA PublisherAccounted ==
  ASSUME TcpAssumption, OrderlyInv, NEW p \in Publishers, PublisherNext(p), UNCHANGED brokerVars
  PROVE  AccountedInv'
<1>1. p \notin Subscribers /\ UNCHANGED sub
  BY DEF TcpAssumption, PublisherNext, PubConnect, PubSend, PubBreak, PubClose
<1>2. UNCHANGED alive /\ \A s \in Subscribers : s \in open' => s \in open
  BY <1>1 DEF PublisherNext, PubConnect, PubSend, PubBreak, PubClose, Connect, SendUp, Shut, netVars
<1>3. \A s \in Subscribers : up'[s] = up[s]
  <2>1. CASE PubSend(p)
    <3>1. up \in [Clients -> Seq(Requests)]
      BY DEF OrderlyInv, HoldInv, TcpInv, TypeOK, NetTypeOK
    <3>2. \A s \in Subscribers : s \in Clients /\ s # p
      BY <1>1 DEF Clients
    <3> QED BY <2>1, <3>1, <3>2 DEF PubSend, SendUp
  <2>2. CASE ~PubSend(p)
    BY <2>2 DEF PublisherNext, PubConnect, PubBreak, PubClose, Connect, Shut, netVars
  <2> QED BY <2>1, <2>2
<1> QED BY <1>1, <1>2, <1>3, ClientAccounted

\* A subscriber that connects, reads or leaves sends no SUBSCRIBE.
LEMMA SubscriberAccounted ==
  ASSUME TcpAssumption, OrderlyInv, NEW s \in Subscribers,
         SubConnect(s) \/ SubRead(s) \/ SubLeave(s), UNCHANGED brokerVars
  PROVE  AccountedInv'
<1>1. UNCHANGED <<alive, up>>
  BY DEF SubConnect, SubRead, SubLeave, Connect, Shut
<1>2. \A r \in Subscribers : sub'[r].idx = sub[r].idx
  <2>1. ClientTypeOK
    BY DEF OrderlyInv, HoldInv, TcpInv, TypeOK
  <2>2. CASE SubConnect(s)
    BY <2>1, <2>2 DEF ClientTypeOK, SubConnect
  <2>3. CASE SubRead(s)
    BY <2>3 DEF SubRead
  <2>4. CASE SubLeave(s)
    BY <2>1, <2>4 DEF ClientTypeOK, SubLeave
  <2> QED BY <2>2, <2>3, <2>4
<1>3. \A r \in Subscribers : r \in open' => r \in open \/ sub[r].idx = 1
  BY DEF OrderlyInv, HoldInv, TcpInv, ProgressInv, SubConnect, SubRead, SubLeave, Connect, Shut
<1> QED BY <1>1, <1>2, <1>3, ClientAccounted

\* A SUBSCRIBE that is sent is under way.
LEMMA SubSendAccounted ==
  ASSUME TcpAssumption, OrderlyInv, NEW s \in Subscribers, SubSend(s), UNCHANGED brokerVars
  PROVE  AccountedInv'
<1> DEFINE req == SubscribeTo(Wants[s][sub[s].idx])
<1>1. /\ sub[s].pc = "subscribe" /\ UNCHANGED <<alive, open>>
      /\ sub' = [sub EXCEPT ![s] = [pc |-> NextMatch(s, @.idx + 1), idx |-> @.idx + 1]]
      /\ alive => up' = [up EXCEPT ![s] = Append(@, req)]
  BY DEF SubSend, SendUp, netVars
<1>2. up \in [Clients -> Seq(Requests)] /\ s \in Clients /\ sub[s].idx \in DOMAIN Wants[s]
      /\ \A r \in Subscribers : sub'[r].idx = IF r = s THEN sub[s].idx + 1 ELSE sub[r].idx
  BY <1>1 DEF Clients, OrderlyInv, HoldInv, TcpInv, ProgressInv, TypeOK, NetTypeOK, ClientTypeOK
<1> HIDE DEF req
<1> SUFFICES ASSUME NEW r \in Subscribers, alive', r \in open',
                    NEW k \in DOMAIN Wants[r], k < sub'[r].idx
             PROVE  Accounted(r, Wants[r][k])'
  BY DEF AccountedInv
<1>3. r \in Clients /\ alive /\ r \in open
  BY <1>1 DEF Clients
<1>4. up'[s] = Append(up[s], req) /\ up[s] \in Seq(Requests) /\ (r # s => up'[r] = up[r])
  BY <1>1, <1>2, <1>3
<1>5. /\ \A i \in DOMAIN up[s] : i \in DOMAIN Append(up[s], req) /\ Append(up[s], req)[i] = up[s][i]
      /\ Len(up[s]) + 1 \in DOMAIN Append(up[s], req) /\ Append(up[s], req)[Len(up[s]) + 1] = req
  BY <1>4
<1>6. \A i \in DOMAIN up[r] : i \in DOMAIN up'[r] /\ up'[r][i] = up[r][i]
  BY <1>4, <1>5
<1>7. CASE r = s /\ k = sub[s].idx
  <2>1. up'[r][Len(up[s]) + 1] = SubscribeTo(Wants[r][k]) /\ Len(up[s]) + 1 \in DOMAIN up'[r]
    BY <1>4, <1>5, <1>7 DEF req
  <2> QED BY <2>1 DEF Accounted
<1>8. CASE ~(r = s /\ k = sub[s].idx)
  <2>1. k \in Nat /\ sub[r].idx \in Nat
    BY DEF TcpAssumption, OrderlyInv, HoldInv, TcpInv, TypeOK, ClientTypeOK
  <2>2. k < sub[r].idx
    BY <1>2, <1>8, <2>1
  <2>3. Accounted(r, Wants[r][k])
    BY <1>3, <2>2 DEF OrderlyInv, AccountedInv
  <2> QED BY <1>6, <2>3 DEF Accounted, brokerVars
<1> QED BY <1>7, <1>8

---------------------------------------------------------------------------
(* The broker again. *)

\* The descriptor accept gives out is not that of any other client: it is
\* free, and nobody has closed one before all are accepted.
LEMMA AcceptHolds ==
  ASSUME TcpAssumption, HoldInv, Accept, UNCHANGED clientVars
  PROVE  StayInv' /\ HeldInv' /\ DistinctInv'
<1> DEFINE c == Head(backlog)
<1>1. backlog \in Seq(Clients) /\ backlog # <<>> /\ TypeOK /\ ConnInv /\ SockInv /\ TcpInv
  BY DEF Accept, HoldInv, TcpInv, TypeOK, NetTypeOK
<1>2. c \in Clients /\ c \in Elems(backlog)
  BY <1>1, TailElems
<1>3. thread[c].fd = 0 /\ thread[c].pc = "none"
  BY <1>1, <1>2 DEF ConnInv
<1>4. FreeFd \in Fds /\ FreeFd \notin DOMAIN sock
  BY <1>1, <1>2, <1>3, FreeFdExists DEF TypeOK
<1>5. /\ alive /\ alive' = server_running
      /\ alive' => DOMAIN sock' = DOMAIN sock \cup {FreeFd}
      /\ thread' = [thread EXCEPT ![c].pc = "recv", ![c].fd = FreeFd]
      /\ UNCHANGED <<open, up, topic_subscribers>>
  BY DEF Accept
<1> HIDE DEF c
<1>6. /\ thread'[c].pc = "recv" /\ thread'[c].fd = FreeFd /\ thread'[c].req = thread[c].req
      /\ \A d \in Clients : d # c => thread'[d] = thread[d]
  BY <1>1, <1>2, <1>5 DEF TypeOK, BrokerTypeOK
<1>7. \A d \in Clients : Left(d)' <=> Left(d)
  BY DEF Left, clientVars
<1>8. \A d \in Clients : ~Left(d)
  BY <1>2, <1>3 DEF HoldInv, StayInv
<1>9. StayInv'
  BY <1>7, <1>8 DEF StayInv
<1>10. HeldInv'
  <2> SUFFICES ASSUME NEW d \in Clients
               PROVE  IF thread'[d].pc \in {"unregister", "gone"} THEN Left(d)'
                      ELSE alive' /\ thread'[d].pc # "none" => thread'[d].fd \in DOMAIN sock'
    BY DEF HeldInv
  <2>1. CASE d = c
    BY <2>1, <1>5, <1>6
  <2>2. CASE d # c
    BY <2>2, <1>5, <1>6, <1>7 DEF HoldInv, HeldInv
  <2> QED BY <2>1, <2>2
<1>11. \A d \in Clients : d # c => thread[d].fd # FreeFd
  <2> SUFFICES ASSUME NEW d \in Clients, d # c, thread[d].fd = FreeFd PROVE FALSE
    OBVIOUS
  <2>1. FreeFd # 0
    <3>1. Cardinality(Clients) \in Nat
      BY FS_CardinalityType DEF TcpAssumption
    <3> QED BY <3>1, <1>4 DEF Fds
  <2>2. thread[d].pc # "none"
    BY <1>1, <2>1 DEF ConnInv
  <2> QED BY <1>4, <1>5, <1>8, <2>2 DEF HoldInv, HeldInv
<1>12. DistinctInv'
  <2> SUFFICES ASSUME NEW d \in Clients, NEW e \in Clients,
                      thread'[d].fd # 0, thread'[d].fd = thread'[e].fd
               PROVE  d = e
    BY DEF DistinctInv
  <2>1. CASE d = c
    BY <2>1, <1>6, <1>11
  <2>2. CASE e = c
    BY <2>2, <1>6, <1>11
  <2>3. CASE d # c /\ e # c
    BY <2>3, <1>6 DEF HoldInv, DistinctInv
  <2> QED BY <2>1, <2>2, <2>3
<1> QED BY <1>9, <1>10, <1>12

\* Nothing is forgotten when a client is accepted.
LEMMA AcceptAccounted ==
  ASSUME TcpAssumption, OrderlyInv, Accept, UNCHANGED clientVars
  PROVE  AccountedInv'
<1> DEFINE c == Head(backlog)
<1>1. backlog \in Seq(Clients) /\ backlog # <<>> /\ TypeOK /\ ConnInv
  BY DEF Accept, OrderlyInv, HoldInv, TcpInv, TypeOK, NetTypeOK
<1>2. c \in Clients /\ c \in Elems(backlog)
  BY <1>1, TailElems
<1>3. thread[c].pc = "none"
  BY <1>1, <1>2 DEF ConnInv
<1>4. /\ alive
      /\ thread' = [thread EXCEPT ![c].pc = "recv", ![c].fd = FreeFd]
      /\ UNCHANGED <<open, up, topic_subscribers>>
  BY DEF Accept
<1> HIDE DEF c
<1>5. \A d \in Clients : d # c => thread'[d] = thread[d]
  BY <1>1, <1>2, <1>4 DEF TypeOK, BrokerTypeOK
<1>6. \A s \in Subscribers : \A t \in Topics : Accounted(s, t) => Accounted(s, t)'
  <2> SUFFICES ASSUME NEW s \in Subscribers, NEW t \in Topics, Accounted(s, t)
               PROVE  Accounted(s, t)'
    OBVIOUS
  <2>1. s \in Clients
    BY DEF Clients
  <2>2. CASE s = c
    BY <2>2, <1>3, <1>4 DEF Accounted
  <2>3. CASE s # c
    BY <2>1, <2>3, <1>4, <1>5 DEF Accounted
  <2> QED BY <2>2, <2>3
<1> QED BY <1>4, <1>6, AccountedFrame DEF clientVars

\* A signal closes descriptors only when it ends the process.
LEMMA SignalHolds ==
  ASSUME HoldInv, Signal, UNCHANGED clientVars
  PROVE  StayInv' /\ HeldInv' /\ DistinctInv'
<1>1. UNCHANGED thread /\ (UNCHANGED <<alive, sock>> \/ alive' = FALSE)
  BY Signalled
<1>2. \A c \in Clients : Left(c)' <=> Left(c)
  BY DEF Left, clientVars
<1>3. StayInv'
  BY <1>1, <1>2 DEF HoldInv, StayInv
<1>4. HeldInv'
  BY <1>1, <1>2 DEF HoldInv, HeldInv
<1>5. DistinctInv'
  BY <1>1 DEF HoldInv, DistinctInv
<1> QED BY <1>3, <1>4, <1>5

\* A signal forgets no SUBSCRIBE that has been read.
LEMMA SignalAccounted ==
  ASSUME TcpAssumption, OrderlyInv, Signal, UNCHANGED clientVars
  PROVE  AccountedInv'
<1>1. alive /\ UNCHANGED <<thread, up, open, topic_subscribers>>
  BY Signalled
<1>2. \A s \in Subscribers : \A t \in Topics : Accounted(s, t) => Accounted(s, t)'
  BY <1>1 DEF Accounted
<1> QED BY <1>1, <1>2, AccountedFrame DEF clientVars

\* No recv returns two requests of a subscriber.
OneByOne == RecvMax = 1 \/ (alive => \A s \in Subscribers : Len(up[s]) <= 1)

\* recv on a publisher's connection.
LEMMA RecvEventAccounted ==
  ASSUME TcpAssumption, OrderlyInv, NEW c \in Publishers, RecvRequest(c), UNCHANGED clientVars
  PROVE  AccountedInv'
<1>1. /\ UNCHANGED <<alive, open, topic_subscribers>>
      /\ up \in [Clients -> Seq(Requests)] /\ BrokerTypeOK /\ c \in Clients
  BY DEF RecvRequest, OrderlyInv, HoldInv, TcpInv, TypeOK, NetTypeOK, Clients
<1>2. (\E q : up' = [up EXCEPT ![c] = q])
      /\ \E q : thread' = [thread EXCEPT ![c].pc = "handle", ![c].req = q]
  BY DEF RecvRequest
<1>3. \A s \in Subscribers : s # c /\ s \in Clients
  BY DEF TcpAssumption, Clients
<1>4. \A s \in Subscribers : up'[s] = up[s] /\ thread'[s] = thread[s]
  BY <1>1, <1>2, <1>3 DEF BrokerTypeOK
<1>5. \A s \in Subscribers : \A t \in Topics : Accounted(s, t) => Accounted(s, t)'
  BY <1>1, <1>4 DEF Accounted
<1> QED BY <1>1, <1>5, AccountedFrame DEF clientVars

\* recv returns one request, which is then being handled.
LEMMA RecvRequestAccounted ==
  ASSUME TcpAssumption, OrderlyInv, OneByOne, NEW c \in Clients, RecvRequest(c),
         UNCHANGED clientVars
  PROVE  AccountedInv'
<1> SUFFICES ASSUME c \in Subscribers PROVE AccountedInv'
  BY RecvEventAccounted DEF Clients
<1>1. up \in [Clients -> Seq(Requests)] /\ TypeOK /\ up[c] \in Seq(Requests)
  BY DEF OrderlyInv, HoldInv, TcpInv, TypeOK, NetTypeOK
<1>2. /\ thread[c].pc = "recv" /\ Len(up[c]) >= 1
      /\ thread' = [thread EXCEPT ![c].pc = "handle",
                                  ![c].req = Parse(SubSeq(up[c], 1, 1))]
      /\ up' = [up EXCEPT ![c] = SubSeq(@, 2, Len(@))]
      /\ UNCHANGED <<alive, open, sock, topic_subscribers>>
  <2>1. PICK n \in 1..RecvMax :
          /\ n <= Len(up[c])
          /\ thread' = [thread EXCEPT ![c].pc = "handle",
                                      ![c].req = Parse(SubSeq(up[c], 1, n))]
          /\ up' = [up EXCEPT ![c] = SubSeq(@, n + 1, Len(@))]
    BY DEF RecvRequest
  <2>2. alive /\ Len(up[c]) \in Nat /\ RecvMax \in Nat
    BY <1>1 DEF RecvRequest, TcpAssumption
  <2>3. PICK l : l = Len(up[c])
    OBVIOUS
  <2>4. RecvMax = 1 \/ l <= 1
    BY <2>2, <2>3, Zenon DEF OneByOne
  <2>5. n \in 1..RecvMax /\ n <= l /\ l \in Nat
    BY <2>1, <2>2, <2>3
  <2>6. n \in Int /\ 1 <= n /\ n <= RecvMax /\ n <= l
    BY <2>2, <2>5
  <2>7. n = 1
    BY <2>3, <2>4, <2>5, <2>6
  <2>8. n + 1 = 2 /\ 1 <= Len(up[c])
    BY <2>3, <2>6, <2>7
  <2>9. thread[c].pc = "recv" /\ UNCHANGED <<alive, open, sock, topic_subscribers>>
    BY DEF RecvRequest
  <2>10. Len(up[c]) >= 1
    BY <2>2, <2>8
  <2> QED BY <2>1, <2>7, <2>8, <2>9, <2>10, Zenon
<1>3. Parse(SubSeq(up[c], 1, 1)) = up[c][1]
  <2>1. Len(SubSeq(up[c], 1, 1)) = 1 /\ Head(SubSeq(up[c], 1, 1)) = up[c][1]
    BY <1>2, <1>1
  <2> QED BY <2>1 DEF Parse
<1>4. /\ \A d \in Clients : thread'[d].fd = thread[d].fd
      /\ thread'[c].pc = "handle" /\ thread'[c].req = up[c][1]
      /\ \A d \in Clients : d # c => thread'[d] = thread[d]
  BY <1>2, <1>1, <1>3 DEF TypeOK, BrokerTypeOK
<1>6. \A s \in Subscribers : \A t \in Topics : Accounted(s, t) => Accounted(s, t)'
  <2> SUFFICES ASSUME NEW s \in Subscribers, NEW t \in Topics, Accounted(s, t)
               PROVE  Accounted(s, t)'
    OBVIOUS
  <2>0. s \in Clients
    BY DEF Clients
  <2>1. CASE s # c
    <3>1. up'[s] = up[s] /\ thread'[s] = thread[s]
      BY <2>0, <2>1, <1>2, <1>1, <1>4
    <3> QED BY <3>1, <1>2 DEF Accounted
  <2>2. CASE s = c /\ \E i \in DOMAIN up[s] : up[s][i] = SubscribeTo(t)
    <3>1. PICK i \in DOMAIN up[s] : up[s][i] = SubscribeTo(t)
      BY <2>2
    <3>2. CASE i = 1
      BY <2>2, <3>1, <3>2, <1>4 DEF Accounted
    <3>3. CASE i # 1
      <4>1. i - 1 \in DOMAIN SubSeq(up[c], 2, Len(up[c])) /\ SubSeq(up[c], 2, Len(up[c]))[i - 1] = up[c][i]
        BY <2>2, <3>1, <3>3, <1>1
      <4>2. up'[s] = SubSeq(up[c], 2, Len(up[c]))
        BY <2>2, <1>2, <1>1
      <4>3. i - 1 \in DOMAIN up'[s] /\ up'[s][i - 1] = SubscribeTo(t)
        BY <4>1, <4>2, <3>1, <2>2
      <4> QED BY <4>3 DEF Accounted
    <3> QED BY <3>2, <3>3
  <2>3. CASE s = c /\ thread[s].fd \in Elems(topic_subscribers[t])
    BY <2>3, <1>2, <1>4 DEF Accounted
  <2>4. ~(s = c /\ thread[s].pc = "handle")
    BY <1>2
  <2> QED BY <2>1, <2>2, <2>3, <2>4 DEF Accounted
<1> QED BY <1>2, <1>6, AccountedFrame DEF clientVars

\* A thread closes its own descriptor only, after its client has left.
LEMMA RecvEndHolds ==
  ASSUME TcpAssumption, HoldInv, NEW c \in Clients, RecvEnd(c), UNCHANGED clientVars
  PROVE  StayInv' /\ HeldInv' /\ DistinctInv'
<1>1. /\ thread[c].pc = "recv" /\ c \notin open
      /\ sock' = [f \in DOMAIN sock \ {thread[c].fd} |-> sock[f]]
      /\ thread' = [thread EXCEPT ![c].pc = "unregister"]
      /\ UNCHANGED <<alive, open, up, topic_subscribers>>
  BY DEF RecvEnd
<1>2. /\ \A d \in Clients : thread'[d].fd = thread[d].fd
      /\ thread'[c].pc = "unregister"
      /\ \A d \in Clients : d # c => thread'[d] = thread[d]
  BY <1>1 DEF HoldInv, TcpInv, TypeOK, BrokerTypeOK
<1>3. \A d \in Clients : Left(d)' <=> Left(d)
  BY DEF Left, clientVars
<1>4. thread[c].fd # 0 /\ Left(c)
  BY <1>1 DEF HoldInv, TcpInv, ConnInv
<1>5. StayInv'
  BY <1>1, <1>2, <1>3 DEF HoldInv, StayInv
<1>6. HeldInv'
  <2> SUFFICES ASSUME NEW d \in Clients
               PROVE  IF thread'[d].pc \in {"unregister", "gone"} THEN Left(d)'
                      ELSE alive' /\ thread'[d].pc # "none" => thread'[d].fd \in DOMAIN sock'
    BY DEF HeldInv
  <2>1. CASE d = c
    BY <2>1, <1>2, <1>3, <1>4
  <2>2. CASE d # c
    <3>1. thread[d].fd # thread[c].fd
      BY <2>2, <1>4 DEF HoldInv, DistinctInv
    <3>2. IF thread[d].pc \in {"unregister", "gone"} THEN Left(d)
          ELSE alive /\ thread[d].pc # "none" => thread[d].fd \in DOMAIN sock
      BY DEF HoldInv, HeldInv
    <3>3. DOMAIN sock' = DOMAIN sock \ {thread[c].fd}
      BY <1>1
    <3> QED BY <2>2, <3>1, <3>2, <3>3, <1>1, <1>2, <1>3
  <2> QED BY <2>1, <2>2
<1>7. DistinctInv'
  BY <1>2 DEF HoldInv, DistinctInv
<1> QED BY <1>5, <1>6, <1>7

\* What is forgotten is that of a client that has left.
LEMMA RecvEndAccounted ==
  ASSUME TcpAssumption, OrderlyInv, NEW c \in Clients, RecvEnd(c), UNCHANGED clientVars
  PROVE  AccountedInv'
<1>1. /\ thread[c].pc = "recv" /\ c \notin open
      /\ sock' = [f \in DOMAIN sock \ {thread[c].fd} |-> sock[f]]
      /\ thread' = [thread EXCEPT ![c].pc = "unregister"]
      /\ UNCHANGED <<alive, open, up, topic_subscribers>>
  BY DEF RecvEnd
<1>2. /\ \A d \in Clients : thread'[d].fd = thread[d].fd
      /\ thread'[c].pc = "unregister"
      /\ \A d \in Clients : d # c => thread'[d] = thread[d]
  BY <1>1 DEF OrderlyInv, HoldInv, TcpInv, TypeOK, BrokerTypeOK
<1>8. \A s \in Subscribers : \A t \in Topics :
        s \in open /\ Accounted(s, t) => Accounted(s, t)'
  <2> SUFFICES ASSUME NEW s \in Subscribers, NEW t \in Topics, s \in open, Accounted(s, t)
               PROVE  Accounted(s, t)'
    OBVIOUS
  <2>1. s \in open => thread'[s] = thread[s]
    BY <1>1, <1>2 DEF Clients
  <2> QED BY <2>1, <1>1 DEF Accounted
<1> QED BY <1>1, <1>8, AccountedFrame DEF clientVars

\* Only a thread that sees its client gone closes a descriptor.
LEMMA ThreadStepHolds ==
  ASSUME TcpAssumption, HoldInv, NEW c \in Clients, ThreadStep(c), UNCHANGED clientVars
  PROVE  StayInv' /\ HeldInv' /\ DistinctInv'
<1>0. BrokerTypeOK
  BY DEF HoldInv, TcpInv, TypeOK
<1>1. CASE RecvEnd(c)
  BY <1>1, RecvEndHolds
<1>2. CASE ~RecvEnd(c)
  <2>1. UNCHANGED <<alive, sock>>
    BY <1>2 DEF ThreadStep, RecvRequest, LockPublish, SendLine, EndPublish, LockSubscribe,
                Confirm, Unregister, netVars
  <2> DEFINE Working == {"recv", "handle", "fanout", "confirm", "quit"}
  <2>2. /\ IF thread[c].pc = "unregister" THEN thread'[c].pc = "gone"
           ELSE thread[c].pc \in Working /\ thread'[c].pc \in Working
        /\ thread'[c].fd = thread[c].fd
        /\ \A d \in Clients : d # c => thread'[d] = thread[d]
    <3>1. CASE RecvRequest(c)
      <4>1. /\ thread[c].pc = "recv"
            /\ \E req : thread' = [thread EXCEPT ![c].pc = "handle", ![c].req = req]
        BY <3>1 DEF RecvRequest
      <4> QED BY <4>1, <1>0 DEF BrokerTypeOK
    <3>2. CASE LockPublish(c)
      BY <3>2, <1>0 DEF LockPublish, BrokerTypeOK
    <3>3. CASE SendLine(c)
      <4>1. thread[c].pc = "fanout" /\ thread' = [thread EXCEPT ![c].i = @ + 1]
        BY <3>3 DEF SendLine
      <4> QED BY <4>1, <1>0 DEF BrokerTypeOK
    <3>4. CASE EndPublish(c)
      BY <3>4, <1>0 DEF EndPublish, BrokerTypeOK, AtLoop
    <3>5. CASE LockSubscribe(c)
      BY <3>5, <1>0 DEF LockSubscribe, BrokerTypeOK
    <3>6. CASE Confirm(c)
      <4>1. thread[c].pc = "confirm"
            /\ thread' = [thread EXCEPT ![c].pc = AtLoop, ![c].req = NoRequest]
        BY <3>6 DEF Confirm
      <4> QED BY <4>1, <1>0 DEF BrokerTypeOK, AtLoop
    <3>7. CASE Unregister(c)
      <4>1. thread[c].pc = "unregister" /\ thread' = [thread EXCEPT ![c].pc = "gone"]
        BY <3>7 DEF Unregister
      <4> QED BY <4>1, <1>0 DEF BrokerTypeOK
    <3> QED BY <1>2, <3>1, <3>2, <3>3, <3>4, <3>5, <3>6, <3>7 DEF ThreadStep
  <2>3. \A d \in Clients :
          /\ thread'[d].fd = thread[d].fd
          /\ thread'[d].pc = "none" <=> thread[d].pc = "none"
          /\ thread'[d].pc \in {"unregister", "gone"} <=> thread[d].pc \in {"unregister", "gone"}
    BY <2>2
  <2> QED BY <2>1, <2>3, ThreadHolds
<1> QED BY <1>1, <1>2

\* A thread that handles no SUBSCRIBE and ends no one.
LEMMA PlainThreadAccounted ==
  ASSUME TcpAssumption, OrderlyInv, NEW c \in Clients,
         UNCHANGED <<clientVars, alive, sock, open, up, topic_subscribers>>,
         thread[c].pc \notin {"none", "unregister", "gone"},
         thread[c].pc = "handle" => thread[c].req.op # "SUBSCRIBE",
         thread'[c].pc \notin {"none", "unregister", "gone"},
         \A d \in Clients : thread'[d].fd = thread[d].fd,
         \A d \in Clients : d # c => thread'[d] = thread[d]
  PROVE  AccountedInv'
<1>2. \A s \in Subscribers : \A t \in Topics : Accounted(s, t) => Accounted(s, t)'
  <2> SUFFICES ASSUME NEW s \in Subscribers, NEW t \in Topics, Accounted(s, t)
               PROVE  Accounted(s, t)'
    OBVIOUS
  <2>1. s \in Clients
    BY DEF Clients
  <2>2. CASE s # c
    BY <2>1, <2>2 DEF Accounted
  <2>3. CASE s = c
    <3>1. ~(thread[s].pc = "handle" /\ thread[s].req = SubscribeTo(t))
      BY <2>3 DEF SubscribeTo
    <3> QED BY <2>3, <3>1 DEF Accounted
  <2> QED BY <2>2, <2>3
<1> QED BY <1>2, AccountedFrame DEF clientVars

\* The steps of publish_message, and the confirmation.
LEMMA PublishingAccounted ==
  ASSUME TcpAssumption, OrderlyInv, NEW c \in Clients,
         LockPublish(c) \/ SendLine(c) \/ EndPublish(c) \/ Confirm(c), UNCHANGED clientVars
  PROVE  AccountedInv'
<1>0. BrokerTypeOK
  BY DEF OrderlyInv, HoldInv, TcpInv, TypeOK
<1>1. UNCHANGED <<alive, sock, open, up, topic_subscribers>>
  BY DEF LockPublish, SendLine, EndPublish, Confirm, netVars
<1>2. /\ thread[c].pc \in {"handle", "fanout", "confirm"}
      /\ thread[c].pc = "handle" => thread[c].req.op = "PUBLISH"
  BY DEF LockPublish, SendLine, EndPublish, Confirm
<1>3. /\ thread'[c].pc \in {"fanout", "recv", "quit"}
      /\ \A d \in Clients : thread'[d].fd = thread[d].fd
      /\ \A d \in Clients : d # c => thread'[d] = thread[d]
  <2>1. CASE LockPublish(c)
    BY <2>1, <1>0 DEF LockPublish, BrokerTypeOK
  <2>2. CASE SendLine(c)
    <3>1. thread[c].pc = "fanout" /\ thread' = [thread EXCEPT ![c].i = @ + 1]
      BY <2>2 DEF SendLine
    <3> QED BY <3>1, <1>0 DEF BrokerTypeOK
  <2>3. CASE EndPublish(c)
    BY <2>3, <1>0 DEF EndPublish, BrokerTypeOK, AtLoop
  <2>4. CASE Confirm(c)
    <3>1. thread' = [thread EXCEPT ![c].pc = AtLoop, ![c].req = NoRequest]
      BY <2>4 DEF Confirm
    <3> QED BY <3>1, <1>0 DEF BrokerTypeOK, AtLoop
  <2> QED BY <2>1, <2>2, <2>3, <2>4
<1> QED BY <1>1, <1>2, <1>3, PlainThreadAccounted

\* The SUBSCRIBE that was handled is in the list.
LEMMA LockSubscribeAccounted ==
  ASSUME TcpAssumption, OrderlyInv, NEW c \in Clients, LockSubscribe(c), UNCHANGED clientVars
  PROVE  AccountedInv'
<1> DEFINE r == thread[c].req.topic
           fd == thread[c].fd
<1>1. /\ thread[c].pc = "handle"
      /\ topic_subscribers' = [topic_subscribers EXCEPT ![r] = Append(@, fd)]
      /\ thread' = [thread EXCEPT ![c].pc = "confirm"]
      /\ UNCHANGED <<alive, sock, open, up>>
  BY DEF LockSubscribe, netVars
<1>2. r \in Names /\ fd \in Fds /\ TypeOK
  BY <1>1, ThreadTypes DEF OrderlyInv, HoldInv, TcpInv, ConnInv
<1>3. topic_subscribers \in [Names -> Seq(Fds)]
  BY <1>2 DEF TypeOK, BrokerTypeOK
<1>4. /\ \A d \in Clients : thread'[d].fd = thread[d].fd
      /\ thread'[c].pc = "confirm"
      /\ \A d \in Clients : d # c => thread'[d] = thread[d]
  BY <1>1, <1>2 DEF TypeOK, BrokerTypeOK
<1>5. /\ \A t \in Names : Elems(topic_subscribers[t]) \subseteq Elems(topic_subscribers'[t])
      /\ fd \in Elems(topic_subscribers'[r])
  <2> HIDE DEF r, fd
  <2>1. \A t \in Names : topic_subscribers'[t]
          = IF t = r THEN Append(topic_subscribers[r], fd) ELSE topic_subscribers[t]
    BY <1>1, <1>3
  <2>2. Elems(Append(topic_subscribers[r], fd)) = Elems(topic_subscribers[r]) \cup {fd}
    BY <1>2, <1>3, ElemsAppend
  <2> QED BY <1>2, <2>1, <2>2
<1>7. \A s \in Subscribers : \A t \in Topics : Accounted(s, t) => Accounted(s, t)'
  <2> SUFFICES ASSUME NEW s \in Subscribers, NEW t \in Topics, Accounted(s, t)
               PROVE  Accounted(s, t)'
    OBVIOUS
  <2>1. s \in Clients /\ t \in Names
    BY DEF Clients, Names
  <2>2. CASE \E i \in DOMAIN up[s] : up[s][i] = SubscribeTo(t)
    BY <2>2, <1>1 DEF Accounted
  <2>3. CASE thread[s].pc = "handle" /\ thread[s].req = SubscribeTo(t)
    <3>1. CASE s = c
      <4>1. r = t
        BY <2>3, <3>1 DEF SubscribeTo
      <4>2. thread'[s].pc # "none" /\ thread'[s].fd \in Elems(topic_subscribers'[t])
        BY <3>1, <4>1, <1>4, <1>5
      <4> QED BY <4>2 DEF Accounted
    <3>2. CASE s # c
      BY <2>1, <2>3, <3>2, <1>4 DEF Accounted
    <3> QED BY <3>1, <3>2
  <2>4. CASE thread[s].pc # "none" /\ thread[s].fd \in Elems(topic_subscribers[t])
    <3>1. thread'[s].pc # "none" /\ thread'[s].fd = thread[s].fd
      BY <2>1, <2>4, <1>4
    <3> QED BY <2>1, <2>4, <3>1, <1>5 DEF Accounted
  <2> QED BY <2>2, <2>3, <2>4 DEF Accounted
<1> QED BY <1>1, <1>7, AccountedFrame DEF clientVars

\* Only the descriptor of a client that has left goes from the lists.
LEMMA UnregisterAccounted ==
  ASSUME TcpAssumption, OrderlyInv, NEW c \in Clients, Unregister(c), UNCHANGED clientVars
  PROVE  AccountedInv'
<1> DEFINE fd == thread[c].fd
<1>1. /\ thread[c].pc = "unregister"
      /\ topic_subscribers' = [t \in Names |-> Without(topic_subscribers[t], fd)]
      /\ thread' = [thread EXCEPT ![c].pc = "gone"]
      /\ UNCHANGED <<alive, sock, open, up>>
  BY DEF Unregister, netVars
<1>2. \A t \in Names : Elems(topic_subscribers'[t]) = Elems(topic_subscribers[t]) \ {fd}
  <2> TAKE t \in Names
  <2>1. topic_subscribers[t] \in Seq(Fds)
    BY DEF OrderlyInv, HoldInv, TcpInv, TypeOK, BrokerTypeOK
  <2>2. topic_subscribers'[t] = Without(topic_subscribers[t], fd)
    BY <1>1
  <2> HIDE DEF fd
  <2> QED BY <2>1, <2>2, WithoutElems
<1>3. /\ \A d \in Clients : thread'[d].fd = thread[d].fd
      /\ thread'[c].pc = "gone"
      /\ \A d \in Clients : d # c => thread'[d] = thread[d]
  BY <1>1 DEF OrderlyInv, HoldInv, TcpInv, TypeOK, BrokerTypeOK
<1>5. fd # 0 /\ c \notin open
  <2>1. Left(c) /\ thread[c].pc # "none"
    BY <1>1 DEF OrderlyInv, HoldInv, HeldInv
  <2> QED BY <2>1 DEF OrderlyInv, HoldInv, TcpInv, ConnInv
<1>6. \A s \in Subscribers : \A t \in Topics :
        s \in open /\ Accounted(s, t) => Accounted(s, t)'
  <2> SUFFICES ASSUME NEW s \in Subscribers, NEW t \in Topics, s \in open, Accounted(s, t)
               PROVE  Accounted(s, t)'
    OBVIOUS
  <2>1. s \in Clients /\ t \in Names /\ s # c
    BY <1>5 DEF Clients, Names
  <2>2. thread'[s] = thread[s]
    BY <2>1, <1>3
  <2>3. thread[s].fd # fd
    BY <2>1, <1>5 DEF OrderlyInv, HoldInv, DistinctInv
  <2> HIDE DEF fd
  <2> QED BY <2>1, <2>2, <2>3, <1>1, <1>2 DEF Accounted
<1> QED BY <1>1, <1>6, AccountedFrame DEF clientVars

---------------------------------------------------------------------------
(* The theorems. *)

\* Every step keeps the invariant.
LEMMA TcpStep ==
  ASSUME TcpAssumption, TcpSystemAssumption, TcpInv, [Next]_vars
  PROVE  TcpInv'
<1>1. CASE UNCHANGED vars
  BY <1>1 DEF vars, netVars, clientVars, brokerVars, TcpInv, TypeOK, NetTypeOK,
              ClientTypeOK, BrokerTypeOK, ConnInv, SockInv, UpInv, ProgressInv,
              NoneLeftBehind, Fresh, Left
<1>2. CASE ClientNext
  <2>1. UNCHANGED brokerVars
    BY <1>2 DEF ClientNext
  <2>2. ASSUME NEW p \in Publishers, PublisherNext(p) PROVE TcpInv'
    BY <2>1, <2>2, PubConnectStep, PubSendStep, PubBreakStep, PubCloseStep DEF PublisherNext
  <2>3. ASSUME NEW s \in Subscribers, SubscriberNext(s) PROVE TcpInv'
    BY <2>1, <2>3, SubConnectStep, SubSendStep, SubReadStep DEF SubscriberNext
  <2>4. CASE Leave
    BY <2>1, <2>4, SubLeaveStep DEF Leave, TcpSystemAssumption
  <2> QED BY <1>2, <2>2, <2>3, <2>4 DEF ClientNext
<1>3. CASE BrokerNext
  <2>1. UNCHANGED clientVars
    BY <1>3 DEF BrokerNext
  <2>2. CASE Accept
    BY <2>1, <2>2, AcceptStep
  <2>3. CASE Signal
    BY <2>1, <2>3, SignalStep
  <2>4. ASSUME NEW c \in Clients, ThreadStep(c) PROVE TcpInv'
    BY <2>1, <2>4, RecvRequestStep, RecvEndStep, LockPublishStep, SendLineStep,
       EndPublishStep, LockSubscribeStep, ConfirmStep, UnregisterStep DEF ThreadStep
  <2> QED BY <1>3, <2>2, <2>3, <2>4 DEF BrokerNext
<1> QED BY <1>1, <1>2, <1>3 DEF Next

\* The invariant holds throughout.
LEMMA TcpAlways == Spec => []TcpInv
<1>1. Init => TcpInv
  BY TcpInit, TcpAssumption
<1>2. TcpInv /\ [Next]_vars => TcpInv'
  BY TcpStep, TcpAssumption, TcpSystemAssumption
<1> QED BY <1>1, <1>2, PTL DEF Spec

\* Every variable keeps its type, whatever the number of clients, the sizes
\* of the buffers and of what recv returns, and whoever leaves when: no
\* publisher counts past its events, and no thread is in two places at once.
THEOREM TcpTypeCorrect == Spec => []TypeOK
<1>1. TcpInv => TypeOK
  BY DEF TcpInv
<1> QED BY <1>1, TcpAlways, PTL

\* Closing the descriptor before unregister_client leaves nothing behind for
\* good: every descriptor in a list is that of a client whose thread will
\* still remove it or has been ended by the shutdown.
THEOREM NothingLeftBehind == Spec => []NoneLeftBehind
<1>1. TcpInv => NoneLeftBehind
  BY DEF TcpInv
<1> QED BY <1>1, TcpAlways, PTL

\* The stronger invariants hold at the start.
LEMMA HoldInit == ASSUME TcpAssumption, Init PROVE HoldInv
<1>1. TcpInv
  BY TcpInit
<1>2. StayInv /\ HeldInv /\ DistinctInv
  BY DEF Init, ClientInit, BrokerInit, StayInv, HeldInv, DistinctInv, Left, Clients
<1> QED BY <1>1, <1>2 DEF HoldInv

\* Nothing has been asked for at the start.
LEMMA OrderlyInit == ASSUME TcpAssumption, Init PROVE OrderlyInv
<1>1. HoldInv
  BY HoldInit
<1>2. AccountedInv
  <2> SUFFICES ASSUME NEW s \in Subscribers, s \in open PROVE FALSE
    BY DEF AccountedInv
  <2> QED BY DEF Init, NetInit
<1> QED BY <1>1, <1>2 DEF OrderlyInv

\* While nobody leaves before all are accepted, every client keeps a
\* descriptor of its own.
LEMMA HoldStep ==
  ASSUME TcpAssumption, TcpSystemAssumption, ~Churn, HoldInv, [Next]_vars
  PROVE  HoldInv'
<1>0. TcpInv'
  BY TcpStep DEF HoldInv
<1>1. CASE UNCHANGED vars
  <2>1. UNCHANGED <<brokerVars, clientVars, alive, sock>>
    BY <1>1 DEF vars, netVars
  <2>2. StayInv' /\ HeldInv' /\ DistinctInv'
    BY <2>1, ClientHolds DEF Left, clientVars
  <2> QED BY <1>0, <2>2 DEF HoldInv
<1>2. CASE ClientNext
  BY <1>0, <1>2, ClientLeft, ClientHolds DEF HoldInv
<1>3. CASE BrokerNext
  <2>1. UNCHANGED clientVars
    BY <1>3 DEF BrokerNext
  <2>2. CASE Accept
    BY <1>0, <2>1, <2>2, AcceptHolds DEF HoldInv
  <2>3. CASE Signal
    BY <1>0, <2>1, <2>3, SignalHolds DEF HoldInv
  <2>4. CASE \E c \in Clients : ThreadStep(c)
    BY <1>0, <2>1, <2>4, ThreadStepHolds DEF HoldInv
  <2> QED BY <1>3, <2>2, <2>3, <2>4 DEF BrokerNext
<1> QED BY <1>1, <1>2, <1>3 DEF Next

\* If requests arrive one by one, no SUBSCRIBE is forgotten either.
LEMMA OrderlyStep ==
  ASSUME TcpAssumption, TcpSystemAssumption, OneByOne, ~Churn, OrderlyInv, [Next]_vars
  PROVE  OrderlyInv'
<1>0. HoldInv'
  BY HoldStep DEF OrderlyInv
<1>1. CASE UNCHANGED vars
  <2>1. UNCHANGED <<brokerVars, clientVars, alive, up, open>>
    BY <1>1 DEF vars, netVars
  <2>2. AccountedInv'
    BY <2>1, ClientAccounted DEF clientVars
  <2> QED BY <1>0, <2>2 DEF OrderlyInv
<1>2. CASE ClientNext
  <2>1. UNCHANGED brokerVars
    BY <1>2 DEF ClientNext
  <2>2. ASSUME NEW p \in Publishers, PublisherNext(p) PROVE AccountedInv'
    BY <2>1, <2>2, PublisherAccounted
  <2>3. ASSUME NEW s \in Subscribers, SubscriberNext(s) PROVE AccountedInv'
    BY <2>1, <2>3, SubscriberAccounted, SubSendAccounted DEF SubscriberNext
  <2>4. ASSUME Leave PROVE AccountedInv'
    <3>1. PICK s \in Subscribers : SubLeave(s)
      BY <2>4 DEF Leave, TcpSystemAssumption
    <3> QED BY <2>1, <3>1, SubscriberAccounted
  <2>5. (\E p \in Publishers : PublisherNext(p)) \/ (\E s \in Subscribers : SubscriberNext(s)) \/ Leave
    BY <1>2 DEF ClientNext
  <2>6. AccountedInv'
    BY <2>2, <2>3, <2>4, <2>5
  <2> QED BY <1>0, <2>6 DEF OrderlyInv
<1>3. CASE BrokerNext
  <2>1. UNCHANGED clientVars
    BY <1>3 DEF BrokerNext
  <2>2. CASE Accept
    BY <1>0, <2>1, <2>2, AcceptAccounted DEF OrderlyInv
  <2>3. CASE Signal
    BY <1>0, <2>1, <2>3, SignalAccounted DEF OrderlyInv
  <2>4. ASSUME NEW c \in Clients, ThreadStep(c)
        PROVE  AccountedInv'
    BY <2>1, <2>4, RecvRequestAccounted, RecvEndAccounted, PublishingAccounted,
       LockSubscribeAccounted, UnregisterAccounted DEF ThreadStep
  <2> QED BY <1>0, <1>3, <2>2, <2>3, <2>4 DEF BrokerNext, OrderlyInv
<1> QED BY <1>1, <1>2, <1>3 DEF Next

\* Then the subscriptions whose SUBSCRIBEs have been read are listed.
LEMMA OrderlyListed == ASSUME TcpAssumption, OrderlyInv PROVE SubscribedIsListed
<1> SUFFICES ASSUME NEW s \in Subscribers, alive, sub[s].pc = "listen", s \in open,
                    thread[s].pc = "recv", up[s] = <<>>, NEW t \in Elems(Wants[s])
             PROVE  thread[s].fd \in Elems(topic_subscribers[t])
  BY DEF SubscribedIsListed
<1>1. PICK k \in DOMAIN Wants[s] : t = Wants[s][k]
  BY DEF Elems
<1>2. Wants[s] \in Seq(Topics) /\ sub[s].idx > Len(Wants[s]) /\ sub[s].idx \in Nat
  BY DEF TcpAssumption, OrderlyInv, HoldInv, TcpInv, ProgressInv, TypeOK, ClientTypeOK
<1>3. k < sub[s].idx
  BY <1>2
<1>4. Accounted(s, t)
  BY <1>1, <1>3 DEF OrderlyInv, AccountedInv
<1> QED BY <1>4 DEF Accounted

\* If nobody leaves before all have been accepted, and requests arrive one by
\* one, subscriptions stand: a subscriber whose SUBSCRIBEs have been read is
\* in the list of every match it asked for.  Both conditions are needed: the
\* runs TcpReusedDescriptor and TcpTwoSubscribes drop one each.
THEOREM SubscriptionsStand ==
  ASSUME RecvMax = 1, ~Churn
  PROVE  Spec => []SubscribedIsListed
<1>1. Init => OrderlyInv
  BY OrderlyInit, TcpAssumption
<1>2. OrderlyInv /\ [Next]_vars => OrderlyInv'
  BY OrderlyStep, TcpAssumption, TcpSystemAssumption DEF OneByOne
<1>3. OrderlyInv => SubscribedIsListed
  BY OrderlyListed, TcpAssumption
<1> QED BY <1>1, <1>2, <1>3, PTL DEF Spec
=============================================================================
