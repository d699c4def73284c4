--------------------------- MODULE UdpSystem_proofs ---------------------------
(***************************************************************************)
(* Theorems about UdpSystem for every value of its constants.              *)
(***************************************************************************)
EXTENDS UdpInvariant, FiniteSetTheorems, TLAPS

---------------------------------------------------------------------------
(* Bags, by how often they hold an element. *)

\* A bag counts what it holds.
LEMMA CountIn ==
  ASSUME NEW B, IsABag(B), NEW x
  PROVE  /\ Count(B, x) \in Nat
         /\ BagIn(x, B) <=> Count(B, x) > 0
         /\ BagIn(x, B) <=> x \in BagToSet(B)
  BY DEF IsABag, Count, BagIn, BagToSet

\* The bag of nothing and the bag of one thing.
LEMMA CountSmall ==
  /\ IsABag(EmptyBag)
  /\ \A x : ~BagIn(x, EmptyBag) /\ Count(EmptyBag, x) = 0
  /\ \A d : /\ IsABag(SetToBag({d}))
            /\ BagToSet(SetToBag({d})) = {d}
            /\ \A x : Count(SetToBag({d}), x) = IF x = d THEN 1 ELSE 0
  BY DEF EmptyBag, SetToBag, IsABag, BagToSet, BagIn, Count

\* Putting bags together adds the counts.
LEMMA CountPlus ==
  ASSUME NEW A, NEW B, IsABag(A), IsABag(B)
  PROVE  /\ IsABag(A (+) B)
         /\ BagToSet(A (+) B) = BagToSet(A) \cup BagToSet(B)
         /\ \A x : Count(A (+) B, x) = Count(A, x) + Count(B, x)
<1>1. \A x \in DOMAIN A : A[x] \in Nat /\ A[x] > 0
  BY DEF IsABag
<1>2. \A x \in DOMAIN B : B[x] \in Nat /\ B[x] > 0
  BY DEF IsABag
<1>3. /\ DOMAIN (A (+) B) = DOMAIN A \cup DOMAIN B
      /\ \A x \in DOMAIN A \cup DOMAIN B :
           (A (+) B)[x] = Count(A, x) + Count(B, x)
  BY DEF (+), Count, BagIn, BagToSet
<1>4. A (+) B = [x \in DOMAIN A \cup DOMAIN B |-> (A (+) B)[x]]
  BY DEF (+)
<1>5. \A x \in DOMAIN A \cup DOMAIN B : (A (+) B)[x] \in {n \in Nat : n > 0}
  BY <1>1, <1>2, <1>3 DEF Count, BagIn, BagToSet
<1>6. IsABag(A (+) B)
  BY <1>3, <1>4, <1>5 DEF IsABag
<1>7. \A x : Count(A (+) B, x) = Count(A, x) + Count(B, x)
  BY <1>3 DEF Count, BagIn, BagToSet
<1> QED
  BY <1>3, <1>6, <1>7 DEF BagToSet

\* One thing more.
LEMMA CountAdd ==
  ASSUME NEW A, IsABag(A), NEW d
  PROVE  /\ IsABag(A (+) SetToBag({d}))
         /\ BagToSet(A (+) SetToBag({d})) = BagToSet(A) \cup {d}
         /\ \A x : Count(A (+) SetToBag({d}), x) = Count(A, x) + (IF x = d THEN 1 ELSE 0)
<1> DEFINE B == SetToBag({d})
<1>1. /\ IsABag(B) /\ BagToSet(B) = {d}
      /\ \A x : Count(B, x) = IF x = d THEN 1 ELSE 0
  BY CountSmall
<1> HIDE DEF B
<1>2. /\ IsABag(A (+) B)
      /\ BagToSet(A (+) B) = BagToSet(A) \cup BagToSet(B)
      /\ \A x : Count(A (+) B, x) = Count(A, x) + Count(B, x)
  BY <1>1, CountPlus
<1> QED
  BY <1>1, <1>2 DEF B

\* Taking one copy of d away.
LEMMA CountMinus ==
  ASSUME NEW A, IsABag(A), NEW d, BagIn(d, A)
  PROVE  /\ IsABag(A (-) SetToBag({d}))
         /\ BagToSet(A (-) SetToBag({d})) \subseteq BagToSet(A)
         /\ \A x : Count(A (-) SetToBag({d}), x) = Count(A, x) - (IF x = d THEN 1 ELSE 0)
<1> DEFINE C == A (-) SetToBag({d})
<1>1. \A x \in DOMAIN A : A[x] \in Nat /\ A[x] > 0
  BY DEF IsABag
<1>2. d \in DOMAIN A
  BY DEF BagIn, BagToSet
<1>3. /\ DOMAIN C = {x \in DOMAIN A : A[x] - (IF x = d THEN 1 ELSE 0) > 0}
      /\ \A x \in DOMAIN C : C[x] = A[x] - (IF x = d THEN 1 ELSE 0)
      /\ C = [x \in DOMAIN C |-> C[x]]
  <2> DEFINE D == [x \in DOMAIN A |-> IF x \in {d} THEN A[x] - 1 ELSE A[x]]
  <2>1. C = [x \in {y \in DOMAIN D : D[y] > 0} |-> D[x]]
    BY DEF (-), SetToBag
  <2>2. \A x \in DOMAIN A : D[x] = A[x] - (IF x = d THEN 1 ELSE 0)
    BY <1>1
  <2> HIDE DEF C
  <2> QED
    BY <2>1, <2>2
<1> HIDE DEF C
<1>4. IsABag(C)
  BY <1>1, <1>3 DEF IsABag
<1>5. \A x : Count(C, x) = Count(A, x) - (IF x = d THEN 1 ELSE 0)
  BY <1>1, <1>2, <1>3 DEF Count, BagIn, BagToSet
<1> QED
  BY <1>3, <1>4, <1>5 DEF C, BagToSet

\* The datagrams in gone taken away, every copy.
LEMMA CountRefuse ==
  ASSUME NEW A, IsABag(A), NEW gone
  PROVE  LET C == [x \in BagToSet(A) \ gone |-> A[x]]
         IN  /\ IsABag(C)
             /\ BagToSet(C) \subseteq BagToSet(A)
             /\ \A x : Count(C, x) <= Count(A, x)
  BY DEF IsABag, BagToSet, Count, BagIn

\* The bag of a sequence without repetitions holds each element once.
LEMMA CountList ==
  ASSUME NEW q, \A i, j \in DOMAIN q : q[i] = q[j] => i = j
  PROVE  /\ IsABag(ToBag(q))
         /\ BagToSet(ToBag(q)) = {q[i] : i \in DOMAIN q}
         /\ \A x : Count(ToBag(q), x) <= 1
<1>1. \A i \in DOMAIN q : Cardinality({j \in DOMAIN q : q[j] = q[i]}) = 1
  <2> SUFFICES ASSUME NEW i \in DOMAIN q
               PROVE  Cardinality({j \in DOMAIN q : q[j] = q[i]}) = 1
    OBVIOUS
  <2>1. {j \in DOMAIN q : q[j] = q[i]} = {i}
    OBVIOUS
  <2> QED
    BY <2>1, FS_Singleton
<1>2. /\ DOMAIN ToBag(q) = {q[i] : i \in DOMAIN q}
      /\ \A i \in DOMAIN q : ToBag(q)[q[i]] = Cardinality({j \in DOMAIN q : q[j] = q[i]})
      /\ ToBag(q) = [x \in DOMAIN ToBag(q) |-> ToBag(q)[x]]
  BY DEF ToBag, Range
<1>3. \A x \in DOMAIN ToBag(q) : ToBag(q)[x] = 1
  BY <1>1, <1>2
<1> QED
  BY <1>2, <1>3 DEF IsABag, BagToSet, Count, BagIn

\* What a datagram does to the network when it is received: one copy less, or
\* a repeated one, and the replies are added.
LEMMA Received ==
  ASSUME IsABag(net), copies \in 0..MaxCopies,
         NEW d, NEW out, IsABag(out), Exchange(d, out)
  PROVE  /\ IsABag(net')
         /\ BagToSet(net') \subseteq BagToSet(net) \cup BagToSet(out)
         /\ copies' \in 0..MaxCopies
         /\ \E k \in {0, 1} :
              /\ copies' = copies + k
              /\ \A x : Count(net', x) =
                   Count(net, x) + Count(out, x) - (IF x = d THEN 1 - k ELSE 0)
<1> USE UdpAssumption
<1> DEFINE less == net (-) SetToBag({d})
<1>1. BagIn(d, net)
  BY DEF Exchange
<1>2. /\ IsABag(less)
      /\ BagToSet(less) \subseteq BagToSet(net)
      /\ \A x : Count(less, x) = Count(net, x) - (IF x = d THEN 1 ELSE 0)
  BY <1>1, CountMinus
<1>3. \A x : Count(net, x) \in Nat /\ Count(out, x) \in Nat
  BY CountIn
<1>4. CASE net' = less (+) out /\ UNCHANGED copies
  <2> HIDE DEF less
  <2>1. /\ IsABag(net')
        /\ BagToSet(net') = BagToSet(less) \cup BagToSet(out)
        /\ \A x : Count(net', x) = Count(less, x) + Count(out, x)
    BY <1>2, <1>4, CountPlus
  <2>2. /\ copies' = copies + 0
        /\ \A x : Count(net', x) =
             Count(net, x) + Count(out, x) - (IF x = d THEN 1 - 0 ELSE 0)
    BY <1>2, <1>3, <1>4, <2>1
  <2> QED
    BY <1>2, <1>4, <2>1, <2>2
<1>5. CASE copies < MaxCopies /\ net' = net (+) out /\ copies' = copies + 1
  <2>1. /\ IsABag(net')
        /\ BagToSet(net') = BagToSet(net) \cup BagToSet(out)
        /\ \A x : Count(net', x) = Count(net, x) + Count(out, x)
    BY <1>5, CountPlus
  <2>2. \A x : Count(net', x) =
          Count(net, x) + Count(out, x) - (IF x = d THEN 1 - 1 ELSE 0)
    BY <1>3, <2>1
  <2> QED
    BY <1>5, <2>1, <2>2
<1> QED
  BY <1>4, <1>5 DEF Exchange

\* A datagram that is sent is added to the network.
LEMMA Transmitted ==
  ASSUME IsABag(net), NEW d, Transmit(SetToBag({d}))
  PROVE  /\ IsABag(net')
         /\ BagToSet(net') = BagToSet(net) \cup {d}
         /\ \A x : Count(net', x) = Count(net, x) + (IF x = d THEN 1 ELSE 0)
         /\ copies' = copies
<1>1. net' = net (+) SetToBag({d}) /\ copies' = copies
  BY DEF Transmit
<1>2. /\ IsABag(net (+) SetToBag({d}))
      /\ BagToSet(net (+) SetToBag({d})) = BagToSet(net) \cup {d}
      /\ \A x : Count(net (+) SetToBag({d}), x) = Count(net, x) + (IF x = d THEN 1 ELSE 0)
  BY CountAdd
<1> QED
  BY <1>1, <1>2

\* What refuses or loses datagrams adds none.
LEMMA Fewer ==
  ASSUME IsABag(net), Lose \/ \E gone : Refuse(gone)
  PROVE  /\ IsABag(net')
         /\ BagToSet(net') \subseteq BagToSet(net)
         /\ \A x : Count(net', x) <= Count(net, x)
         /\ copies' = copies
<1>1. CASE Lose
  <2>1. PICK d \in BagToSet(net) : net' = net (-) SetToBag({d})
    BY <1>1 DEF Lose
  <2>2. BagIn(d, net)
    BY <2>1 DEF BagIn
  <2>3. /\ IsABag(net (-) SetToBag({d}))
        /\ BagToSet(net (-) SetToBag({d})) \subseteq BagToSet(net)
        /\ \A x : Count(net (-) SetToBag({d}), x) = Count(net, x) - (IF x = d THEN 1 ELSE 0)
    BY <2>2, CountMinus
  <2>4. \A x : Count(net, x) \in Nat
    BY CountIn
  <2>5. \A x : Count(net', x) <= Count(net, x)
    BY <2>1, <2>3, <2>4
  <2> QED
    BY <1>1, <2>1, <2>3, <2>5 DEF Lose
<1>2. CASE \E gone : Refuse(gone)
  <2>1. PICK gone : Refuse(gone)
    BY <1>2
  <2> DEFINE C == [x \in BagToSet(net) \ gone |-> net[x]]
  <2>2. net' = C /\ copies' = copies
    BY <2>1 DEF Refuse
  <2>3. IsABag(C) /\ BagToSet(C) \subseteq BagToSet(net) /\ \A x : Count(C, x) <= Count(net, x)
    BY CountRefuse
  <2> HIDE DEF C
  <2> QED
    BY <2>2, <2>3
<1> QED
  BY <1>1, <1>2

---------------------------------------------------------------------------
(* Types. *)

\* The datagrams the programs build are datagrams.
LEMMA Built ==
  /\ \A p \in Publishers, n \in 1..NumEvents : Publish(p, n) \in Datagrams
  /\ \A s \in Subscribers, t \in Topics : Subscribe(s, t) \in Datagrams
  /\ \A a \in Addresses, t \in Topics : Confirmation(a, t) \in Datagrams
  /\ \A a \in Addresses, t \in Topics, e \in Events : Update(a, t, e) \in Datagrams
BY UdpAssumption DEF Publish, Subscribe, Confirmation, Update, Datagrams, Event, Events

\* What the four kinds of datagrams carry.
LEMMA DatagramFields ==
  ASSUME NEW d \in Datagrams
  PROVE  /\ d.addr \in Addresses /\ d.topic \in Topics
         /\ d.type \in {"PUBLISH", "update", "SUBSCRIBE", "suscrito"}
         /\ d.type \in {"PUBLISH", "update"} => d.body \in Events
BY DEF Datagrams

\* The match a subscriber is at is one it wants.
LEMMA CurrentMatch ==
  ASSUME ClientTypeOK, NEW s \in Subscribers, sub[s].pc \in {"start", "subscribe", "wait"}
  PROVE  /\ sub[s].idx \in 1..Len(Wants[s]) /\ Len(Wants[s]) \in Nat
         /\ DOMAIN Wants[s] = 1..Len(Wants[s])
         /\ Wants[s][sub[s].idx] \in Topics
         /\ Wants[s][sub[s].idx] \in ToSet(Wants[s])
<1>1. /\ Wants[s] \in Seq(Topics)
      /\ Len(Wants[s]) \in Nat /\ DOMAIN Wants[s] = 1..Len(Wants[s])
  BY UdpAssumption
<1>2. sub[s].idx \in DOMAIN Wants[s]
  BY DEF ClientTypeOK
<1> QED
  BY <1>1, <1>2 DEF ToSet

SubStates == [pc : {"start", "subscribe", "wait", "listen", "end", "down"},
              idx : Nat \ {0}, stop : BOOLEAN]

\* A subscriber that moves on has another match to subscribe to, or none.
LEMMA NextMatchType ==
  ASSUME ClientTypeOK, NEW s \in Subscribers, sub[s].pc \in {"subscribe", "wait"},
         NextMatch(s)
  PROVE  /\ sub' \in [Subscribers -> SubStates]
         /\ \A r \in Subscribers :
              sub'[r].pc \in {"start", "subscribe", "wait"} => sub'[r].idx \in DOMAIN Wants[r]
<1> DEFINE pc == IF sub[s].idx < Len(Wants[s]) THEN "subscribe"
                 ELSE IF sub[s].stop THEN "end" ELSE "listen"
<1>1. /\ sub[s].idx \in 1..Len(Wants[s]) /\ Len(Wants[s]) \in Nat
      /\ DOMAIN Wants[s] = 1..Len(Wants[s])
  BY CurrentMatch
<1>2. sub \in [Subscribers -> SubStates]
  BY DEF ClientTypeOK, SubStates
<1>3. sub' = [sub EXCEPT ![s].idx = @ + 1, ![s].pc = pc]
  BY DEF NextMatch
<1>4. /\ pc \in {"subscribe", "listen", "end"} /\ sub[s].idx + 1 \in Nat \ {0}
      /\ pc = "subscribe" => sub[s].idx + 1 \in DOMAIN Wants[s]
  BY <1>1
<1> HIDE DEF pc
<1>5. sub' \in [Subscribers -> SubStates]
  BY <1>2, <1>3, <1>4 DEF SubStates
<1>6. sub'[s].pc = pc /\ sub'[s].idx = sub[s].idx + 1
  BY <1>2, <1>3 DEF SubStates
<1>7. \A r \in Subscribers \ {s} : sub'[r] = sub[r]
  BY <1>2, <1>3
<1> QED
  BY <1>4, <1>5, <1>6, <1>7 DEF ClientTypeOK

\* Both kinds of announcements are announcements.
LEMMA Announcing ==
  ASSUME NEW t \in Topics
  PROVE  Confirmed(t) \in Announcements /\ Unconfirmed(t) \in Announcements
BY DEF Announcements, Confirmed, Unconfirmed

\* They tell the match and the reservation.
LEMMA Announced ==
  \A t, u : /\ Confirmed(t) = Confirmed(u) => t = u
            /\ Confirmed(t) # Unconfirmed(u)
BY DEF Confirmed, Unconfirmed

\* What is printed keeps its types.
LEMMA PrintedType ==
  ASSUME ClientTypeOK, NEW s \in Subscribers, NEW d \in Datagrams, Printed(s, d)
  PROVE  /\ announced' \in [Subscribers -> SUBSET Announcements]
         /\ DOMAIN shown' = Subscribers
         /\ \A r \in Subscribers : IsABag(shown'[r]) /\ BagToSet(shown'[r]) \subseteq Events
<1> USE DEF ClientTypeOK
<1>1. CASE d.type = "suscrito" /\ UNCHANGED shown
           /\ announced' = [announced EXCEPT ![s] = @ \cup {Confirmed(d.topic)}]
  BY <1>1, DatagramFields, Announcing
<1>2. CASE d.type = "update" /\ UNCHANGED announced
           /\ shown' = [shown EXCEPT ![s] = @ (+) SetToBag({d.body})]
  <2>1. d.body \in Events
    BY <1>2, DatagramFields
  <2>2. /\ IsABag(shown[s] (+) SetToBag({d.body}))
        /\ BagToSet(shown[s] (+) SetToBag({d.body})) = BagToSet(shown[s]) \cup {d.body}
    BY CountAdd
  <2>3. /\ DOMAIN shown' = Subscribers
        /\ shown'[s] = shown[s] (+) SetToBag({d.body})
        /\ \A r \in Subscribers \ {s} : shown'[r] = shown[r]
    BY <1>2
  <2> QED
    BY <1>2, <2>1, <2>2, <2>3
<1> QED
  BY <1>1, <1>2 DEF Printed

\* The three things that happen to the network keep it a bag of datagrams.
LEMMA NetType ==
  ASSUME NetTypeOK
  PROVE  /\ \A d, out : Exchange(d, out) /\ IsABag(out) /\ BagToSet(out) \subseteq Datagrams
                          => NetTypeOK'
         /\ \A d \in Datagrams : Transmit(SetToBag({d})) => NetTypeOK'
         /\ Lose \/ (\E gone : Refuse(gone)) => NetTypeOK'
         /\ UNCHANGED netVars => NetTypeOK'
<1> USE DEF NetTypeOK
<1>1. \A d, out : Exchange(d, out) /\ IsABag(out) /\ BagToSet(out) \subseteq Datagrams
        => NetTypeOK'
  BY Received
<1>2. ASSUME NEW d \in Datagrams, Transmit(SetToBag({d}))
      PROVE  NetTypeOK'
  <2>1. IsABag(net') /\ BagToSet(net') = BagToSet(net) \cup {d} /\ copies' = copies
    BY <1>2, Transmitted
  <2> QED
    BY <2>1
<1>3. Lose \/ (\E gone : Refuse(gone)) => NetTypeOK'
  BY Fewer
<1>4. UNCHANGED netVars => NetTypeOK'
  BY DEF netVars
<1> QED
  BY <1>1, <1>2, <1>3, <1>4

\* Every publisher step keeps the types.
LEMMA PublisherType ==
  ASSUME NetTypeOK, ClientTypeOK, PublisherNext
  PROVE  NetTypeOK' /\ ClientTypeOK'
<1>1. ASSUME NEW p \in Publishers, PubSend(p)
      PROVE  NetTypeOK' /\ ClientTypeOK'
  <2>1. pub[p].seq \in 1..NumEvents /\ NumEvents \in Nat
    BY <1>1, UdpAssumption DEF PubSend, ClientTypeOK
  <2>2. NetTypeOK'
    BY <1>1, <2>1, Built, NetType DEF PubSend
  <2> DEFINE next == [pc |-> IF pub[p].seq = NumEvents THEN "done" ELSE "send",
                      seq |-> pub[p].seq + 1]
  <2>3. pub' = [pub EXCEPT ![p] = next]
    BY <1>1 DEF PubSend
  <2>4. /\ next \in [pc : {"send", "done"}, seq : 1..(NumEvents + 1)]
        /\ next.pc = "send" => next.seq \in 1..NumEvents
    BY <2>1
  <2> HIDE DEF next
  <2>5. /\ pub' \in [Publishers -> [pc : {"send", "done"}, seq : 1..(NumEvents + 1)]]
        /\ \A q \in Publishers : pub'[q].pc = "send" => pub'[q].seq \in 1..NumEvents
    BY <2>3, <2>4 DEF ClientTypeOK
  <2> QED
    BY <1>1, <2>2, <2>5 DEF PubSend, ClientTypeOK
<1>2. ASSUME NEW p \in Publishers, PubBreak(p)
      PROVE  NetTypeOK' /\ ClientTypeOK'
  <2>1. NetTypeOK'
    BY <1>2, NetType DEF PubBreak
  <2>2. pub' = [pub EXCEPT ![p].pc = "done"]
    BY <1>2 DEF PubBreak
  <2>3. /\ pub' \in [Publishers -> [pc : {"send", "done"}, seq : 1..(NumEvents + 1)]]
        /\ \A q \in Publishers : pub'[q].pc = "send" => pub'[q].seq \in 1..NumEvents
    BY <2>2 DEF ClientTypeOK
  <2> QED
    BY <1>2, <2>1, <2>3 DEF PubBreak, ClientTypeOK
<1> QED
  BY <1>1, <1>2 DEF PublisherNext

\* A change of pc and stop that leaves nobody subscribing past its matches.
LEMMA SubMoves ==
  ASSUME ClientTypeOK, NEW s \in Subscribers, NEW pc, NEW stop \in BOOLEAN,
         pc \in {"listen", "end", "down"} \/ (sub[s].pc \in {"start", "subscribe", "wait"}
                                             /\ pc \in {"subscribe", "wait"}),
         sub' = [sub EXCEPT ![s].pc = pc] \/ sub' = [sub EXCEPT ![s].stop = stop]
  PROVE  /\ sub' \in [Subscribers -> SubStates]
         /\ \A r \in Subscribers :
              sub'[r].pc \in {"start", "subscribe", "wait"} => sub'[r].idx \in DOMAIN Wants[r]
<1>1. sub \in [Subscribers -> SubStates]
  BY DEF ClientTypeOK, SubStates
<1>2. \A r \in Subscribers \ {s} : sub'[r] = sub[r]
  BY <1>1
<1>3. CASE sub' = [sub EXCEPT ![s].pc = pc]
  <2>1. sub'[s].pc = pc /\ sub'[s].idx = sub[s].idx
    BY <1>1, <1>3 DEF SubStates
  <2> QED
    BY <1>1, <1>2, <1>3, <2>1 DEF ClientTypeOK, SubStates
<1>4. CASE sub' = [sub EXCEPT ![s].stop = stop]
  <2>1. sub'[s].pc = sub[s].pc /\ sub'[s].idx = sub[s].idx
    BY <1>1, <1>4 DEF SubStates
  <2> QED
    BY <1>1, <1>2, <1>4, <2>1 DEF ClientTypeOK, SubStates
<1> QED
  BY <1>3, <1>4

\* Every subscriber step keeps the types.
LEMMA SubscriberType ==
  ASSUME NetTypeOK, ClientTypeOK, SubscriberNext
  PROVE  NetTypeOK' /\ ClientTypeOK'
<1> DEFINE SubOK == /\ sub' \in [Subscribers -> SubStates]
                    /\ \A r \in Subscribers :
                         sub'[r].pc \in {"start", "subscribe", "wait"} =>
                           sub'[r].idx \in DOMAIN Wants[r]
           AnnouncedOK == announced' \in [Subscribers -> SUBSET Announcements]
<1>1. ASSUME NEW s \in Subscribers, SubBind(s)
      PROVE  NetTypeOK' /\ SubOK /\ UNCHANGED <<pub, announced, shown>>
  BY <1>1, NetType, SubMoves DEF SubBind
<1>2. ASSUME NEW s \in Subscribers, SubSend(s)
      PROVE  NetTypeOK' /\ SubOK /\ UNCHANGED <<pub, announced, shown>>
  <2>1. Subscribe(s, Wants[s][sub[s].idx]) \in Datagrams
    BY <1>2, CurrentMatch, Built DEF SubSend
  <2> QED
    BY <1>2, <2>1, NetType, SubMoves DEF SubSend
<1>3. ASSUME NEW s \in Subscribers, SubSendFails(s)
      PROVE  NetTypeOK' /\ SubOK /\ UNCHANGED <<pub, announced, shown>>
  BY <1>3, NetType, NextMatchType DEF SubSendFails
<1>8. ASSUME NEW s \in Subscribers, SubTimeout(s)
      PROVE  NetTypeOK' /\ SubOK /\ AnnouncedOK /\ UNCHANGED <<pub, shown>>
  <2>1. Wants[s][sub[s].idx] \in Topics
    BY <1>8, CurrentMatch DEF SubTimeout
  <2>2. AnnouncedOK
    BY <1>8, <2>1, Announcing DEF SubTimeout, ClientTypeOK
  <2> QED
    BY <1>8, <2>2, NetType, NextMatchType DEF SubTimeout
<1>4. ASSUME NEW s \in Subscribers, SubSignal(s) \/ SubClose(s)
      PROVE  NetTypeOK' /\ SubOK /\ UNCHANGED <<pub, announced, shown>>
  BY <1>4, NetType, SubMoves DEF SubSignal, SubClose
<1>5. ASSUME NEW s \in Subscribers, NEW d \in BagToSet(net), SubReply(s, d) \/ SubRead(s, d)
      PROVE  NetTypeOK' /\ SubOK /\ Printed(s, d) /\ UNCHANGED pub
  <2>1. NetTypeOK'
    <3>1. IsABag(EmptyBag) /\ BagToSet(EmptyBag) \subseteq Datagrams
      BY CountSmall DEF BagIn
    <3> QED
      BY <1>5, <3>1, NetType DEF SubReply, SubRead
  <2>2. CASE SubReply(s, d)
    BY <2>1, <2>2, NextMatchType DEF SubReply
  <2>3. CASE SubRead(s, d)
    BY <2>1, <2>3, SubMoves DEF SubRead
  <2> QED
    BY <1>5, <2>2, <2>3
<1>6. CASE \E s \in Subscribers, d \in BagToSet(net) : SubReply(s, d) \/ SubRead(s, d)
  <2>1. PICK s \in Subscribers, d \in BagToSet(net) : SubReply(s, d) \/ SubRead(s, d)
    BY <1>6
  <2>2. d \in Datagrams
    BY DEF NetTypeOK
  <2> QED
    BY <1>5, <2>1, <2>2, PrintedType DEF ClientTypeOK, SubStates
<1>7. CASE ~ \E s \in Subscribers, d \in BagToSet(net) : SubReply(s, d) \/ SubRead(s, d)
  <2>1. NetTypeOK' /\ SubOK /\ AnnouncedOK /\ UNCHANGED <<pub, shown>>
    BY <1>1, <1>2, <1>3, <1>4, <1>7, <1>8, UdpSystemAssumption
       DEF SubscriberNext, SubStep, ClientTypeOK
  <2> QED
    BY <2>1 DEF ClientTypeOK, SubStates
<1> QED
  BY <1>6, <1>7

---------------------------------------------------------------------------
(* The broker's lists. *)

\* Elements and repetitions of a list that got one more address.
LEMMA ListAppend ==
  ASSUME NEW S, NEW q \in Seq(S), NEW a \in S
  PROVE  /\ Append(q, a) \in Seq(S)
         /\ ToSet(Append(q, a)) = ToSet(q) \cup {a}
         /\ /\ \A i, j \in DOMAIN q : q[i] = q[j] => i = j
            /\ a \notin ToSet(q)
            => \A i, j \in DOMAIN Append(q, a) : Append(q, a)[i] = Append(q, a)[j] => i = j
<1>1. /\ Len(q) \in Nat /\ DOMAIN q = 1..Len(q)
      /\ DOMAIN Append(q, a) = 1..(Len(q) + 1)
      /\ \A i \in 1..Len(q) : Append(q, a)[i] = q[i]
      /\ Append(q, a)[Len(q) + 1] = a
  OBVIOUS
<1>2. \A i \in 1..(Len(q) + 1) : i \in 1..Len(q) \/ i = Len(q) + 1
  BY <1>1
<1>3. a \notin ToSet(q) => \A i \in 1..Len(q) : q[i] # a
  BY <1>1 DEF ToSet
<1>4. ToSet(Append(q, a)) = ToSet(q) \cup {a}
  BY <1>1, <1>2 DEF ToSet
<1>5. /\ \A i, j \in DOMAIN q : q[i] = q[j] => i = j
      /\ a \notin ToSet(q)
      => \A i, j \in DOMAIN Append(q, a) : Append(q, a)[i] = Append(q, a)[j] => i = j
  BY <1>1, <1>2, <1>3
<1> QED
  BY <1>4, <1>5

\* The updates of a PUBLISH: one for every address listed for its match.
LEMMA UpdatesBag ==
  ASSUME TypeOK, ListInv, NEW d \in Datagrams, d.type = "PUBLISH"
  PROVE  /\ IsABag(Updates(d))
         /\ BagToSet(Updates(d)) =
              {Update(a, d.topic, d.body) : a \in ToSet(topic_subscribers[d.topic])}
         /\ BagToSet(Updates(d)) \subseteq Datagrams
         /\ \A x : Count(Updates(d), x) <= 1
<1> DEFINE list == topic_subscribers[d.topic]
           q == [i \in DOMAIN list |-> Update(list[i], d.topic, d.body)]
<1>1. /\ d.topic \in Topics /\ d.body \in Events
      /\ list \in Seq(Addresses)
      /\ \A i, j \in DOMAIN list : list[i] = list[j] => i = j
  BY DatagramFields DEF TypeOK, BrokerTypeOK, ListInv
<1>2. DOMAIN q = DOMAIN list /\ \A i \in DOMAIN list : q[i].addr = list[i]
  BY DEF Update
<1>3. \A i, j \in DOMAIN q : q[i] = q[j] => i = j
  <2> HIDE DEF q, list
  <2> SUFFICES ASSUME NEW i \in DOMAIN q, NEW j \in DOMAIN q, q[i] = q[j] PROVE i = j
    OBVIOUS
  <2>1. list[i] = list[j]
    BY <1>2
  <2> QED
    BY <1>1, <1>2, <2>1
<1>4. /\ IsABag(ToBag(q)) /\ BagToSet(ToBag(q)) = {q[i] : i \in DOMAIN q}
      /\ \A x : Count(ToBag(q), x) <= 1
  <2> HIDE DEF q
  <2> QED
    BY <1>3, CountList
<1>5. {q[i] : i \in DOMAIN q} = {Update(a, d.topic, d.body) : a \in ToSet(list)}
  <2>1. DOMAIN q = DOMAIN list /\ \A i \in DOMAIN list : q[i] = Update(list[i], d.topic, d.body)
    OBVIOUS
  <2> HIDE DEF q, list
  <2> QED
    BY <2>1 DEF ToSet
<1>6. \A a \in ToSet(list) : a \in Addresses
  BY <1>1 DEF ToSet
<1>7. \A a \in ToSet(list) : Update(a, d.topic, d.body) \in Datagrams
  BY <1>1, <1>6, Built
<1> QED
  BY <1>4, <1>5, <1>7 DEF Updates

\* Every broker step keeps the types.
LEMMA BrokerType ==
  ASSUME TypeOK, ListInv, BrokerNext
  PROVE  NetTypeOK' /\ BrokerTypeOK'
<1> USE DEF TypeOK
<1>1. LoopOn => alive' \in BOOLEAN /\ server_running' \in BOOLEAN /\ restarts' \in 0..MaxRestarts
  BY DEF LoopOn, BrokerTypeOK
<1>2. ASSUME NEW d \in BagToSet(net), RecvPublish(d)
      PROVE  NetTypeOK' /\ BrokerTypeOK'
  <2>1. d \in Datagrams /\ d.type = "PUBLISH"
    BY <1>2 DEF NetTypeOK, RecvPublish
  <2>2. NetTypeOK'
    BY <1>2, <2>1, UpdatesBag, NetType DEF RecvPublish
  <2> QED
    BY <1>1, <1>2, <2>2 DEF RecvPublish, BrokerTypeOK
<1>3. ASSUME NEW d \in BagToSet(net), RecvSubscribe(d)
      PROVE  NetTypeOK' /\ BrokerTypeOK'
  <2>1. d \in Datagrams /\ d.addr \in Addresses /\ d.topic \in Topics
    BY DatagramFields DEF NetTypeOK
  <2>2. NetTypeOK'
    <3>1. IsABag(EmptyBag) /\ BagToSet(EmptyBag) \subseteq Datagrams
      BY CountSmall DEF BagIn
    <3>2. /\ IsABag(SetToBag({Confirmation(d.addr, d.topic)}))
          /\ BagToSet(SetToBag({Confirmation(d.addr, d.topic)})) \subseteq Datagrams
      <4> DEFINE c == Confirmation(d.addr, d.topic)
      <4>1. c \in Datagrams
        BY <2>1, Built
      <4> HIDE DEF c
      <4>2. IsABag(SetToBag({c})) /\ BagToSet(SetToBag({c})) = {c}
        BY CountSmall
      <4>3. IsABag(SetToBag({c})) /\ BagToSet(SetToBag({c})) \subseteq Datagrams
        BY <4>1, <4>2
      <4> QED
        BY <4>3 DEF c
    <3>3. \/ Exchange(d, EmptyBag)
          \/ Exchange(d, SetToBag({Confirmation(d.addr, d.topic)}))
      BY <1>3 DEF RecvSubscribe
    <3>4. CASE Exchange(d, EmptyBag)
      BY <3>1, <3>4, NetType
    <3>5. CASE Exchange(d, SetToBag({Confirmation(d.addr, d.topic)}))
      BY <3>2, <3>5, NetType
    <3> QED
      BY <3>3, <3>4, <3>5
  <2>3. topic_subscribers' \in [Topics -> Seq(Addresses)]
    <3>1. topic_subscribers[d.topic] \in Seq(Addresses)
      BY <2>1 DEF BrokerTypeOK
    <3>2. Append(topic_subscribers[d.topic], d.addr) \in Seq(Addresses)
      BY <2>1, <3>1, ListAppend
    <3>3. \/ UNCHANGED topic_subscribers
          \/ topic_subscribers' = [topic_subscribers EXCEPT
                 ![d.topic] = Append(topic_subscribers[d.topic], d.addr)]
      BY <1>3 DEF RecvSubscribe
    <3> QED
      BY <3>2, <3>3 DEF BrokerTypeOK
  <2> QED
    BY <1>1, <1>3, <2>2, <2>3 DEF RecvSubscribe, BrokerTypeOK
<1>4. ASSUME Signal \/ Stop
      PROVE  NetTypeOK' /\ BrokerTypeOK'
  BY <1>4, NetType DEF Signal, Stop, BrokerTypeOK
<1>5. ASSUME Restart
      PROVE  NetTypeOK' /\ BrokerTypeOK'
  <2>1. NetTypeOK'
    BY <1>5, NetType DEF Restart
  <2>2. restarts' \in 0..MaxRestarts
    BY <1>5, RestartAssumption DEF Restart, BrokerTypeOK
  <2> QED
    BY <1>5, <2>1, <2>2 DEF Restart, BrokerTypeOK
<1> QED
  BY <1>2, <1>3, <1>4, <1>5 DEF BrokerNext, BrokerStep

\* No address is listed that did not ask, and none twice.
LEMMA ListStep ==
  ASSUME TypeOK, NetInv, ListInv, BrokerNext
  PROVE  ListInv'
<1> USE DEF TypeOK
<1>1. ASSUME NEW d \in BagToSet(net), RecvSubscribe(d)
      PROVE  ListInv'
  <2>1. d.addr \in Addresses /\ d.topic \in Topics /\ Asked(d.addr, d.topic)
    BY <1>1, DatagramFields DEF NetTypeOK, NetInv, DatagramOK, RecvSubscribe
  <2>2. CASE UNCHANGED topic_subscribers
    BY <2>2 DEF ListInv
  <2>3. CASE /\ d.addr \notin ToSet(topic_subscribers[d.topic])
             /\ topic_subscribers' = [topic_subscribers EXCEPT ![d.topic] = Append(@, d.addr)]
    <3> DEFINE old == topic_subscribers[d.topic]
               new == topic_subscribers'[d.topic]
    <3>1. old \in Seq(Addresses) /\ new = Append(old, d.addr)
      BY <2>1, <2>3 DEF BrokerTypeOK
    <3>2. /\ \A i, j \in DOMAIN old : old[i] = old[j] => i = j
          /\ \A a \in ToSet(old) : Asked(a, d.topic)
      BY <2>1 DEF ListInv
    <3>3. /\ \A i, j \in DOMAIN new : new[i] = new[j] => i = j
          /\ ToSet(new) = ToSet(old) \cup {d.addr}
      BY <2>1, <2>3, <3>1, <3>2, ListAppend
    <3>4. \A t \in Topics \ {d.topic} : topic_subscribers'[t] = topic_subscribers[t]
      BY <2>1, <2>3 DEF BrokerTypeOK
    <3> HIDE DEF old, new
    <3>5. \A a \in ToSet(new) : Asked(a, d.topic)
      BY <2>1, <3>2, <3>3
    <3> USE DEF new
    <3> QED
      BY <3>3, <3>4, <3>5 DEF ListInv
  <2> QED
    BY <1>1, <2>2, <2>3 DEF RecvSubscribe
<1>2. CASE Restart
  BY <1>2 DEF Restart, ListInv, ToSet
<1>3. CASE Signal \/ Stop \/ \E d \in BagToSet(net) : RecvPublish(d)
  BY <1>3 DEF Signal, Stop, RecvPublish, ListInv
<1> QED
  BY <1>1, <1>2, <1>3 DEF BrokerNext, BrokerStep

---------------------------------------------------------------------------
(* What the rest of the invariant needs of a step.                         *)

\* A record of the four fields is determined by them.
LEMMA DatagramIs ==
  ASSUME NEW d \in Datagrams
  PROVE  d = [type |-> d.type, addr |-> d.addr, topic |-> d.topic, body |-> d.body]
BY DEF Datagrams

\* The datagrams in the network stay truthful when no event is unsent, nobody
\* is taken off a list before a restart, and what is added is truthful.
LEMMA NetKept ==
  ASSUME NetTypeOK, NetInv, Sent \subseteq Sent',
         restarts' = 0 => restarts = 0,
         restarts' = 0 => \A a, t : t \in Topics /\ Listed(a, t) => Listed(a, t)',
         \A d \in BagToSet(net') : d \in BagToSet(net) \/ DatagramOK(d)'
  PROVE  NetInv'
<1> SUFFICES ASSUME NEW d \in BagToSet(net) PROVE DatagramOK(d)'
  BY DEF NetInv
<1>1. DatagramOK(d) /\ d.topic \in Topics
  BY DatagramFields DEF NetInv, NetTypeOK
<1> QED
  BY <1>1 DEF DatagramOK, Asked

\* Nobody is taken off a list before a restart.
LEMMA ListsGrow ==
  ASSUME TypeOK, BrokerNext, restarts' = restarts
  PROVE  \A a, t : t \in Topics /\ Listed(a, t) => Listed(a, t)'
<1> USE DEF TypeOK
<1>1. ASSUME NEW d \in BagToSet(net), RecvSubscribe(d)
      PROVE  \A a, t : t \in Topics /\ Listed(a, t) => Listed(a, t)'
  <2>1. d.topic \in Topics /\ d.addr \in Addresses
    BY DatagramFields DEF NetTypeOK
  <2>2. /\ topic_subscribers[d.topic] \in Seq(Addresses)
        /\ ToSet(Append(topic_subscribers[d.topic], d.addr))
             = ToSet(topic_subscribers[d.topic]) \cup {d.addr}
    BY <2>1, ListAppend DEF BrokerTypeOK
  <2> QED
    BY <1>1, <2>1, <2>2 DEF RecvSubscribe, Listed, BrokerTypeOK
<1>2. CASE Signal \/ Stop \/ \E d \in BagToSet(net) : RecvPublish(d)
  BY <1>2 DEF Signal, Stop, RecvPublish, Listed
<1>3. ~Restart
  BY DEF Restart, BrokerTypeOK
<1> QED
  BY <1>1, <1>2, <1>3 DEF BrokerNext, BrokerStep

\* Datagrams of different kinds, or of different events, differ.
LEMMA Differ ==
  /\ \A p, n, q, m : Publish(p, n) = Publish(q, m) => p = q /\ n = m
  /\ \A p, n, s, e : Publish(p, n) # News(s, e)
  /\ \A p, n, s, t, u : Publish(p, n) # Subscribe(s, t) /\ Publish(p, n) # Confirmation(s, u)
  /\ \A s, e, r, t, u : News(s, e) # Subscribe(r, t) /\ News(s, e) # Confirmation(r, u)
<1>1. \A p, n : Publish(p, n).type = "PUBLISH" /\ Publish(p, n).body = <<p, n>>
  BY DEF Publish, Event
<1>2. \A s, e : News(s, e).type = "update"
  BY DEF News, Update
<1>3. \A s, t : Subscribe(s, t).type = "SUBSCRIBE" /\ Confirmation(s, t).type = "suscrito"
  BY DEF Subscribe, Confirmation
<1> QED
  BY <1>1, <1>2, <1>3

\* An event that was not sent is nowhere.
LEMMA UnsentIsNowhere ==
  ASSUME NetTypeOK, ClientTypeOK, NetInv, ShownInv, NEW e \in Events, e \notin Sent,
         NEW s \in Subscribers
  PROVE  /\ Count(net, Publish(e[1], e[2])) = 0
         /\ Count(net, News(s, e)) = 0
         /\ Count(shown[s], e) = 0
<1>1. \A d \in BagToSet(net) : d.type \in {"PUBLISH", "update"} => d.body \in Sent
  BY DEF NetInv, DatagramOK
<1>2. Publish(e[1], e[2]).type = "PUBLISH" /\ Publish(e[1], e[2]).body = e
  BY DEF Publish, Event, Events
<1>3. News(s, e).type = "update" /\ News(s, e).body = e
  BY DEF News, Update
<1> QED
  BY <1>1, <1>2, <1>3 DEF Count, BagIn, ShownInv

---------------------------------------------------------------------------
(* The rest of the invariant, one program at a time. *)

TruthInv == NetInv /\ ShownInv /\ CountInv /\ ConfirmedIsRegistered

\* Sent grows by the event a publisher sends and does not change otherwise.
LEMMA SentGrows ==
  ASSUME ClientTypeOK
  PROVE  /\ \A p \in Publishers : PubSend(p) =>
              /\ Event(p, pub[p].seq) \in Events /\ Event(p, pub[p].seq) \notin Sent
              /\ Sent' = Sent \cup {Event(p, pub[p].seq)}
         /\ \A p \in Publishers : PubBreak(p) => Sent' = Sent
         /\ UNCHANGED pub => Sent' = Sent
<1>1. ASSUME NEW p \in Publishers, PubSend(p)
      PROVE  /\ Event(p, pub[p].seq) \in Events /\ Event(p, pub[p].seq) \notin Sent
             /\ Sent' = Sent \cup {Event(p, pub[p].seq)}
  <2>1. /\ pub[p].seq \in 1..NumEvents
        /\ \A q \in Publishers : pub[q].seq \in 1..(NumEvents + 1)
    BY <1>1 DEF PubSend, ClientTypeOK
  <2>2. /\ pub'[p].seq = pub[p].seq + 1
        /\ \A q \in Publishers \ {p} : pub'[q] = pub[q]
    BY <1>1 DEF PubSend, ClientTypeOK
  <2>3. \A e \in Events : e = <<e[1], e[2]>> /\ e[1] \in Publishers /\ e[2] \in 1..NumEvents
    BY DEF Events
  <2>4. \A e \in Events : e[2] < pub'[e[1]].seq <=>
                            e[2] < pub[e[1]].seq \/ (e[1] = p /\ e[2] = pub[p].seq)
    <3> SUFFICES ASSUME NEW e \in Events
                 PROVE  e[2] < pub'[e[1]].seq <=>
                          e[2] < pub[e[1]].seq \/ (e[1] = p /\ e[2] = pub[p].seq)
      OBVIOUS
    <3>1. CASE e[1] = p
      BY <2>1, <2>2, <2>3, <3>1
    <3>2. CASE e[1] # p
      BY <2>2, <2>3, <3>2
    <3> QED
      BY <3>1, <3>2
  <2>5. Event(p, pub[p].seq) \in Events
    BY <2>1 DEF Event, Events
  <2> QED
    BY <2>1, <2>3, <2>4, <2>5 DEF Sent, Event
<1>2. ASSUME NEW p \in Publishers, PubBreak(p)
      PROVE  Sent' = Sent
  <2>1. \A q \in Publishers : pub'[q].seq = pub[q].seq
    BY <1>2 DEF PubBreak, ClientTypeOK
  <2>2. \A e \in Events : e[1] \in Publishers
    BY DEF Events
  <2> QED
    BY <2>1, <2>2 DEF Sent
<1>3. UNCHANGED pub => Sent' = Sent
  BY DEF Sent
<1> QED
  BY <1>1, <1>2, <1>3

\* Publishers: a new event is on its way, once.
LEMMA TruthPublisher ==
  ASSUME TypeOK, TruthInv, PublisherNext
  PROVE  TruthInv'
<1> USE DEF TypeOK, TruthInv
<1>1. UNCHANGED <<sub, announced, shown, alive, server_running, topic_subscribers, restarts>>
  BY DEF PublisherNext, PubSend, PubBreak, brokerVars
<1>2. ConfirmedIsRegistered'
  BY <1>1 DEF ConfirmedIsRegistered, Listed
<1>3. Sent \subseteq Sent'
  BY SentGrows DEF PublisherNext
<1>4. ShownInv'
  BY <1>1, <1>3 DEF ShownInv
<1>5. ASSUME NEW p \in Publishers, PubSend(p)
      PROVE  NetInv' /\ CountInv'
  <2>0. PICK n : n = pub[p].seq
    OBVIOUS
  <2> DEFINE e == Event(p, n)
             d == Publish(p, n)
  <2>1. e \in Events /\ e \notin Sent /\ Sent' = Sent \cup {e}
    BY <1>5, <2>0, SentGrows
  <2>2. /\ IsABag(net)
        /\ Transmit(SetToBag({d}))
    BY <1>5, <2>0 DEF PubSend, NetTypeOK
  <2>3. /\ BagToSet(net') = BagToSet(net) \cup {d}
        /\ \A x : Count(net', x) = Count(net, x) + (IF x = d THEN 1 ELSE 0)
        /\ copies' = copies
    BY <2>2, Transmitted
  <2>4. /\ d.type = "PUBLISH" /\ d.body = e /\ e[1] = p /\ e[2] = n
        /\ d = Publish(e[1], e[2])
    BY DEF Publish, Event
  <2> HIDE DEF e, d
  <2>5. DatagramOK(d)'
    BY <2>1, <2>4 DEF DatagramOK
  <2>6. NetInv'
    <3>1. \A a, t : t \in Topics /\ Listed(a, t) => Listed(a, t)'
      BY <1>1 DEF Listed
    <3>2. \A x \in BagToSet(net') : x \in BagToSet(net) \/ DatagramOK(x)'
      BY <2>3, <2>5
    <3> QED
      BY <1>1, <1>3, <3>1, <3>2, NetKept
  <2>7. ASSUME NEW s \in Subscribers, NEW f \in Sent'
        PROVE  Count(net, Publish(f[1], f[2]))' + Count(net, News(s, f))'
                 + Count(shown[s], f)' <= 1 + copies'
    <3>1. Count(net', News(s, f)) = Count(net, News(s, f))
      <4>1. News(s, f) # d
        BY <2>4, Differ
      <4>2. Count(net, News(s, f)) \in Nat
        BY <2>2, CountIn
      <4> QED
        BY <2>3, <4>1, <4>2
    <3>2. Count(shown'[s], f) = Count(shown[s], f) /\ copies \in Nat
      BY <1>1 DEF NetTypeOK
    <3>3. CASE f = e
      <4>1. /\ Count(net, Publish(f[1], f[2])) = 0
            /\ Count(net, News(s, f)) = 0 /\ Count(shown[s], f) = 0
        BY <2>1, <3>3, UnsentIsNowhere
      <4>2. Count(net', Publish(f[1], f[2])) = 1
        BY <2>3, <2>4, <3>3, <4>1
      <4> QED
        BY <2>3, <3>1, <3>2, <4>1, <4>2
    <3>4. CASE f # e
      <4>1. f \in Sent /\ f \in Events
        BY <2>1, <3>4 DEF Sent
      <4>2. Publish(f[1], f[2]) # d
        <5>1. f = <<f[1], f[2]>> /\ e = <<e[1], e[2]>>
          BY <2>1, <4>1 DEF Events
        <5> QED
          BY <2>4, <3>4, <5>1, Differ
      <4>3. Count(net', Publish(f[1], f[2])) = Count(net, Publish(f[1], f[2])) + 0
        BY <2>3, <4>2
      <4>4. Count(net, Publish(f[1], f[2])) \in Nat
        BY <2>2, CountIn
      <4> QED
        BY <2>3, <3>1, <3>2, <4>1, <4>3, <4>4 DEF CountInv
    <3> QED
      BY <3>3, <3>4
  <2>8. CountInv'
    BY <2>7 DEF CountInv
  <2> QED
    BY <2>6, <2>8
<1>6. ASSUME NEW p \in Publishers, PubBreak(p)
      PROVE  NetInv' /\ CountInv'
  <2>1. net' = net /\ copies' = copies /\ Sent' = Sent
    BY <1>6, SentGrows DEF PubBreak, netVars
  <2> QED
    BY <1>1, <2>1 DEF NetInv, DatagramOK, Listed, Asked, CountInv, Publish, News
<1> QED
  BY <1>2, <1>4, <1>5, <1>6 DEF PublisherNext

\* Nothing is sent more often by a step that adds no event to the network.
LEMMA CountKept ==
  ASSUME TypeOK, CountInv, Sent' = Sent, UNCHANGED <<shown, copies>>,
         IsABag(net'),
         \A s \in Subscribers, e \in Sent :
           /\ Count(net', Publish(e[1], e[2])) <= Count(net, Publish(e[1], e[2]))
           /\ Count(net', News(s, e)) <= Count(net, News(s, e))
  PROVE  CountInv'
<1>1. IsABag(net) /\ copies \in Nat /\ \A s \in Subscribers : IsABag(shown[s])
  BY DEF TypeOK, NetTypeOK, ClientTypeOK
<1>2. ASSUME NEW s \in Subscribers, NEW e \in Sent
      PROVE  Count(net', Publish(e[1], e[2])) + Count(net', News(s, e))
               + Count(shown[s], e) <= 1 + copies
  <2>1. /\ Count(net, Publish(e[1], e[2])) \in Nat /\ Count(net, News(s, e)) \in Nat
        /\ Count(net', Publish(e[1], e[2])) \in Nat /\ Count(net', News(s, e)) \in Nat
        /\ Count(shown[s], e) \in Nat
    BY <1>1, CountIn
  <2>2. Count(net, Publish(e[1], e[2])) + Count(net, News(s, e)) + Count(shown[s], e)
          <= 1 + copies
    BY DEF CountInv
  <2> QED
    BY <1>1, <2>1, <2>2
<1> QED
  BY <1>2 DEF CountInv, Publish, News

\* The datagram a subscriber reads, and what it prints of it.
LEMMA TruthPrinted ==
  ASSUME TypeOK, TruthInv, UNCHANGED <<pub, brokerVars>>,
         NEW s \in Subscribers, NEW d \in BagToSet(net),
         ToClient(AddrOf[s], d), Exchange(d, EmptyBag), Printed(s, d)
  PROVE  TruthInv'
<1> USE DEF TypeOK, TruthInv
<1>1. Sent' = Sent
  BY SentGrows
<1>2. PICK k \in {0, 1} :
        /\ IsABag(net')
        /\ BagToSet(net') \subseteq BagToSet(net) \cup BagToSet(EmptyBag)
        /\ copies' = copies + k
        /\ \A x : Count(net', x) =
             Count(net, x) + Count(EmptyBag, x) - (IF x = d THEN 1 - k ELSE 0)
  BY CountSmall, Received DEF NetTypeOK
<1>3. IsABag(net) /\ copies \in Nat /\ d \in Datagrams
  BY DEF NetTypeOK
<1>4. /\ \A x : Count(net, x) \in Nat
      /\ \A x : Count(net', x) = Count(net, x) - (IF x = d THEN 1 - k ELSE 0)
  <2>1. \A x : Count(net, x) \in Nat /\ Count(EmptyBag, x) = 0
    BY <1>3, CountIn, CountSmall
  <2> QED
    BY <1>2, <2>1
<1>5. DatagramOK(d) /\ d.addr = AddrOf[s] /\ d.type # "PUBLISH" /\ d.topic \in Topics
  BY <1>3, DatagramFields DEF NetInv, ToClient, ToBroker
<1>6. NetInv'
  <2>1. BagToSet(net') \subseteq BagToSet(net)
    BY <1>2, CountSmall DEF BagIn
  <2>2. \A a, t : t \in Topics /\ Listed(a, t) => Listed(a, t)'
    BY DEF brokerVars, Listed
  <2> QED
    BY <1>1, <2>1, <2>2, NetKept DEF brokerVars
<1>7. \A x : Count(net', x) <= Count(net, x)
  BY <1>4
<1>8. CASE /\ d.type = "suscrito" /\ UNCHANGED shown
           /\ announced' = [announced EXCEPT ![s] = @ \cup {Confirmed(d.topic)}]
  <2>1. ConfirmedIsRegistered'
    BY <1>5, <1>8, Announced
       DEF ConfirmedIsRegistered, DatagramOK, Listed, brokerVars, ClientTypeOK
  <2>2. ShownInv'
    BY <1>1, <1>8 DEF ShownInv
  <2>3. \A r \in Subscribers, e \in Sent :
          Count(net', Publish(e[1], e[2])) + Count(net', News(r, e)) + Count(shown[r], e)
            <= 1 + copies'
    <3> SUFFICES ASSUME NEW r \in Subscribers, NEW e \in Sent
                 PROVE  Count(net', Publish(e[1], e[2])) + Count(net', News(r, e))
                          + Count(shown[r], e) <= 1 + copies'
      OBVIOUS
    <3>1. Count(shown[r], e) \in Nat /\ k \in Nat
      BY CountIn DEF ClientTypeOK
    <3>2. Count(net, Publish(e[1], e[2])) + Count(net, News(r, e)) + Count(shown[r], e)
            <= 1 + copies
      BY DEF CountInv
    <3>3. Publish(e[1], e[2]) # d /\ News(r, e) # d
      BY <1>8 DEF Publish, News, Update
    <3>4. /\ Count(net', Publish(e[1], e[2])) = Count(net, Publish(e[1], e[2])) - 0
          /\ Count(net', News(r, e)) = Count(net, News(r, e)) - 0
      BY <1>4, <3>3
    <3>5. Count(net, Publish(e[1], e[2])) \in Nat /\ Count(net, News(r, e)) \in Nat
      BY <1>4
    <3> QED
      BY <1>2, <1>3, <3>1, <3>2, <3>4, <3>5
  <2>4. CountInv'
    BY <1>1, <1>8, <2>3 DEF CountInv, Publish, News
  <2> QED
    BY <1>6, <2>1, <2>2, <2>4
<1>9. CASE /\ d.type = "update" /\ UNCHANGED announced
           /\ shown' = [shown EXCEPT ![s] = @ (+) SetToBag({d.body})]
  <2> DEFINE e == d.body
  <2>1. /\ e \in Sent /\ e \in Events /\ d.topic = TopicOf[e[1]]
        /\ Asked(d.addr, d.topic)
    BY <1>5, <1>9 DEF DatagramOK, Sent
  <2>2. d = News(s, e)
    BY <1>3, <1>5, <1>9, <2>1, DatagramIs DEF News, Update
  <2>3. e \in AskedFor[s]
    BY <1>5, <2>1 DEF AskedFor, Asked
  <2> HIDE DEF e
  <2>4. /\ shown'[s] = shown[s] (+) SetToBag({e})
        /\ \A r \in Subscribers \ {s} : shown'[r] = shown[r]
        /\ \A r \in Subscribers : IsABag(shown[r])
    BY <1>9 DEF ClientTypeOK, e
  <2>5. /\ BagToSet(shown'[s]) = BagToSet(shown[s]) \cup {e}
        /\ \A x : Count(shown'[s], x) = Count(shown[s], x) + (IF x = e THEN 1 ELSE 0)
    <3>1. /\ BagToSet(shown[s] (+) SetToBag({e})) = BagToSet(shown[s]) \cup {e}
          /\ \A x : Count(shown[s] (+) SetToBag({e}), x)
                      = Count(shown[s], x) + (IF x = e THEN 1 ELSE 0)
      BY <2>4, CountAdd
    <3> QED
      BY <2>4, <3>1
  <2>6. ConfirmedIsRegistered'
    BY <1>9 DEF ConfirmedIsRegistered, Listed, brokerVars
  <2>7. ShownInv'
    BY <1>1, <2>1, <2>3, <2>4, <2>5 DEF ShownInv
  <2>8. ASSUME NEW r \in Subscribers, NEW f \in Sent
        PROVE  Count(net', Publish(f[1], f[2])) + Count(net', News(r, f)) + Count(shown'[r], f)
                 <= 1 + copies'
    <3>1. /\ Count(net, Publish(f[1], f[2])) \in Nat /\ Count(net, News(r, f)) \in Nat
          /\ Count(shown[r], f) \in Nat
      BY <1>4, <2>4, CountIn
    <3>2. Count(net, Publish(f[1], f[2])) + Count(net, News(r, f)) + Count(shown[r], f)
            <= 1 + copies
      BY DEF CountInv
    <3>3. Count(net', Publish(f[1], f[2])) = Count(net, Publish(f[1], f[2])) - 0
      BY <1>4, <2>2, Differ
    <3>4. CASE r = s /\ f = e
      <4>1. Count(net', News(r, f)) = Count(net, News(r, f)) - (1 - k)
        BY <1>4, <2>2, <3>4
      <4>2. Count(shown'[r], f) = Count(shown[r], f) + 1
        BY <2>5, <3>4
      <4> QED
        BY <1>2, <1>3, <3>1, <3>2, <3>3, <4>1, <4>2
    <3>5. CASE r # s \/ f # e
      <4>1. Count(net', News(r, f)) <= Count(net, News(r, f))
        BY <1>7
      <4>2. Count(shown'[r], f) = Count(shown[r], f) + 0
        <5>1. CASE r = s
          BY <2>5, <3>5, <5>1
        <5>2. CASE r # s
          BY <2>4, <3>1, <5>2
        <5> QED
          BY <5>1, <5>2
      <4>3. Count(net', News(r, f)) \in Nat
        BY <1>2, CountIn
      <4> QED
        BY <1>2, <1>3, <3>1, <3>2, <3>3, <4>1, <4>2, <4>3
    <3> QED
      BY <3>4, <3>5
  <2>9. CountInv'
    BY <1>1, <2>8 DEF CountInv, Publish, News
  <2> QED
    BY <1>6, <2>6, <2>7, <2>9
<1> QED
  BY <1>8, <1>9 DEF Printed

\* Steps that print no event and no reply, and put no event on the network.
LEMMA TruthStill ==
  ASSUME TypeOK, TruthInv, UNCHANGED <<pub, shown, brokerVars>>,
         \A s \in Subscribers, t \in Topics :
           Confirmed(t) \in announced'[s] => Confirmed(t) \in announced[s],
         Lose \/ (\E gone : Refuse(gone)) \/ UNCHANGED netVars
  PROVE  TruthInv'
<1> USE DEF TypeOK, TruthInv
<1>1. Sent' = Sent
  BY SentGrows
<1>2. IsABag(net) /\ \A x : Count(net, x) \in Nat
  BY CountIn DEF NetTypeOK
<1>3. /\ IsABag(net') /\ BagToSet(net') \subseteq BagToSet(net)
      /\ \A x : Count(net', x) <= Count(net, x)
      /\ copies' = copies
  <2>1. CASE UNCHANGED netVars
    BY <1>2, <2>1 DEF netVars
  <2>2. CASE Lose \/ (\E gone : Refuse(gone))
    BY <1>2, <2>2, Fewer
  <2> QED
    BY <2>1, <2>2
<1>4. NetInv'
  <2>1. \A a, t : t \in Topics /\ Listed(a, t) => Listed(a, t)'
    BY DEF brokerVars, Listed
  <2> QED
    BY <1>1, <1>3, <2>1, NetKept DEF brokerVars
<1>5. CountInv'
  BY <1>1, <1>3, CountKept
<1>6. ShownInv' /\ ConfirmedIsRegistered'
  BY <1>1 DEF ShownInv, ConfirmedIsRegistered, Listed, brokerVars
<1> QED
  BY <1>4, <1>5, <1>6

\* Subscribers: they ask for what they want, and print what they are sent.
LEMMA TruthSubscriber ==
  ASSUME TypeOK, TruthInv, SubscriberNext
  PROVE  TruthInv'
<1> USE DEF TypeOK, TruthInv
<1>1. ASSUME NEW s \in Subscribers,
             SubBind(s) \/ SubSendFails(s) \/ SubTimeout(s) \/ SubClose(s) \/ SubSignal(s)
      PROVE  TruthInv'
  <2>1. UNCHANGED <<pub, shown, brokerVars>>
    BY <1>1 DEF SubscriberNext, SubBind, SubSendFails, SubTimeout, SubClose, SubSignal
  <2>3. \A r \in Subscribers, t \in Topics :
          Confirmed(t) \in announced'[r] => Confirmed(t) \in announced[r]
    BY <1>1, Announced DEF SubBind, SubSendFails, SubTimeout, SubClose, SubSignal,
                           ClientTypeOK
  <2>2. (\E gone : Refuse(gone)) \/ UNCHANGED netVars
    BY <1>1 DEF SubBind, SubSendFails, SubTimeout, SubClose, SubSignal
  <2> QED
    BY <2>1, <2>2, <2>3, TruthStill
<1>2. ASSUME NEW s \in Subscribers, SubSend(s)
      PROVE  TruthInv'
  <2>0. PICK d : d = Subscribe(s, Wants[s][sub[s].idx])
    OBVIOUS
  <2>1. IsABag(net) /\ Transmit(SetToBag({d})) /\ UNCHANGED <<pub, announced, shown, brokerVars>>
    BY <1>2, <2>0 DEF SubSend, NetTypeOK, SubscriberNext
  <2>2. /\ IsABag(net') /\ BagToSet(net') = BagToSet(net) \cup {d}
        /\ \A x : Count(net', x) = Count(net, x) + (IF x = d THEN 1 ELSE 0)
        /\ copies' = copies
    BY <2>1, Transmitted
  <2>3. Sent' = Sent
    BY <2>1, SentGrows
  <2>4. NetInv'
    <3>1. Wants[s][sub[s].idx] \in ToSet(Wants[s])
      BY <1>2, CurrentMatch DEF SubSend
    <3>2. d.type = "SUBSCRIBE" /\ Asked(d.addr, d.topic)
      BY <2>0, <3>1 DEF Subscribe, Asked
    <3>3. DatagramOK(d)'
      BY <3>2 DEF DatagramOK, Asked
    <3>4. \A a, t : t \in Topics /\ Listed(a, t) => Listed(a, t)'
      BY <2>1 DEF brokerVars, Listed
    <3>5. \A x \in BagToSet(net') : x \in BagToSet(net) \/ DatagramOK(x)'
      BY <2>2, <3>3
    <3> QED
      BY <2>1, <2>3, <3>4, <3>5, NetKept DEF brokerVars
  <2>5. CountInv'
    <3>1. \A x : Count(net, x) \in Nat
      BY <2>1, CountIn
    <3>2. \A r \in Subscribers, e \in Sent : Publish(e[1], e[2]) # d /\ News(r, e) # d
      BY <2>0, Differ
    <3>3. \A r \in Subscribers, e \in Sent :
            /\ Count(net', Publish(e[1], e[2])) <= Count(net, Publish(e[1], e[2]))
            /\ Count(net', News(r, e)) <= Count(net, News(r, e))
      BY <2>2, <3>1, <3>2
    <3> QED
      BY <2>1, <2>2, <2>3, <3>3, CountKept
  <2>6. ShownInv' /\ ConfirmedIsRegistered'
    BY <2>1, <2>3 DEF ShownInv, ConfirmedIsRegistered, Listed, brokerVars
  <2> QED
    BY <2>4, <2>5, <2>6
<1>3. ASSUME NEW s \in Subscribers, NEW d \in BagToSet(net), SubReply(s, d) \/ SubRead(s, d)
      PROVE  TruthInv'
  BY <1>3, TruthPrinted DEF SubReply, SubRead, SubscriberNext
<1> QED
  BY <1>1, <1>2, <1>3, UdpSystemAssumption DEF SubscriberNext, SubStep

\* Broker, PUBLISH: the event leaves for every listed address, once for each
\* time the broker is handed it.
LEMMA TruthPublish ==
  ASSUME TypeOK, TruthInv, ListInv, UNCHANGED clientVars,
         NEW d \in BagToSet(net), RecvPublish(d)
  PROVE  NetInv' /\ CountInv'
<1> USE DEF TypeOK, TruthInv
<1>1. Sent' = Sent /\ UNCHANGED <<topic_subscribers, restarts>>
  BY SentGrows DEF clientVars, RecvPublish, LoopOn
<1>2. /\ IsABag(net) /\ copies \in Nat /\ copies \in 0..MaxCopies /\ d \in Datagrams
      /\ d.type = "PUBLISH" /\ d.topic \in Topics /\ d.body \in Sent
      /\ d = Publish(d.body[1], d.body[2])
  BY DatagramFields DEF NetTypeOK, RecvPublish, NetInv, DatagramOK
<1>3. PICK out : out = Updates(d)
  OBVIOUS
<1>4. /\ IsABag(out)
      /\ BagToSet(out) =
           {Update(a, d.topic, d.body) : a \in ToSet(topic_subscribers[d.topic])}
      /\ \A x : Count(out, x) <= 1
  BY <1>2, <1>3, UpdatesBag
<1>5. PICK k \in {0, 1} :
        /\ IsABag(net')
        /\ BagToSet(net') \subseteq BagToSet(net) \cup BagToSet(out)
        /\ copies' = copies + k
        /\ \A x : Count(net', x) =
             Count(net, x) + Count(out, x) - (IF x = d THEN 1 - k ELSE 0)
  BY <1>2, <1>3, <1>4, Received DEF RecvPublish
<1>6. \A x \in BagToSet(out) :
        /\ x.type = "update" /\ x.topic = d.topic /\ x.body = d.body
        /\ Asked(x.addr, x.topic)
  BY <1>2, <1>4 DEF Update, ListInv
<1>7. NetInv'
  <2>1. \A a, t : t \in Topics /\ Listed(a, t) => Listed(a, t)'
    BY <1>1 DEF Listed
  <2>2. d.topic = TopicOf[d.body[1]]
    <3>1. Publish(d.body[1], d.body[2]).topic = TopicOf[d.body[1]]
      BY DEF Publish
    <3> QED
      BY <1>2, <3>1
  <2>3. \A x \in BagToSet(out) : DatagramOK(x)'
    BY <1>1, <1>2, <1>6, <2>2 DEF DatagramOK, Asked
  <2>4. \A x \in BagToSet(net') : x \in BagToSet(net) \/ DatagramOK(x)'
    BY <1>5, <2>3
  <2> QED
    BY <1>1, <2>1, <2>4, NetKept
<1>8. ASSUME NEW s \in Subscribers, NEW e \in Sent
      PROVE  Count(net', Publish(e[1], e[2])) + Count(net', News(s, e)) + Count(shown[s], e)
               <= 1 + copies'
  <2>1. /\ Count(net, Publish(e[1], e[2])) \in Nat /\ Count(net, News(s, e)) \in Nat
        /\ Count(shown[s], e) \in Nat /\ Count(out, News(s, e)) \in Nat
    BY <1>2, <1>4, CountIn DEF ClientTypeOK
  <2>2. Count(net, Publish(e[1], e[2])) + Count(net, News(s, e)) + Count(shown[s], e)
          <= 1 + copies
    BY DEF CountInv
  <2>3. Count(out, Publish(e[1], e[2])) = 0
    <3>1. Publish(e[1], e[2]).type = "PUBLISH"
      BY DEF Publish
    <3> QED
      BY <1>4, <1>6, <3>1, CountIn DEF Count
  <2>4. News(s, e) # d
    BY <1>2, Differ
  <2>5. Count(net', News(s, e)) = Count(net, News(s, e)) + Count(out, News(s, e)) - 0
    BY <1>5, <2>4
  <2>6. CASE e = d.body
    <3>1. Count(net', Publish(e[1], e[2])) = Count(net, Publish(e[1], e[2])) + 0 - (1 - k)
      BY <1>2, <1>5, <2>3, <2>6
    <3>2. Count(out, News(s, e)) <= 1
      BY <1>4
    <3> QED
      BY <1>2, <1>5, <2>1, <2>2, <2>5, <3>1, <3>2
  <2>7. CASE e # d.body
    <3>1. e = <<e[1], e[2]>> /\ d.body = <<d.body[1], d.body[2]>>
      BY <1>2 DEF Sent, Events
    <3>2. Publish(e[1], e[2]) # d
      BY <1>2, <2>7, <3>1, Differ
    <3>3. Count(net', Publish(e[1], e[2])) = Count(net, Publish(e[1], e[2])) + 0 - 0
      BY <1>5, <2>3, <3>2
    <3>4. News(s, e).body = e
      BY DEF News, Update
    <3>5. Count(out, News(s, e)) = 0
      BY <1>4, <1>6, <2>7, <3>4, CountIn DEF Count
    <3> QED
      BY <1>2, <1>5, <2>1, <2>2, <2>5, <3>3, <3>5
  <2> QED
    BY <2>6, <2>7
<1>9. CountInv'
  <2>1. shown' = shown
    BY DEF clientVars
  <2> QED
    BY <1>1, <1>8, <2>1 DEF CountInv, Publish, News
<1> QED
  BY <1>7, <1>9

\* Broker, SUBSCRIBE: who is confirmed is listed.
LEMMA TruthSubscribe ==
  ASSUME TypeOK, TruthInv, ListInv, UNCHANGED clientVars,
         NEW d \in BagToSet(net), RecvSubscribe(d)
  PROVE  NetInv' /\ CountInv'
<1> USE DEF TypeOK, TruthInv
<1>1. Sent' = Sent /\ UNCHANGED restarts
  BY SentGrows DEF clientVars, RecvSubscribe, LoopOn
<1>2. /\ IsABag(net) /\ copies \in Nat /\ copies \in 0..MaxCopies /\ d \in Datagrams
      /\ d.topic \in Topics /\ d.addr \in Addresses /\ Asked(d.addr, d.topic)
  BY DatagramFields DEF NetTypeOK, RecvSubscribe, NetInv, DatagramOK
<1>3. PICK c : c = Confirmation(d.addr, d.topic)
  OBVIOUS
<1>4. PICK out : /\ out = EmptyBag \/ (out = SetToBag({c}) /\ Listed(d.addr, d.topic)')
                 /\ Exchange(d, out)
  <2>1. CASE Exchange(d, EmptyBag)
    BY <2>1
  <2>2. CASE /\ Exchange(d, SetToBag({c}))
             /\ topic_subscribers' = [topic_subscribers EXCEPT ![d.topic] = Append(@, d.addr)]
    <3>1. /\ topic_subscribers[d.topic] \in Seq(Addresses)
          /\ d.addr \in ToSet(Append(topic_subscribers[d.topic], d.addr))
      BY <1>2, ListAppend DEF BrokerTypeOK
    <3>2. Listed(d.addr, d.topic)'
      BY <1>2, <2>2, <3>1 DEF Listed, BrokerTypeOK
    <3> QED
      BY <2>2, <3>2
  <2> QED
    BY <1>3, <2>1, <2>2 DEF RecvSubscribe
<1>5. /\ IsABag(out) /\ BagToSet(out) \subseteq {c}
      /\ BagToSet(out) = {} \/ Listed(d.addr, d.topic)'
      /\ \A x : Count(out, x) = 0 \/ x = c
  <2>1. CASE out = EmptyBag
    BY <2>1, CountSmall DEF BagIn
  <2>2. CASE out = SetToBag({c}) /\ Listed(d.addr, d.topic)'
    <3>1. /\ IsABag(SetToBag({c})) /\ BagToSet(SetToBag({c})) = {c}
          /\ \A x : Count(SetToBag({c}), x) = IF x = c THEN 1 ELSE 0
      BY CountSmall
    <3> QED
      BY <2>2, <3>1
  <2> QED
    BY <1>4, <2>1, <2>2
<1>6. PICK k \in {0, 1} :
        /\ IsABag(net')
        /\ BagToSet(net') \subseteq BagToSet(net) \cup BagToSet(out)
        /\ copies' = copies + k
        /\ \A x : Count(net', x) =
             Count(net, x) + Count(out, x) - (IF x = d THEN 1 - k ELSE 0)
  BY <1>2, <1>4, <1>5, Received
<1>7. NetInv'
  <2>1. \A a, t : t \in Topics /\ Listed(a, t) => Listed(a, t)'
    <3>1. BrokerNext
      BY DEF BrokerNext, BrokerStep
    <3> QED
      BY <1>1, <3>1, ListsGrow
  <2>2. c.type = "suscrito" /\ c.addr = d.addr /\ c.topic = d.topic
    BY <1>3 DEF Confirmation
  <2>3. Listed(d.addr, d.topic)' => DatagramOK(c)'
    <3>1. ASSUME Listed(d.addr, d.topic)' PROVE DatagramOK(c)'
      <4>1. Listed(c.addr, c.topic)' /\ Asked(c.addr, c.topic)'
        BY <1>2, <2>2, <3>1 DEF Asked
      <4> QED
        BY <2>2, <4>1 DEF DatagramOK
    <3> QED
      BY <3>1
  <2>4. \A x \in BagToSet(net') : x \in BagToSet(net) \/ DatagramOK(x)'
    BY <1>5, <1>6, <2>3
  <2> QED
    BY <1>1, <2>1, <2>4, NetKept
<1>8. ASSUME NEW s \in Subscribers, NEW e \in Sent
      PROVE  Count(net', Publish(e[1], e[2])) + Count(net', News(s, e)) + Count(shown[s], e)
               <= 1 + copies'
  <2>1. /\ Count(net, Publish(e[1], e[2])) \in Nat /\ Count(net, News(s, e)) \in Nat
        /\ Count(shown[s], e) \in Nat
    BY <1>2, CountIn DEF ClientTypeOK
  <2>2. Count(net, Publish(e[1], e[2])) + Count(net, News(s, e)) + Count(shown[s], e)
          <= 1 + copies
    BY DEF CountInv
  <2>3. /\ Count(out, Publish(e[1], e[2])) = 0 /\ Count(out, News(s, e)) = 0
        /\ Publish(e[1], e[2]) # d /\ News(s, e) # d
    <3>1. d.type = "SUBSCRIBE"
      BY DEF RecvSubscribe
    <3>2. Publish(e[1], e[2]).type = "PUBLISH" /\ News(s, e).type = "update"
      BY DEF Publish, News, Update
    <3> QED
      BY <1>3, <1>5, <3>1, <3>2, Differ
  <2>4. /\ Count(net', Publish(e[1], e[2])) = Count(net, Publish(e[1], e[2])) + 0 - 0
        /\ Count(net', News(s, e)) = Count(net, News(s, e)) + 0 - 0
    BY <1>6, <2>3
  <2> QED
    BY <1>2, <1>6, <2>1, <2>2, <2>4
<1>9. CountInv'
  <2>1. shown' = shown
    BY DEF clientVars
  <2> QED
    BY <1>1, <1>8, <2>1 DEF CountInv, Publish, News
<1> QED
  BY <1>7, <1>9

\* Broker: the rest; a restart empties the lists and is counted.
LEMMA TruthBroker ==
  ASSUME TypeOK, TruthInv, ListInv, BrokerNext
  PROVE  TruthInv'
<1> USE DEF TypeOK, TruthInv
<1>1. UNCHANGED <<pub, sub, announced, shown>> /\ UNCHANGED clientVars /\ Sent' = Sent
  BY SentGrows DEF BrokerNext, clientVars
<1>2. ShownInv'
  BY <1>1 DEF ShownInv
<1>3. restarts \in Nat
  BY RestartAssumption DEF BrokerTypeOK
<1>4. CASE restarts' = restarts
  <2>1. \A a, t : t \in Topics /\ Listed(a, t) => Listed(a, t)'
    BY <1>4, ListsGrow
  <2>2. ConfirmedIsRegistered'
    BY <1>1, <1>4, <2>1 DEF ConfirmedIsRegistered, ClientTypeOK
  <2>3. ~Restart
    BY <1>3, <1>4 DEF Restart
  <2>4. CASE Signal \/ Stop
    <3>1. net' = net /\ copies' = copies /\ UNCHANGED <<topic_subscribers, restarts>>
      BY <2>4 DEF Signal, Stop, netVars
    <3>2. NetInv'
      BY <1>1, <3>1 DEF NetInv, DatagramOK, Listed, Asked
    <3>3. CountInv'
      BY <1>1, <3>1 DEF CountInv, Publish, News
    <3> QED
      BY <1>2, <2>2, <3>2, <3>3
  <2>5. CASE \E d \in BagToSet(net) : RecvPublish(d) \/ RecvSubscribe(d)
    BY <1>1, <1>2, <2>2, <2>5, TruthPublish, TruthSubscribe
  <2> QED
    BY <2>3, <2>4, <2>5 DEF BrokerNext, BrokerStep
<1>5. CASE Restart
  <2>1. restarts' # 0 /\ \E gone : Refuse(gone)
    BY <1>3, <1>5 DEF Restart
  <2>2. ConfirmedIsRegistered'
    BY <2>1 DEF ConfirmedIsRegistered
  <2>3. /\ IsABag(net') /\ BagToSet(net') \subseteq BagToSet(net)
        /\ \A x : Count(net', x) <= Count(net, x)
        /\ copies' = copies
    BY <2>1, Fewer DEF NetTypeOK
  <2>4. NetInv'
    BY <1>1, <2>1, <2>3, NetKept
  <2>5. CountInv'
    BY <1>1, <2>3, CountKept
  <2> QED
    BY <1>2, <2>2, <2>4, <2>5
<1> QED
  BY <1>4, <1>5 DEF BrokerNext, BrokerStep, RecvPublish, RecvSubscribe, Signal, Stop, LoopOn

---------------------------------------------------------------------------
(* The invariant is inductive. *)

\* Nothing has happened: no datagrams, no lists, nothing printed.
LEMMA UdpInit == Init => UdpInv
<1> SUFFICES ASSUME Init PROVE UdpInv
  OBVIOUS
<1> USE DEF Init, NetInit, ClientInit, BrokerInit
<1>1. /\ IsABag(EmptyBag) /\ BagToSet(EmptyBag) = {}
      /\ \A x : Count(EmptyBag, x) = 0
  BY CountSmall DEF BagIn
<1>2. TypeOK
  <2>1. NetTypeOK
    BY <1>1, UdpAssumption DEF NetTypeOK
  <2>2. \A s \in Subscribers : 1 \in DOMAIN Wants[s]
    <3> SUFFICES ASSUME NEW s \in Subscribers PROVE 1 \in DOMAIN Wants[s]
      OBVIOUS
    <3>1. Wants[s] \in Seq(Topics) /\ Wants[s] # <<>>
      BY UdpAssumption
    <3>2. Len(Wants[s]) \in Nat /\ Len(Wants[s]) # 0 /\ DOMAIN Wants[s] = 1..Len(Wants[s])
      BY <3>1
    <3> QED
      BY <3>2
  <2>3. ClientTypeOK
    BY <1>1, <2>2, UdpAssumption DEF ClientTypeOK
  <2>4. BrokerTypeOK
    BY RestartAssumption DEF BrokerTypeOK
  <2> QED
    BY <2>1, <2>3, <2>4 DEF TypeOK
<1>3. NetInv /\ ShownInv
  BY <1>1 DEF NetInv, ShownInv
<1>4. ListInv /\ ConfirmedIsRegistered
  BY DEF ListInv, ConfirmedIsRegistered, ToSet
<1>5. CountInv
  BY <1>1 DEF CountInv
<1> QED
  BY <1>2, <1>3, <1>4, <1>5 DEF UdpInv

\* A step that changes nothing.
LEMMA UdpStutter == UdpInv /\ UNCHANGED vars => UdpInv'
<1> SUFFICES ASSUME UdpInv, UNCHANGED vars PROVE UdpInv'
  OBVIOUS
<1> USE DEF UdpInv, vars, netVars, clientVars, brokerVars
<1>1. TypeOK'
  BY DEF TypeOK, NetTypeOK, ClientTypeOK, BrokerTypeOK
<1>2. Sent' = Sent
  BY DEF Sent
<1>3. NetInv'
  BY <1>2 DEF NetInv, DatagramOK, Listed, Asked
<1>4. ListInv' /\ ShownInv' /\ ConfirmedIsRegistered'
  BY <1>2 DEF ListInv, ShownInv, ConfirmedIsRegistered, Listed, Asked
<1>5. CountInv'
  BY <1>2 DEF CountInv, Publish, News
<1> QED
  BY <1>1, <1>3, <1>4, <1>5

\* No step of any program or of the network breaks it.
LEMMA UdpStep == UdpInv /\ [Next]_vars => UdpInv'
<1> SUFFICES ASSUME UdpInv, [Next]_vars PROVE UdpInv'
  OBVIOUS
<1>0. TypeOK /\ TruthInv /\ ListInv /\ NetTypeOK /\ ClientTypeOK /\ BrokerTypeOK
  BY DEF UdpInv, TruthInv, TypeOK
<1>1. CASE PublisherNext
  <2>1. NetTypeOK' /\ ClientTypeOK' /\ TruthInv'
    BY <1>0, <1>1, PublisherType, TruthPublisher
  <2>2. BrokerTypeOK' /\ ListInv'
    BY <1>0, <1>1 DEF PublisherNext, brokerVars, BrokerTypeOK, ListInv
  <2> QED
    BY <2>1, <2>2 DEF UdpInv, TypeOK, TruthInv
<1>2. CASE SubscriberNext
  <2>1. NetTypeOK' /\ ClientTypeOK' /\ TruthInv'
    BY <1>0, <1>2, SubscriberType, TruthSubscriber
  <2>2. BrokerTypeOK' /\ ListInv'
    BY <1>0, <1>2 DEF SubscriberNext, brokerVars, BrokerTypeOK, ListInv
  <2> QED
    BY <2>1, <2>2 DEF UdpInv, TypeOK, TruthInv
<1>3. CASE BrokerNext
  <2>1. NetTypeOK' /\ BrokerTypeOK' /\ TruthInv'
    BY <1>0, <1>3, BrokerType, TruthBroker
  <2>2. ListInv'
    BY <1>0, <1>3, ListStep DEF TruthInv
  <2>3. ClientTypeOK'
    BY <1>0, <1>3 DEF BrokerNext, clientVars, ClientTypeOK
  <2> QED
    BY <2>1, <2>2, <2>3 DEF UdpInv, TypeOK, TruthInv
<1>4. CASE NetworkNext
  <2>1. UNCHANGED <<pub, sub, announced, shown, brokerVars>> /\ Lose
    BY <1>4 DEF NetworkNext, clientVars
  <2>2. NetTypeOK' /\ TruthInv'
    BY <1>0, <2>1, NetType, TruthStill
  <2>3. ClientTypeOK' /\ BrokerTypeOK' /\ ListInv'
    BY <1>0, <2>1 DEF brokerVars, ClientTypeOK, BrokerTypeOK, ListInv
  <2> QED
    BY <2>2, <2>3 DEF UdpInv, TypeOK, TruthInv
<1> QED
  BY <1>1, <1>2, <1>3, <1>4, UdpStutter DEF Next

LEMMA UdpAlways == Spec => []UdpInv
<1>1. Init => UdpInv
  BY UdpInit
<1>2. UdpInv /\ [Next]_vars => UdpInv'
  BY UdpStep
<1> QED
  BY <1>1, <1>2, PTL DEF Spec

---------------------------------------------------------------------------
(* The theorems. *)

\* The types of the UDP programs' state and of the datagrams between them.
THEOREM UdpTypeCorrect == Spec => []TypeOK
<1>1. UdpInv => TypeOK
  BY DEF UdpInv
<1> QED
  BY <1>1, UdpAlways, PTL

\* Until the broker is started again, a match a subscriber announced without
\* "(sin confirmacion)" has the subscriber's address in its list, whatever
\* wait the reply fell into and whoever had the port before.
THEOREM UdpConfirmationIsTrue == Spec => []ConfirmedIsRegistered
<1>1. UdpInv => ConfirmedIsRegistered
  BY DEF UdpInv
<1> QED
  BY <1>1, UdpAlways, PTL

---------------------------------------------------------------------------
(* Refinement. *)

\* What a subscriber prints of a datagram is a delivery of the abstract system.
LEMMA PrintedIsDelivery ==
  ASSUME UdpInv, UNCHANGED <<pub, brokerVars>>,
         NEW s \in Subscribers, NEW d \in BagToSet(net),
         ToClient(AddrOf[s], d), Exchange(d, EmptyBag), Printed(s, d)
  PROVE  Effort!Delivery
<1> USE DEF UdpInv, TypeOK
<1>1. Sent' = Sent
  BY SentGrows
<1>2. copies' \in {copies, copies + 1}
  BY DEF Exchange
<1>3. IsABag(net) /\ copies \in Nat /\ d \in Datagrams /\ BagIn(d, net)
  BY DEF NetTypeOK, Exchange
<1>4. CASE d.type = "suscrito" /\ UNCHANGED shown
  BY <1>1, <1>2, <1>4 DEF Effort!Delivery
<1>5. CASE /\ d.type = "update"
           /\ shown' = [shown EXCEPT ![s] = @ (+) SetToBag({d.body})]
  <2>1. PICK e : e = d.body
    OBVIOUS
  <2>2. /\ e \in Sent /\ d.topic = TopicOf[e[1]] /\ Asked(AddrOf[s], d.topic)
        /\ d.addr = AddrOf[s] /\ e \in Events
    BY <1>3, <1>5, <2>1 DEF NetInv, DatagramOK, ToClient, Sent
  <2>3. e \in AskedFor[s]
    BY <2>2 DEF AskedFor, Asked
  <2>4. d = News(s, e)
    BY <1>3, <1>5, <2>1, <2>2, DatagramIs DEF News, Update
  <2>5. BagIn(e, shown[s]) => shown[s][e] <= copies
    <3>1. /\ Count(net, Publish(e[1], e[2])) \in Nat /\ Count(net, News(s, e)) \in Nat
          /\ Count(net, News(s, e)) > 0 /\ Count(shown[s], e) \in Nat
      BY <1>3, <2>4, CountIn DEF ClientTypeOK
    <3>2. Count(net, Publish(e[1], e[2])) + Count(net, News(s, e)) + Count(shown[s], e)
            <= 1 + copies
      BY <2>2 DEF CountInv
    <3>3. Count(shown[s], e) <= copies
      BY <1>3, <3>1, <3>2
    <3> QED
      BY <3>3 DEF Count
  <2>6. shown' = [shown EXCEPT ![s] = @ (+) SetToBag({e})]
    BY <1>5, <2>1
  <2>7. Effort!Show(s)
    <3>1. \A B, x : Effort!(+)(B, Effort!SetToBag({x})) = B (+) SetToBag({x})
      BY DEF Effort!(+), Effort!SetToBag, Effort!BagToSet, Effort!BagIn,
             (+), SetToBag, BagToSet, BagIn
    <3>2. \A B, x : Effort!BagIn(x, B) <=> BagIn(x, B)
      BY DEF Effort!BagIn, Effort!BagToSet, BagIn, BagToSet
    <3> QED
      BY <2>2, <2>3, <2>5, <2>6, <3>1, <3>2 DEF Effort!Show
  <2> QED
    BY <1>1, <1>2, <2>7 DEF Effort!Delivery
<1> QED
  BY <1>4, <1>5 DEF Printed

\* Every step is a step of the abstract system.
LEMMA EffortStep ==
  ASSUME UdpInv, [Next]_vars
  PROVE  [Effort!Next]_<<Sent, copies, shown>>
<1> USE DEF UdpInv, TypeOK
<1>0. \A d, out : Exchange(d, out) => copies' \in {copies, copies + 1}
  BY DEF Exchange
<1>1. CASE PublisherNext
  <2>1. ASSUME NEW p \in Publishers, PubSend(p)
        PROVE  Effort!Send
    <3>1. /\ Event(p, pub[p].seq) \in Events
          /\ Sent' = Sent \cup {Event(p, pub[p].seq)}
      BY <2>1, SentGrows
    <3>2. UNCHANGED <<copies, shown>>
      BY <2>1 DEF PubSend, Transmit
    <3> QED
      BY <3>1, <3>2 DEF Effort!Send
  <2>2. ASSUME NEW p \in Publishers, PubBreak(p)
        PROVE  UNCHANGED <<Sent, copies, shown>>
    <3>1. Sent' = Sent
      BY <2>2, SentGrows
    <3> QED
      BY <2>2, <3>1 DEF PubBreak, netVars
  <2> QED
    BY <1>1, <2>1, <2>2 DEF PublisherNext, Effort!Next
<1>2. CASE SubscriberNext
  <2>1. ASSUME NEW s \in Subscribers,
               \/ SubBind(s) \/ SubSend(s) \/ SubSendFails(s)
               \/ SubTimeout(s) \/ SubClose(s) \/ SubSignal(s)
        PROVE  UNCHANGED <<Sent, copies, shown>>
    <3>1. UNCHANGED <<pub, copies, shown>>
      BY <2>1 DEF SubBind, SubSend, SubSendFails, SubTimeout, SubClose, SubSignal,
                  Transmit, Refuse, netVars
    <3>2. Sent' = Sent
      BY <3>1, SentGrows
    <3> QED
      BY <3>1, <3>2
  <2>2. ASSUME NEW s \in Subscribers, NEW d \in BagToSet(net), SubReply(s, d) \/ SubRead(s, d)
        PROVE  Effort!Delivery
    BY <1>2, <2>2, PrintedIsDelivery DEF SubReply, SubRead, SubscriberNext
  <2> QED
    BY <1>2, <2>1, <2>2, UdpSystemAssumption DEF SubscriberNext, SubStep, Effort!Next
<1>3. CASE BrokerNext
  <2>1. UNCHANGED shown /\ Sent' = Sent
    BY <1>3, SentGrows DEF BrokerNext, clientVars
  <2>2. copies' \in {copies, copies + 1}
    BY <1>0, <1>3 DEF BrokerNext, BrokerStep, RecvPublish, RecvSubscribe, Signal, Stop,
                      Restart, Refuse, netVars
  <2> QED
    BY <2>1, <2>2 DEF Effort!Next, Effort!Delivery
<1>4. CASE NetworkNext
  <2>1. UNCHANGED <<copies, shown>> /\ Sent' = Sent
    BY <1>4, SentGrows DEF NetworkNext, Lose, clientVars
  <2> QED
    BY <2>1
<1>5. CASE UNCHANGED vars
  BY <1>5, SentGrows DEF vars, netVars, clientVars
<1> QED
  BY <1>1, <1>2, <1>3, <1>4, <1>5 DEF Next

\* The UDP system keeps its promise, "entrega no garantizada": what a subscriber
\* prints was sent, was asked for from its address, and is printed at most once
\* more than the network repeated datagrams.
THEOREM UdpIsBestEffort == Spec => RefinesBestEffort
<1>1. Init => Effort!Init
  <2> SUFFICES ASSUME Init PROVE Effort!Init
    OBVIOUS
  <2>1. Sent = {}
    BY DEF Init, ClientInit, Sent, Events
  <2> QED
    BY <2>1 DEF Init, NetInit, ClientInit, Effort!Init, EmptyBag, SetToBag,
                Effort!EmptyBag, Effort!SetToBag
<1>2. UdpInv /\ [Next]_vars => [Effort!Next]_<<Sent, copies, shown>>
  BY EffortStep
<1> QED
  BY <1>1, <1>2, UdpAlways, PTL DEF Spec, RefinesBestEffort, Effort!Spec
===========================================================================
