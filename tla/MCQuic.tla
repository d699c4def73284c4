------------------------------- MODULE MCQuic -------------------------------
(* Instances of QuicSystem for TLC.                                         *)
EXTENDS QuicSystem

CONSTANTS p1, p2, s1, s2, n1, t1, t2

\* One publisher, one match, no address translation.
OneMatch == [p \in Publishers |-> t1]
WantIt == [s \in Subscribers |-> <<t1>>]
SeenAsIs == [s \in Subscribers |-> s]

\* Two matches, a publisher each, and subscribers of both.
OneEach == [p \in Publishers |-> IF p = p1 THEN t1 ELSE t2]
WantBoth == [s \in Subscribers |-> <<t1, t2>>]

\* A subscriber of each match.
WantApart == [s \in Subscribers |-> IF s = s1 THEN <<t1>> ELSE <<t2>>]

\* The datagrams of the one subscriber reach the broker from a translated address.
AllTranslated == [s \in Subscribers |-> n1]
=============================================================================
