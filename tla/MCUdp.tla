------------------------------- MODULE MCUdp -------------------------------
(* Instances of UdpSystem for TLC.                                          *)
EXTENDS UdpSystem

CONSTANTS p1, p2, s1, s2, a1, a2, b1, t1, t2

\* A publisher of each match; where it sends from does not matter.
OneEach == [p \in Publishers |-> IF p = p1 THEN t1 ELSE t2]
SameSource == [p \in Publishers |-> b1]

\* s1 follows both matches, s2 the first.
BothAndFirst == [s \in Subscribers |-> IF s = s1 THEN <<t1, t2>> ELSE <<t1>>]

\* Two subscribers at once, or one that is given the port of the other.
OwnPorts == [s \in Subscribers |-> IF s = s1 THEN a1 ELSE a2]
OnePort == [s \in Subscribers |-> a1]
=============================================================================
