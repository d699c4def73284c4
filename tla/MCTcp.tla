------------------------------- MODULE MCTcp -------------------------------
(* Instances of TcpSystem for TLC.                                          *)
EXTENDS TcpSystem

CONSTANTS p1, p2, s1, s2, t1, t2, garbled

OneMatch == [p \in Publishers |-> t1]
WantIt == [s \in Subscribers |-> <<t1>>]

WantBoth == [s \in Subscribers |-> <<t1, t2>>]
BothAndFirst == [s \in Subscribers |-> IF s = s1 THEN <<t1, t2>> ELSE <<t1>>]
=============================================================================
