--------------------------- MODULE MCTCPForwarder ---------------------------
(***************************************************************************)
(* A container that publishes two random ports and one written "00", and   *)
(* one with a HostPort that is no number, over two ports of the machine.   *)
(***************************************************************************)
EXTENDS TCPForwarder

CONSTANTS p1, p2, c1, c2, o1, o2, o3

TwoPorts == {p1, p2}
TwoCreates == {c1, c2}
ThreeOpens == {o1, o2, o3}

Published == [c \in TwoCreates |-> IF c = c1 THEN <<Any, Zero, Any>> ELSE <<p1, Invalid>>]
TwoOfTheFirst == [o \in ThreeOpens |-> IF o = o3 THEN c2 ELSE c1]
=============================================================================
