-------------------------- MODULE MCSPDYForwarder --------------------------
(***************************************************************************)
(* Two Opens that contend for a port, one for a second port beside it, and *)
(* one that has nothing to bind.                                           *)
(***************************************************************************)
EXTENDS SPDYForwarder

CONSTANTS p1, p2, o1, o2, o3

TwoPorts == {p1, p2}
ThreeOpens == {o1, o2, o3}
Contending == [o \in ThreeOpens |->
    CASE o = o1 -> {p1, p2} [] o = o2 -> {p1, Zero} [] OTHER -> {Zero}]
=============================================================================
