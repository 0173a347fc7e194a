---------------------------- MODULE MCObservers ----------------------------
(***************************************************************************)
(* An observer beside a handful of requests about the containers of one    *)
(* pod name.                                                               *)
(***************************************************************************)
EXTENDS Observers, MCContainers

ByAlias == [r \in Clients |-> Alias]
SeekAlias == [o \in Observers |-> Alias]
=============================================================================
