---------------------------- MODULE MCContainers ----------------------------
(***************************************************************************)
(* The containers of one pod name, and a handful of requests about them.   *)
(***************************************************************************)
EXTENDS ContainersProperties, TLC

CONSTANTS Web, Alias, Port   \* model values: the pod name, a --name that
                             \* sanitizes to it, the host port it publishes

OneName == {Web}
TwoNames == {Web, Alias}

\* Entries: under --name Web, under --name Alias, one under each, anonymous.
ToPodWeb == [c \in Creates |-> Web]
Named == [c \in Creates |-> Web]
Aliased == [c \in Creates |-> Alias]
NamedOrAliased == LET one == CHOOSE c \in Creates : TRUE
                  IN  [c \in Creates |-> IF c = one THEN Web ELSE Alias]
Nameless == [c \in Creates |-> None]

Publishing == [c \in Creates |-> Port]
OwnPorts == [c \in Creates |-> c]
NotPublishing == [c \in Creates |-> None]

\* Requests by pod name (or ID), and /start by the --name the user typed.
ByPodName == [r \in Clients |-> Web]
StartByAlias == [r \in Clients |-> IF r \in Starts THEN Alias ELSE Web]

\* Requests of one kind about one name differ by nothing but their own.
Interchangeable == Permutations(Creates) \cup Permutations(Starts)
=============================================================================
