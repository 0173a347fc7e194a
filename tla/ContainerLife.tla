--------------------------- MODULE ContainerLife ---------------------------
(***************************************************************************)
(* What a container may go through, whoever asks and in whatever order:    *)
(* /create stages it, a /start that read it while it was staged may post   *)
(* its pod, anything may drop it or its pod at any time.  The abstract     *)
(* specification that the handlers of module Containers implement.         *)
(***************************************************************************)
EXTENDS Identities

CONSTANT PodName   \* the pod name of each container, of which NamesAreNames is assumed

VARIABLES
    stage,  \* a container's place in the pending store: unborn, staged, then dropped
    claim,  \* the container a /start read there and is about to post
    alive   \* the container whose pod has each name

lifeVars == <<stage, claim, alive>>

LifeTypeOK ==
    /\ stage \in [Creates -> {"unborn", "staged", "dropped"}]
    /\ claim \in [Starts -> Creates \cup {None}]
    /\ alive \in [Names -> Creates \cup {None}]

LifeInit ==
    /\ stage = [c \in Creates |-> "unborn"]
    /\ claim = [s \in Starts |-> None]
    /\ alive = [n \in Names |-> None]

StagedOnes == {c \in Creates : stage[c] = "staged"}

\* The containers of a set leave the store: reaped, removed, failed or started.
Dropping(gone) == [c \in Creates |-> IF c \in gone THEN "dropped" ELSE stage[c]]

Drop(gone) ==
    /\ stage' = Dropping(gone)
    /\ UNCHANGED <<claim, alive>>

Stage(c, gone) ==
    /\ stage[c] = "unborn"
    /\ \A d \in StagedOnes \ gone : PodName[d] # PodName[c]
    /\ stage' = [Dropping(gone) EXCEPT ![c] = "staged"]
    /\ UNCHANGED <<claim, alive>>

Claim(s, c, gone) ==
    /\ claim[s] = None
    /\ c \in StagedOnes \ gone
    /\ stage' = Dropping(gone)
    /\ claim' = [claim EXCEPT ![s] = c]
    /\ UNCHANGED alive

\* The /start posts what it read, or it does not: the name is taken, or the call fails.
Realize(s) ==
    /\ claim[s] # None
    /\ \/ alive[PodName[claim[s]]] = None /\ alive' = [alive EXCEPT ![PodName[claim[s]]] = claim[s]]
       \/ UNCHANGED alive
    /\ claim' = [claim EXCEPT ![s] = None]
    /\ UNCHANGED stage

Vanish(n) ==
    /\ alive' = [alive EXCEPT ![n] = None]
    /\ UNCHANGED <<stage, claim>>

\* The daemon ends; the pods do not.
LoseMemory ==
    /\ stage' = Dropping(StagedOnes)
    /\ claim' = [s \in Starts |-> None]
    /\ UNCHANGED alive

LifeNext ==
    \/ \E gone \in SUBSET StagedOnes :
          \/ Drop(gone)
          \/ \E c \in Creates : Stage(c, gone)
          \/ \E s \in Starts, c \in Creates : Claim(s, c, gone)
    \/ \E s \in Starts : Realize(s)
    \/ \E n \in Names : Vanish(n)
    \/ LoseMemory

LifeSpec == LifeInit /\ [][LifeNext]_lifeVars

\* A container that left the store, is no pod and is in no /start's hands.
Ended(c) ==
    /\ stage[c] = "dropped"
    /\ \A s \in Starts : claim[s] # c
    /\ \A n \in Names : alive[n] # c

\* It never comes back: a client told that it is gone, by a DELETE, a failed
\* /start or an expiry, does not meet it again (containers.go:227-236, 383-386).
StaysEnded == [][\A c \in Creates : Ended(c) => Ended(c)']_lifeVars

\* A pod runs the container it is named after, and so does a /start in flight.
PodsOfTheirNames == \A n \in Names : alive[n] # None => PodName[alive[n]] = n
=============================================================================
