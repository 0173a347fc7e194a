---------------------------- MODULE PendingStore ----------------------------
(***************************************************************************)
(* The in-memory store of containers that /create staged and no /start has *)
(* realized (internal/server/pending.go).                                  *)
(*                                                                         *)
(* An entry is named by the /create request that built it, and staged      *)
(* under its pod name; its --name is a second reference to it, which       *)
(* SanitizeName may have mapped to another pod name.                       *)
(*                                                                         *)
(* The operators are the bodies of the store's methods, each one critical  *)
(* section of its mutex: they constrain the next values of this module's   *)
(* variables only, and the handlers of module Containers conjoin them.     *)
(***************************************************************************)
EXTENDS Identities

CONSTANTS
    DockerName, \* the --name of each /create, None when anonymous
    PodName,    \* the pod name Build derives for it
    Stale       \* the entries whose hour (pendingTTL) passes: a bound of the model

ASSUME NamesAreNames ==
    /\ DockerName \in [Creates -> Names \cup {None}]
    /\ PodName \in [Creates -> Names]
    /\ Stale \subseteq Creates

\* SanitizeName is a function, and the identity on names it returned.
ASSUME SanitizedNames == \A c, d \in Creates :
    /\ DockerName[c] # None
    /\ DockerName[c] \in {DockerName[d], PodName[d]}
    => PodName[c] = PodName[d]

VARIABLES
    store,   \* pendingStore.m: the entry staged under each pod name
    signal,  \* each entry's startCh with the reason it was closed for
    expired  \* the entries whose CreatedAt lies before the reaper's cutoff

pendingVars == <<store, signal, expired>>

\* Outcomes of an entry: "unborn" before reserve admits it, "open" while startCh is open.
Settlements == {"started", "error", "removed", "expired"}
Signals == {"unborn", "open"} \cup Settlements

PendingTypeOK ==
    /\ store \in [Names -> Creates \cup {None}]
    /\ signal \in [Creates -> Signals]
    /\ expired \subseteq Creates
    /\ \A n \in Names : store[n] # None => PodName[store[n]] = n /\ signal[store[n]] # "unborn"

PendingInit ==
    /\ store = [n \in Names |-> None]
    /\ signal = [c \in Creates |-> "unborn"]
    /\ expired = {}

-----------------------------------------------------------------------------

Staged(c) == store[PodName[c]] = c

\* Mutant: a second call closes the channel again.
SettleAgain(current, c, outcome) == [current EXCEPT ![c] = outcome]

\* Both mark functions return early once the entry is started or failed.
Settle(current, c, outcome) ==
    IF current[c] = "open" THEN [current EXCEPT ![c] = outcome] ELSE current

\* The store and the signals after reapLocked.
Swept == [n \in Names |-> IF store[n] \in expired THEN None ELSE store[n]]
SweptSignal == [c \in Creates |-> IF Staged(c) /\ c \in expired
                                    THEN Settle(signal, c, "expired")[c]
                                    ELSE signal[c]]

\* Mutant: a --name is no reference to an entry.
MatchesByPodName(entries, ref) == IF entries[ref] # None THEN {entries[ref]} ELSE {}

\* The entries findLocked may return: the one under that very name, else one
\* with that --name, in the order of the map.
Matches(entries, ref) ==
    IF entries[ref] # None
      THEN {entries[ref]}
      ELSE {c \in Creates : entries[PodName[c]] = c /\ DockerName[c] = ref}

Reap == store' = Swept /\ signal' = SweptSignal

\* Mutant: the --name is looked up, the ID is not.
VacantName(c) == DockerName[c] # None => Matches(Swept, DockerName[c]) = {}

Vacant(c) ==
    /\ DockerName[c] # None => Matches(Swept, DockerName[c]) = {}
    /\ Swept[PodName[c]] = None

\* Mutant: the entry is staged before its channel is made.
ReserveUnmade(c) ==
    /\ signal[c] = "unborn"
    /\ Vacant(c)
    /\ store' = [Swept EXCEPT ![PodName[c]] = c]
    /\ signal' = SweptSignal

Reserve(c) ==
    /\ signal[c] = "unborn"
    /\ Vacant(c)
    /\ store' = [Swept EXCEPT ![PodName[c]] = c]
    /\ signal' = [SweptSignal EXCEPT ![c] = "open"]

Refuse(c) ==
    /\ ~Vacant(c)
    /\ Reap

GetByRef(ref, found) ==
    /\ IF Matches(Swept, ref) = {} THEN found = None ELSE found \in Matches(Swept, ref)
    /\ Reap

MarkStarted(c) == signal' = Settle(signal, c, "started")
MarkFailed(c, why) == signal' = Settle(signal, c, why)

\* remove takes an ID: whatever entry is staged under it goes.
Remove(n) == store' = [store EXCEPT ![n] = None]

\* The hour since CreatedAt passes while the entry is staged.
Age(c) ==
    /\ c \in Stale \ expired
    /\ Staged(c)
    /\ expired' = expired \cup {c}

\* The process ends and takes the map with it.
Forget == store' = [n \in Names |-> None]

-----------------------------------------------------------------------------
(***************************************************************************)
(* The store by itself, whoever calls it.                                  *)
(***************************************************************************)
PendingNext ==
    \/ \E c \in Creates : Reserve(c) /\ UNCHANGED expired
    \/ Reap /\ UNCHANGED expired
    \/ \E c \in Creates : MarkStarted(c) /\ UNCHANGED <<store, expired>>
    \/ \E c \in Creates, why \in {"error", "removed"} :
            MarkFailed(c, why) /\ UNCHANGED <<store, expired>>
    \/ \E n \in Names : Remove(n) /\ UNCHANGED <<signal, expired>>
    \/ \E c \in Creates : Age(c) /\ UNCHANGED <<store, signal>>
    \/ Forget /\ UNCHANGED <<signal, expired>>

PendingSpec == PendingInit /\ [][PendingNext]_pendingVars

\* An entry's outcome is decided once: startCh is closed exactly once, and what
\* a waiter read of it stays true (pending.go:30-48 called by racing handlers).
SignalOnce == [][\A c \in Creates :
    signal[c] \in Settlements => signal'[c] = signal[c]]_signal

\* A staged entry gives its place to another only by leaving the store first:
\* two /create calls whose names sanitize to one pod never displace each other
\* (the promise of reserve, pending.go:89-93).
NoDisplacement == [][\A n \in Names :
    store[n] # None /\ store[n] \notin expired => store'[n] \in {store[n], None}]_store
=============================================================================
