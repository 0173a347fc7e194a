------------------------- MODULE ForwarderRegistry -------------------------
(***************************************************************************)
(* The registry of open forwarders (internal/forwarder/forwarder.go) and   *)
(* the handles its entries hold.  A handle is named by the /start request  *)
(* whose Open made it: Open is called once per /start at most.             *)
(***************************************************************************)
EXTENDS Identities

VARIABLES
    registry,  \* Registry.handles: the handle bound to each container
    handle     \* whether a handle's listeners hold the host port

registryVars == <<registry, handle>>

RegistryTypeOK ==
    /\ registry \in [Names -> Starts \cup {None}]
    /\ handle \in [Starts -> {"none", "open", "closed"}]

RegistryInit ==
    /\ registry = [n \in Names |-> None]
    /\ handle = [s \in Starts |-> "none"]

Has(n) == registry[n] # None

\* Open bound the listeners; nothing is registered yet.
Listen(s) ==
    /\ handle[s] = "none"
    /\ handle' = [handle EXCEPT ![s] = "open"]

\* Mutant: the replaced handle is looked up again, after the new one is in.
SetThenClose(n, s) ==
    /\ handle' = IF Has(n) THEN [handle EXCEPT ![s] = "closed"] ELSE handle
    /\ registry' = [registry EXCEPT ![n] = s]

\* Mutant: the replaced handle is dropped without closing it.
SetOver(n, s) == registry' = [registry EXCEPT ![n] = s] /\ UNCHANGED handle

\* Set closes the handle it replaces, under the registry's mutex.
Set(n, s) ==
    /\ handle' = IF Has(n) THEN [handle EXCEPT ![registry[n]] = "closed"] ELSE handle
    /\ registry' = [registry EXCEPT ![n] = s]

\* Close in two steps: the entry leaves the map under the mutex, and the handle
\* it held is closed after the unlock.
Detach(n) == registry' = [registry EXCEPT ![n] = None]
CloseHandle(s) == handle' = [handle EXCEPT ![s] = "closed"]

\* The process ends: the kernel, or Shutdown, closes every listener.
Shutdown ==
    /\ registry' = [n \in Names |-> None]
    /\ handle' = [s \in Starts |-> IF handle[s] = "open" THEN "closed" ELSE handle[s]]

-----------------------------------------------------------------------------
(***************************************************************************)
(* The discipline the registry expects of its callers: a handle is bound   *)
(* once, and closed only by whoever took it out of the map.                *)
(***************************************************************************)
Unbound(s) == handle[s] = "open" /\ \A n \in Names : registry[n] # s

RegistryNext ==
    \/ \E s \in Starts : Listen(s) /\ UNCHANGED registry
    \/ \E n \in Names, s \in Starts : Unbound(s) /\ Set(n, s)
    \/ \E n \in Names : Detach(n) /\ UNCHANGED handle
    \/ \E s \in Starts : Unbound(s) /\ CloseHandle(s) /\ UNCHANGED registry
    \/ Shutdown

RegistrySpec == RegistryInit /\ [][RegistryNext]_registryVars

\* A registered handle is open, and registered for one container: Has never
\* vouches for a forwarder that is gone (forwarder.go:47-65), whichever of the
\* watcher, the remove handlers and another /start got to it first.
RegisteredOpen ==
    /\ \A n \in Names : Has(n) => handle[registry[n]] = "open"
    /\ \A n, m \in Names : Has(n) /\ registry[n] = registry[m] => n = m
=============================================================================
