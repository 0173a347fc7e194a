---------------------------- MODULE TCPForwarder ----------------------------
(***************************************************************************)
(* The forwarder of in-cluster mode (internal/forwarder/tcp.go): Open binds*)
(* one listener per mapping and starts an accept loop on each; Close stops *)
(* them; a connection is proxied by goroutines of its own.  It takes its   *)
(* mappings from containers that module HostPorts created.                 *)
(*                                                                         *)
(* An open call stands for its handle, and a pair of it and a port for the *)
(* listener and the accept loop.                                           *)
(***************************************************************************)
EXTENDS HostPorts, Functions

CONSTANTS
    Conns,       \* client connections
    Of,          \* the container each Open is for
    MaxBroken    \* bound: accept errors of an open listener

ASSUME OpensOfContainers ==
    /\ Of \in [Opens -> Creates]
    /\ MaxBroken \in Nat

VARIABLES
    opening,     \* where each Open is
    mappings,    \* the host ports it was given
    bound,       \* how many of them it is done with
    listeners,   \* tcpHandle.listeners
    isClosed,    \* tcpHandle.isClosed
    closing,     \* the listeners a Close took out and has still to close
    accepting,   \* the accept loops running, as pairs of an open and a port
    warned,      \* the accept loops that ended with a warning
    conn,        \* the phase of each connection's proxy
    via,         \* the handle it came through
    broken       \* accept errors so far

handleVars == <<opening, mappings, bound, listeners, isClosed, closing>>
loopVars == <<accepting, warned, broken>>
connVars == <<conn, via>>
tcpVars == <<portVars, handleVars, loopVars, connVars>>

Phases == {"none", "dialing", "both", "clientDone", "podDone", "over"}

TypeOK ==
    /\ HostPortsTypeOK
    /\ opening \in [Opens -> {"idle", "binding", "undo", "failed", "open"}]
    /\ mappings \in [Opens -> Seq(Ports \cup {Zero})]
    /\ bound \in [Opens -> Nat] /\ \A o \in Opens : bound[o] <= Len(mappings[o])
    /\ listeners \in [Opens -> SUBSET Ports]
    /\ isClosed \in [Opens -> BOOLEAN]
    /\ closing \in [Opens -> SUBSET Ports]
    /\ accepting \subseteq Opens \X Ports
    /\ warned \subseteq Opens \X Ports
    /\ conn \in [Conns -> Phases]
    /\ via \in [Conns -> Opens \cup {None}]
    /\ broken \in 0 .. MaxBroken

Init ==
    /\ HostPortsInit
    /\ opening = [o \in Opens |-> "idle"]
    /\ mappings = [o \in Opens |-> <<>>]
    /\ bound = [o \in Opens |-> 0]
    /\ listeners = [o \in Opens |-> {}]
    /\ isClosed = [o \in Opens |-> FALSE]
    /\ closing = [o \in Opens |-> {}]
    /\ accepting = {}
    /\ warned = {}
    /\ conn = [k \in Conns |-> "none"]
    /\ via = [k \in Conns |-> None]
    /\ broken = 0

Become(o, s) == opening' = [opening EXCEPT ![o] = s]
CreatesAlone == UNCHANGED <<stage, hostPort, annotation, lacking>>

-----------------------------------------------------------------------------
\* Mutant: every HostPort passes for a number.
OpenUnparsed(o) ==
    /\ opening[o] = "idle" /\ stage[Of[o]] = "created"
    /\ Become(o, "binding")
    /\ mappings' = [mappings EXCEPT ![o] = hostPort[Of[o]]]
    /\ UNCHANGED <<portVars, bound, listeners, isClosed, closing, loopVars, connVars>>

\* A /start, with the mappings of the pending entry or of the pod it found:
\* toForwarderMappings refuses a HostPort that is no number.  (One that is ""
\* would be left out; SamePortsFromPod says that none is by now.)
Open(o) ==
    /\ opening[o] = "idle" /\ stage[Of[o]] = "created"
    /\ \E given \in {hostPort[Of[o]], annotation[Of[o]]} :
          IF Invalid \in Range(given)
            THEN Become(o, "failed") /\ UNCHANGED mappings
            ELSE Become(o, "binding") /\ mappings' = [mappings EXCEPT ![o] = given]
    /\ UNCHANGED <<portVars, bound, listeners, isClosed, closing, loopVars, connVars>>

\* The pod has no address, or PodIP fails.
ResolveFails(o) ==
    /\ opening[o] = "binding" /\ bound[o] = 0
    /\ Become(o, "failed")
    /\ UNCHANGED <<portVars, mappings, bound, listeners, isClosed, closing, loopVars, connVars>>

NextPort(o) == mappings[o][bound[o] + 1]

\* A host port that is the number 0 gets no listener.
Pass(o) ==
    /\ opening[o] = "binding" /\ bound[o] < Len(mappings[o])
    /\ NextPort(o) = Zero
    /\ bound' = [bound EXCEPT ![o] = @ + 1]
    /\ UNCHANGED <<portVars, opening, mappings, listeners, isClosed, closing, loopVars, connVars>>

\* The next mapping is one to listen for.
AtPort(o) == opening[o] = "binding" /\ bound[o] < Len(mappings[o]) /\ NextPort(o) # Zero

Bind(o) ==
    /\ AtPort(o) /\ Free(NextPort(o))
    /\ owner' = [owner EXCEPT ![NextPort(o)] = o]
    /\ bound' = [bound EXCEPT ![o] = @ + 1]
    /\ listeners' = [listeners EXCEPT ![o] = @ \cup {NextPort(o)}]
    /\ accepting' = accepting \cup {<<o, NextPort(o)>>}
    /\ CreatesAlone /\ UNCHANGED <<opening, mappings, isClosed, closing, warned, broken, connVars>>

\* Mutant: the listeners are closed before the handle is marked.
TakeUnmarked(o) ==
    /\ closing' = [closing EXCEPT ![o] = listeners[o]]
    /\ listeners' = [listeners EXCEPT ![o] = {}]
    /\ UNCHANGED isClosed

\* Mutant: the field is cleared before it is read.
TakeNothing(o) ==
    /\ isClosed' = [isClosed EXCEPT ![o] = TRUE]
    /\ listeners' = [listeners EXCEPT ![o] = {}]
    /\ UNCHANGED closing

\* tcpHandle.Close marks the handle and takes its listeners in one critical
\* section, then closes them one by one.
Take(o) ==
    /\ isClosed' = [isClosed EXCEPT ![o] = TRUE]
    /\ closing' = [closing EXCEPT ![o] = listeners[o]]
    /\ listeners' = [listeners EXCEPT ![o] = {}]

\* Mutant: the error is returned and what was bound stays bound.
BindFailsAlone(o) ==
    /\ AtPort(o) /\ ~Free(NextPort(o))
    /\ Become(o, "failed")
    /\ UNCHANGED <<portVars, mappings, bound, listeners, isClosed, closing, loopVars, connVars>>

BindFails(o) ==
    /\ AtPort(o) /\ ~Free(NextPort(o))
    /\ Take(o)
    /\ Become(o, "undo")
    /\ UNCHANGED <<portVars, mappings, bound, loopVars, connVars>>

CloseListener(o) ==
    /\ \E p \in closing[o] :
          /\ closing' = [closing EXCEPT ![o] = @ \ {p}]
          /\ owner' = [owner EXCEPT ![p] = None]
    /\ CreatesAlone /\ UNCHANGED <<opening, mappings, bound, listeners, isClosed, loopVars, connVars>>

Undone(o) ==
    /\ opening[o] = "undo" /\ closing[o] = {}
    /\ Become(o, "failed")
    /\ UNCHANGED <<portVars, mappings, bound, listeners, isClosed, closing, loopVars, connVars>>

Opened(o) ==
    /\ opening[o] = "binding" /\ bound[o] = Len(mappings[o])
    /\ Become(o, "open")
    /\ UNCHANGED <<portVars, mappings, bound, listeners, isClosed, closing, loopVars, connVars>>

\* The registry closes the handle; a second Close returns at once.
Close(o) ==
    /\ opening[o] = "open" /\ ~isClosed[o]
    /\ Take(o)
    /\ UNCHANGED <<portVars, opening, mappings, bound, loopVars, connVars>>

-----------------------------------------------------------------------------
\* The accept loop of a listener.
Accept(o, p, k) ==
    /\ <<o, p>> \in accepting /\ owner[p] = o /\ conn[k] = "none"
    /\ conn' = [conn EXCEPT ![k] = "dialing"]
    /\ via' = [via EXCEPT ![k] = o]
    /\ UNCHANGED <<portVars, handleVars, loopVars>>

\* Accept returns an error: the listener was closed, and the loop looks
\* whether its handle was, to tell that from a failure.
AcceptClosed(o, p) ==
    /\ <<o, p>> \in accepting /\ owner[p] # o
    /\ accepting' = accepting \ {<<o, p>>}
    /\ warned' = IF isClosed[o] THEN warned ELSE warned \cup {<<o, p>>}
    /\ UNCHANGED <<portVars, handleVars, broken, connVars>>

\* Accept fails on a listener that is open: the loop ends, the port stays bound.
AcceptBreaks(o, p) ==
    /\ <<o, p>> \in accepting /\ owner[p] = o
    /\ broken < MaxBroken /\ broken' = broken + 1
    /\ accepting' = accepting \ {<<o, p>>}
    /\ UNCHANGED <<portVars, handleVars, warned, connVars>>

\* proxy: dial the pod, copy both ways, and close both ends once both copies ended.
Advance(k, before, after) ==
    /\ conn[k] = before
    /\ conn' = [conn EXCEPT ![k] = after]
    /\ UNCHANGED <<portVars, handleVars, loopVars, via>>

Dial(k) == Advance(k, "dialing", "both") \/ Advance(k, "dialing", "over")
ClientEnds(k) == Advance(k, "both", "clientDone") \/ Advance(k, "podDone", "over")
PodEnds(k) == Advance(k, "both", "podDone") \/ Advance(k, "clientDone", "over")

-----------------------------------------------------------------------------
OpenStep(o) == Pass(o) \/ Bind(o) \/ BindFails(o) \/ CloseListener(o) \/ Undone(o) \/ Opened(o)

Next ==
    \/ \E c \in Creates : CreateStep(c) /\ UNCHANGED <<handleVars, loopVars, connVars>>
    \/ \E x \in Others : (Taken(x) \/ Left(x)) /\ UNCHANGED <<handleVars, loopVars, connVars>>
    \/ \E o \in Opens : Open(o) \/ ResolveFails(o) \/ OpenStep(o) \/ Close(o)
    \/ \E o \in Opens, p \in Ports :
          \/ \E k \in Conns : Accept(o, p, k)
          \/ AcceptClosed(o, p)
          \/ AcceptBreaks(o, p)
    \/ \E k \in Conns : Dial(k) \/ ClientEnds(k) \/ PodEnds(k)

Spec == Init /\ [][Next]_tcpVars

\* Goroutines run: an Open and a Close go on, and a loop whose Accept returned
\* sees it.  Nothing is assumed of clients, pods, or when a Close comes.
FairSpec ==
    /\ Spec
    /\ \A o \in Opens : WF_tcpVars(OpenStep(o))
    /\ \A o \in Opens, p \in Ports : WF_tcpVars(AcceptClosed(o, p))
    /\ \A k \in Conns : WF_tcpVars(Dial(k))

-----------------------------------------------------------------------------
\* A handle holds all its ports from the moment Open returns it until it is
\* closed, and nobody holds a port for an Open that failed: registered stands
\* for "the host ports are bound", as module Containers takes it (tcp.go:61-75).
\* A mapping whose HostPort is 0, but not written "0", has no port to hold.
AllOrNothing == \A o \in Opens :
    /\ opening[o] = "open" /\ ~isClosed[o] =>
          \A i \in DOMAIN mappings[o] : mappings[o][i] = Zero \/ owner[mappings[o][i]] = o
    /\ opening[o] = "failed" => HeldBy(o) = {}

\* No accept loop takes a Close for a failure of its listener (tcp.go:80-86,
\* 128-143): the handle is marked before its first listener is closed.
NoFalseAlarm == warned = {}

\* A closed handle gives its ports back (tcp.go:127-146).  Its ports only: the
\* proxies go on, whatever forwarder.go:16 says of a handle's goroutines.
PortsGivenBack == \A o \in Opens : isClosed[o] ~> HeldBy(o) = {}
=============================================================================
