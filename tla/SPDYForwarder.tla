--------------------------- MODULE SPDYForwarder ---------------------------
(***************************************************************************)
(* The forwarder outside the cluster (internal/forwarder/spdy.go): Open    *)
(* starts a goroutine on client-go's ForwardPorts and waits for it to be   *)
(* ready, to fail, or for its own request to end; Close tells it to stop.  *)
(* What ForwardPorts does is client-go's: it dials the apiserver, binds    *)
(* each port or warns, is ready if any was bound, and serves until it is   *)
(* told to stop or loses its connection, giving the ports back at the end. *)
(*                                                                         *)
(* An open call stands for its handle, its goroutine and its channels.     *)
(***************************************************************************)
EXTENDS Naturals, FiniteSets

CONSTANTS
    Ports,      \* the host ports of 127.0.0.1
    Opens,      \* calls of Open
    Others,     \* processes outside the daemon
    Asked,      \* the HostPorts of each Open
    Zero,       \* a HostPort that is 0
    None

ASSUME PortsOfOpens ==
    /\ Asked \in [Opens -> SUBSET (Ports \cup {Zero})]
    /\ Zero \notin Ports /\ Opens \cap Others = {} /\ None \notin Opens \cup Others

VARIABLES
    owner,      \* who listens on each port
    opening,    \* where each Open is
    cancelled,  \* the Opens whose ctx is done
    forward,    \* where its ForwardPorts is
    untried,    \* the ports it has not tried to bind
    failing,    \* whether it returns an error
    ready,      \* readyCh is closed
    errCh,      \* errCh, which buffers one error, and is closed in the end
    stops,      \* how often stopCh was closed
    isClosed    \* spdyHandle.isClosed

openVars == <<opening, cancelled, stops, isClosed>>
forwardVars == <<forward, untried, failing, ready>>
spdyVars == <<owner, openVars, forwardVars, errCh>>

TypeOK ==
    /\ owner \in [Ports -> Opens \cup Others \cup {None}]
    /\ opening \in [Opens -> {"idle", "selecting", "failed", "empty", "open"}]
    /\ cancelled \subseteq Opens
    /\ forward \in [Opens -> {"none", "dialing", "listening", "serving", "closing", "sending",
                              "sent", "over"}]
    /\ untried \in [Opens -> SUBSET Ports]
    /\ failing \subseteq Opens /\ ready \subseteq Opens
    /\ errCh \in [Opens -> {"empty", "error", "closed", "errorClosed"}]
    /\ stops \in [Opens -> Nat]
    /\ isClosed \in [Opens -> BOOLEAN]

Init ==
    /\ owner = [p \in Ports |-> None]
    /\ opening = [o \in Opens |-> "idle"]
    /\ cancelled = {}
    /\ forward = [o \in Opens |-> "none"]
    /\ untried = [o \in Opens |-> {}]
    /\ failing = {} /\ ready = {}
    /\ errCh = [o \in Opens |-> "empty"]
    /\ stops = [o \in Opens |-> 0]
    /\ isClosed = [o \in Opens |-> FALSE]

HeldBy(o) == {p \in Ports : owner[p] = o}
Become(o, s) == opening' = [opening EXCEPT ![o] = s]
Proceed(o, s) == forward' = [forward EXCEPT ![o] = s]
Stop(o) == stops' = [stops EXCEPT ![o] = @ + 1]

-----------------------------------------------------------------------------
\* A HostPort 0 is passed over; with nothing left there is nothing to stop.
OpenNothing(o) ==
    /\ opening[o] = "idle" /\ Asked[o] \subseteq {Zero}
    /\ Become(o, "empty")
    /\ UNCHANGED <<owner, cancelled, stops, isClosed, forwardVars, errCh>>

\* The round tripper, or the forwarder, cannot be made.
SetUpFails(o) ==
    /\ opening[o] = "idle" /\ ~(Asked[o] \subseteq {Zero})
    /\ Become(o, "failed")
    /\ UNCHANGED <<owner, cancelled, stops, isClosed, forwardVars, errCh>>

\* Mutant: a HostPort 0 is passed on.
OpenWithZero(o) ==
    /\ opening[o] = "idle" /\ ~(Asked[o] \subseteq {Zero})
    /\ Become(o, "selecting") /\ Proceed(o, "dialing")
    /\ untried' = [untried EXCEPT ![o] = Asked[o]]
    /\ UNCHANGED <<owner, cancelled, stops, isClosed, failing, ready, errCh>>

\* Mutant: the handle is returned before the forwarder is ready.
OpenAtOnce(o) ==
    /\ opening[o] = "idle" /\ ~(Asked[o] \subseteq {Zero})
    /\ Become(o, "open") /\ Proceed(o, "dialing")
    /\ untried' = [untried EXCEPT ![o] = Asked[o] \ {Zero}]
    /\ UNCHANGED <<owner, cancelled, stops, isClosed, failing, ready, errCh>>

Open(o) ==
    /\ opening[o] = "idle" /\ ~(Asked[o] \subseteq {Zero})
    /\ Become(o, "selecting") /\ Proceed(o, "dialing")
    /\ untried' = [untried EXCEPT ![o] = Asked[o] \ {Zero}]
    /\ UNCHANGED <<owner, cancelled, stops, isClosed, failing, ready, errCh>>

SelectReady(o) ==
    /\ opening[o] = "selecting" /\ o \in ready
    /\ Become(o, "open")
    /\ UNCHANGED <<owner, cancelled, stops, isClosed, forwardVars, errCh>>

\* Mutant: an error is not waited for.
SelectNoError(o) == FALSE /\ UNCHANGED spdyVars

SelectError(o) ==
    /\ opening[o] = "selecting" /\ errCh[o] # "empty"
    /\ errCh' = [errCh EXCEPT ![o] = IF @ = "error" THEN "empty" ELSE "closed"]
    /\ Become(o, "failed")
    /\ UNCHANGED <<owner, cancelled, stops, isClosed, forwardVars>>

\* Mutant: the forwarder is left to itself.
SelectDoneOnly(o) ==
    /\ opening[o] = "selecting" /\ o \in cancelled
    /\ Become(o, "failed")
    /\ UNCHANGED <<owner, cancelled, stops, isClosed, forwardVars, errCh>>

SelectDone(o) ==
    /\ opening[o] = "selecting" /\ o \in cancelled
    /\ Stop(o) /\ Become(o, "failed")
    /\ UNCHANGED <<owner, cancelled, isClosed, forwardVars, errCh>>

\* The client of the /start goes away.
Cancel(o) ==
    /\ opening[o] = "selecting"
    /\ cancelled' = cancelled \cup {o}
    /\ UNCHANGED <<owner, opening, stops, isClosed, forwardVars, errCh>>

\* Mutant: a handle that is closed is stopped again.
CloseAgain(o) ==
    /\ opening[o] = "open" /\ stops[o] < 2
    /\ isClosed' = [isClosed EXCEPT ![o] = TRUE]
    /\ Stop(o)
    /\ UNCHANGED <<owner, opening, cancelled, forwardVars, errCh>>

\* The registry closes the handle, Shutdown may too; a second Close returns at once.
Close(o) ==
    /\ opening[o] \in {"open", "empty"} /\ ~isClosed[o]
    /\ isClosed' = [isClosed EXCEPT ![o] = TRUE]
    /\ IF opening[o] = "open" THEN Stop(o) ELSE UNCHANGED stops
    /\ UNCHANGED <<owner, opening, cancelled, forwardVars, errCh>>

-----------------------------------------------------------------------------
\* ForwardPorts.  It looks at stopCh only once it serves.
Fails(o) == failing' = failing \cup {o}

Dial(o) ==
    /\ forward[o] = "dialing"
    /\ \/ Proceed(o, "listening") /\ UNCHANGED failing
       \/ Proceed(o, "closing") /\ Fails(o)
    /\ UNCHANGED <<owner, openVars, untried, ready, errCh>>

\* A port that is taken is warned of.
Listen(o) ==
    /\ forward[o] = "listening"
    /\ \E p \in untried[o] :
          /\ untried' = [untried EXCEPT ![o] = @ \ {p}]
          /\ owner' = IF owner[p] = None THEN [owner EXCEPT ![p] = o] ELSE owner
    /\ UNCHANGED <<openVars, forward, failing, ready, errCh>>

Listened(o) ==
    /\ forward[o] = "listening" /\ untried[o] = {}
    /\ IF HeldBy(o) # {}
         THEN Proceed(o, "serving") /\ ready' = ready \cup {o} /\ UNCHANGED failing
         ELSE Proceed(o, "closing") /\ Fails(o) /\ UNCHANGED ready
    /\ UNCHANGED <<owner, openVars, untried, errCh>>

Stopped(o) ==
    /\ forward[o] = "serving" /\ stops[o] > 0
    /\ Proceed(o, "closing")
    /\ UNCHANGED <<owner, openVars, untried, failing, ready, errCh>>

LosesConnection(o) ==
    /\ forward[o] = "serving"
    /\ Proceed(o, "closing") /\ Fails(o)
    /\ UNCHANGED <<owner, openVars, untried, ready, errCh>>

Unlisten(o) ==
    /\ forward[o] = "closing"
    /\ \E p \in HeldBy(o) : owner' = [owner EXCEPT ![p] = None]
    /\ UNCHANGED <<openVars, forwardVars, errCh>>

Returned(o) ==
    /\ forward[o] = "closing" /\ HeldBy(o) = {}
    /\ Proceed(o, IF o \in failing THEN "sending" ELSE "sent")
    /\ UNCHANGED <<owner, openVars, untried, failing, ready, errCh>>

\* Mutant: the channel has no buffer, so that a send waits for the select.
SendErrorUnbuffered(o) ==
    /\ forward[o] = "sending" /\ opening[o] = "selecting"
    /\ errCh' = [errCh EXCEPT ![o] = "error"] /\ Proceed(o, "sent")
    /\ UNCHANGED <<owner, openVars, untried, failing, ready>>

\* The goroutine of Open: the error, if any, and the close of errCh.
SendError(o) ==
    /\ forward[o] = "sending" /\ errCh[o] = "empty"
    /\ errCh' = [errCh EXCEPT ![o] = "error"] /\ Proceed(o, "sent")
    /\ UNCHANGED <<owner, openVars, untried, failing, ready>>

CloseErrCh(o) ==
    /\ forward[o] = "sent"
    /\ errCh' = [errCh EXCEPT ![o] = IF @ = "error" THEN "errorClosed" ELSE "closed"]
    /\ Proceed(o, "over")
    /\ UNCHANGED <<owner, openVars, untried, failing, ready>>

\* Another process of the machine takes a port, or leaves it.
Taken(x) ==
    /\ HeldBy(x) = {}
    /\ \E p \in Ports : owner[p] = None /\ owner' = [owner EXCEPT ![p] = x]
    /\ UNCHANGED <<openVars, forwardVars, errCh>>

Left(x) ==
    /\ \E p \in HeldBy(x) : owner' = [owner EXCEPT ![p] = None]
    /\ UNCHANGED <<openVars, forwardVars, errCh>>

-----------------------------------------------------------------------------
Select(o) == SelectReady(o) \/ SelectError(o) \/ SelectDone(o)

Goroutine(o) == \/ Dial(o) \/ Listen(o) \/ Listened(o) \/ Stopped(o)
                \/ Unlisten(o) \/ Returned(o) \/ SendError(o) \/ CloseErrCh(o)

Next ==
    \/ \E o \in Opens :
          \/ OpenNothing(o) \/ SetUpFails(o) \/ Open(o) \/ Select(o) \/ Cancel(o) \/ Close(o)
          \/ Goroutine(o) \/ LosesConnection(o)
    \/ \E x \in Others : Taken(x) \/ Left(x)

Spec == Init /\ [][Next]_spdyVars

\* Goroutines run, and a dial ends one way or the other: the apiserver answers,
\* or the connection breaks.  Nothing is assumed of clients, of the moment of a
\* Close, or of the other processes.
FairSpec ==
    /\ Spec
    /\ \A o \in Opens : WF_spdyVars(Select(o)) /\ WF_spdyVars(Goroutine(o))

-----------------------------------------------------------------------------
Ended(o) == forward[o] \in {"none", "over"} /\ HeldBy(o) = {}

\* stopCh is closed once at most, by the Open that gives up or by the handle it
\* returned: a second close would end the daemon (spdy.go:86-88, 101-111).
StoppedOnce == \A o \in Opens : stops[o] <= 1

\* A handle that Open returned holds a port until it is closed or its connection
\* is lost (spdy.go:82-91).  One port only: Design.md:255-258 opens a forward for
\* every -p, but client-go is ready with those it could bind.
OpenServes == \A o \in Opens :
    opening[o] = "open" /\ stops[o] = 0 /\ o \notin failing => HeldBy(o) # {}

\* A closed handle, and an Open that failed or gave up, leave no goroutine and
\* no port behind, although one that gives up while the dial is on its way is
\* followed by the binding of its ports (spdy.go:74-89): a /start that retries
\* finds them free in the end.
LeavesNothing == \A o \in Opens :
    isClosed[o] \/ opening[o] = "failed" ~> Ended(o)

\* Open returns, whatever becomes of the forwarder (spdy.go:82-89).
OpenReturns == \A o \in Opens : opening[o] = "selecting" ~> opening[o] # "selecting"
=============================================================================
