------------------------------ MODULE Gateway ------------------------------
(***************************************************************************)
(* The gateway process: main's life cycle (cmd/inferencia/main.go), the    *)
(* chat backend registry (internal/backend/backend.go) with its balancer,  *)
(* the watchdog, and the concurrent requests to the chat, embeddings and   *)
(* models handlers (internal/handler).                                     *)
(*                                                                         *)
(* A request chooses its backend in PrimaryHealthy: one IsHealthy call per *)
(* backend, then Select, then Acquire, each its own critical section, with *)
(* watchdog verdicts and other requests in between.  The handler releases  *)
(* the backend in a deferred call when the upstream call has returned.     *)
(***************************************************************************)
EXTENDS Watchdog, Sequences

CONSTANTS
    Requests,   \* handler goroutines; each serves one request after another
    Kinds,      \* the endpoints the requests use
    NoBackend,  \* the zero value of a backend name
    RRMod       \* modulus of the balancer's counter

AllKinds == {"chat", "stream", "embeddings", "models"}

ASSUME GatewayAssumption ==
    /\ IsFiniteSet(Requests)
    /\ Kinds \subseteq AllKinds
    /\ NoBackend \notin ChatBackends
    /\ RRMod \in Nat \ {0}

VARIABLES
    phase,      \* where main is
    expired,    \* the 15 s shutdown context is over
    ticks,      \* the watchdog's interval is positive (never validated)
    backends,   \* names registered so far
    primary,    \* the default backend
    active, rr, \* the registry's balancer
    pc,         \* where each request is
    kind,       \* the endpoint it called
    left,       \* backends healthyOrderLocked still has to look at
    order,      \* backends it found healthy, in order
    pick,       \* the backend the request selected
    status,     \* what the client gets
    seen        \* history of a request: which backends were healthy, which
                \* degraded, at some moment of its selection

LB == INSTANCE LoadBalancer WITH Backends <- ChatBackends

mainvars == <<phase, expired, ticks, backends, primary>>
reqvars  == <<pc, kind, left, order, pick, status, seen>>
gvars    == <<wvars, mainvars, active, rr, reqvars>>

NoView == [up |-> {}, down |-> {}]

GInit ==
    /\ WInit
    /\ LB!LBInit
    /\ phase = "boot"
    /\ expired = FALSE
    /\ ticks \in BOOLEAN
    /\ backends = {}
    /\ primary = NoBackend
    /\ pc = [r \in Requests |-> "idle"]
    /\ kind = [r \in Requests |-> "none"]
    /\ left = [r \in Requests |-> {}]
    /\ order = [r \in Requests |-> <<>>]
    /\ pick = [r \in Requests |-> NoBackend]
    /\ status = [r \in Requests |-> "none"]
    /\ seen = [r \in Requests |-> NoView]

HealthyNow == {b \in ChatBackends : IsHealthy(b)}

\* The history of a selection, extended by the verdicts of one more state.
Witness(view, healthy) ==
    [up   |-> view.up \cup healthy,
     down |-> view.down \cup (ChatBackends \ healthy)]

-----------------------------------------------------------------------------
(* Main: registration, start, shutdown. *)

\* The first registered backend becomes the primary.
Register(b) ==
    /\ phase = "boot"
    /\ b \notin backends
    /\ backends' = backends \cup {b}
    /\ primary' = IF primary = NoBackend THEN b ELSE primary
    /\ UNCHANGED <<wvars, phase, expired, ticks, active, rr, reqvars>>

StartWatchdog ==
    /\ phase = "boot"
    /\ backends = ChatBackends
    /\ Start
    /\ phase' = "starting"
    /\ UNCHANGED <<expired, ticks, backends, primary, active, rr, reqvars>>

\* Faulty variant: main listens while the first round still runs.
ServeEarly ==
    /\ phase = "starting"
    /\ phase' = "serving"
    /\ UNCHANGED <<wvars, expired, ticks, backends, primary, active, rr, reqvars>>

\* wd.Start() has returned, so its first round is over; then the listener opens.
Serve ==
    /\ phase = "starting"
    /\ wpc \notin {"new", "starting"}
    /\ phase' = "serving"
    /\ UNCHANGED <<wvars, expired, ticks, backends, primary, active, rr, reqvars>>

\* os.Exit: the tracer cannot be set up, or ListenAndServe returns an error
\* other than ErrServerClosed, at once (the port is taken) or as long as main
\* has not called Shutdown, with requests under way or not.
ListenFails ==
    /\ phase \in {"starting", "serving", "stopping"}
    /\ wpc \notin {"new", "starting"}
    /\ phase' = "crashed"
    /\ UNCHANGED <<wvars, expired, ticks, backends, primary, active, rr, reqvars>>

\* SIGINT or SIGTERM: the 15 s context starts and the watchdog is stopped.
Signal ==
    /\ phase = "serving"
    /\ Stop
    /\ phase' = "stopping"
    /\ UNCHANGED <<expired, ticks, backends, primary, active, rr, reqvars>>

\* The tracer flush, if any, is over: server.Shutdown closes the listener.
BeginShutdown ==
    /\ phase = "stopping"
    /\ phase' = "draining"
    /\ UNCHANGED <<wvars, expired, ticks, backends, primary, active, rr, reqvars>>

\* The flush and the drain share the 15 s.
Expire ==
    /\ phase \in {"stopping", "draining"}
    /\ ~expired
    /\ expired' = TRUE
    /\ UNCHANGED <<wvars, phase, ticks, backends, primary, active, rr, reqvars>>

\* Faulty variant: Shutdown with a context that never ends.
ExitWaits ==
    /\ phase = "draining"
    /\ \A r \in Requests : pc[r] = "idle"
    /\ phase' = "exited"
    /\ UNCHANGED <<wvars, expired, ticks, backends, primary, active, rr, reqvars>>

\* Shutdown returns when no connection is active or its context is over, and
\* main returns: whatever still runs is cut.
Exit ==
    /\ phase = "draining"
    /\ expired \/ \A r \in Requests : pc[r] = "idle"
    /\ phase' = "exited"
    /\ UNCHANGED <<wvars, expired, ticks, backends, primary, active, rr, reqvars>>

-----------------------------------------------------------------------------
(* A request that passed authentication and rate limiting. *)

Running == phase \notin {"exited", "crashed"}

\* Requests are delivered while the listener is open, and after Shutdown closed
\* it on the connections accepted before.
Delivering == phase \in {"serving", "stopping", "draining"}

\* The request arrives, its body is valid, and PrimaryHealthy begins.
Arrive(r, k) ==
    /\ Delivering
    /\ pc[r] = "idle"
    /\ pc' = [pc EXCEPT ![r] = "scan"]
    /\ kind' = [kind EXCEPT ![r] = k]
    /\ left' = [left EXCEPT ![r] = backends]
    /\ seen' = [seen EXCEPT ![r] = Witness(NoView, HealthyNow)]
    /\ UNCHANGED <<wvars, mainvars, active, rr, order, pick, status>>

\* The body does not parse or misses what the endpoint requires; the models
\* endpoint reads no body.
Reject(r, k) ==
    /\ Delivering
    /\ pc[r] = "idle"
    /\ k # "models"
    /\ pc' = [pc EXCEPT ![r] = "done"]
    /\ kind' = [kind EXCEPT ![r] = k]
    /\ status' = [status EXCEPT ![r] = "invalid"]
    /\ UNCHANGED <<wvars, mainvars, active, rr, left, order, pick, seen>>

\* Faulty variant: the verdict is not consulted.
ScanIgnoresHealth(r, b) ==
    /\ Running
    /\ pc[r] = "scan"
    /\ b \in left[r]
    /\ primary \in left[r] => b = primary
    /\ left' = [left EXCEPT ![r] = @ \ {b}]
    /\ order' = [order EXCEPT ![r] = Append(@, b)]
    /\ UNCHANGED <<wvars, mainvars, active, rr, pc, kind, pick, status, seen>>

\* One IsHealthy call: the primary first, the others in map order.
Scan(r, b) ==
    /\ Running
    /\ pc[r] = "scan"
    /\ b \in left[r]
    /\ primary \in left[r] => b = primary
    /\ left' = [left EXCEPT ![r] = @ \ {b}]
    /\ order' = [order EXCEPT ![r] = IF IsHealthy(b) THEN Append(@, b) ELSE @]
    /\ UNCHANGED <<wvars, mainvars, active, rr, pc, kind, pick, status, seen>>

\* Faulty variant: the request looks again until a backend is healthy.
RefuseRetries(r) ==
    /\ Running
    /\ pc[r] = "scan" /\ left[r] = {}
    /\ order[r] = <<>>
    /\ left' = [left EXCEPT ![r] = backends]
    /\ UNCHANGED <<wvars, mainvars, active, rr, pc, kind, order, pick, status, seen>>

\* ErrNoHealthyBackend.
Refuse(r) ==
    /\ Running
    /\ pc[r] = "scan" /\ left[r] = {}
    /\ order[r] = <<>>
    /\ pc' = [pc EXCEPT ![r] = "done"]
    /\ status' = [status EXCEPT ![r] = "unavailable"]
    /\ UNCHANGED <<wvars, mainvars, active, rr, kind, left, order, pick, seen>>

SelectBackend(r) ==
    /\ Running
    /\ pc[r] = "scan" /\ left[r] = {}
    /\ order[r] # <<>>
    /\ \E b \in ChatBackends :
        /\ LB!Select(order[r], DOMAIN order[r], b)
        /\ pick' = [pick EXCEPT ![r] = b]
    /\ pc' = [pc EXCEPT ![r] = "selected"]
    /\ UNCHANGED <<wvars, mainvars, kind, left, order, status, seen>>

\* PrimaryHealthy returns and the upstream call begins.  A stream has sent its
\* 200 by then.
AcquireBackend(r) ==
    /\ Running
    /\ pc[r] = "selected"
    /\ LB!Acquire(pick[r])
    /\ pc' = [pc EXCEPT ![r] = "calling"]
    /\ status' = [status EXCEPT ![r] = IF kind[r] = "stream" THEN "ok" ELSE @]
    /\ order' = [order EXCEPT ![r] = <<>>]
    /\ seen' = [seen EXCEPT ![r] = NoView]
    /\ UNCHANGED <<wvars, mainvars, kind, left, pick>>

\* Faulty variant: the error path returns without releasing the backend.
CallReturnsLeaks(r, ok) ==
    /\ Running
    /\ pc[r] = "calling"
    /\ pc' = [pc EXCEPT ![r] = IF ok THEN "release" ELSE "done"]
    /\ status' = [status EXCEPT ![r] = IF @ = "ok" \/ ok THEN "ok" ELSE "error"]
    /\ UNCHANGED <<wvars, mainvars, active, rr, kind, left, order, pick, seen>>

\* The upstream call ends, well or not (an error, a timeout, a client that
\* left, a panic).  Only a request that has not answered can report an error.
CallReturns(r, ok) ==
    /\ Running
    /\ pc[r] = "calling"
    /\ pc' = [pc EXCEPT ![r] = "release"]
    /\ status' = [status EXCEPT ![r] = IF @ = "ok" \/ ok THEN "ok" ELSE "error"]
    /\ UNCHANGED <<wvars, mainvars, active, rr, kind, left, order, pick, seen>>

\* The deferred ReleaseBackend.
ReleaseBackend(r) ==
    /\ Running
    /\ pc[r] = "release"
    /\ LB!Release(pick[r])
    /\ pc' = [pc EXCEPT ![r] = "done"]
    /\ pick' = [pick EXCEPT ![r] = NoBackend]
    /\ UNCHANGED <<wvars, mainvars, kind, left, order, status, seen>>

\* The handler has returned and the response is flushed.
Reply(r) ==
    /\ Running
    /\ pc[r] = "done"
    /\ pc' = [pc EXCEPT ![r] = "idle"]
    /\ kind' = [kind EXCEPT ![r] = "none"]
    /\ status' = [status EXCEPT ![r] = "none"]
    /\ seen' = [seen EXCEPT ![r] = NoView]
    /\ UNCHANGED <<wvars, mainvars, active, rr, left, order, pick>>

-----------------------------------------------------------------------------
(* The watchdog inside the process, and the services outside it. *)

ServiceToggles(s) == Running /\ Toggle(s) /\ UNCHANGED <<mainvars, active, rr, reqvars>>

HealthCallReturns(s) == Running /\ Answer(s) /\ UNCHANGED <<mainvars, active, rr, reqvars>>

\* A verdict may change: the requests in their selection witness it.
VerdictApplied ==
    /\ Running
    /\ Apply
    /\ seen' = [r \in Requests |->
                  IF pc[r] = "scan" THEN Witness(seen[r], HealthyNow') ELSE seen[r]]
    /\ UNCHANGED <<mainvars, active, rr, pc, kind, left, order, pick, status>>

RoundEnds == Running /\ ProbeDone /\ UNCHANGED <<mainvars, active, rr, reqvars>>
RoundBegins == Running /\ ticks /\ LoopTick /\ UNCHANGED <<mainvars, active, rr, reqvars>>
WatchdogEnds == Running /\ ticks /\ LoopDone /\ UNCHANGED <<mainvars, active, rr, reqvars>>

\* The goroutine's NewTicker panics at an interval that is not positive: the
\* process ends, whatever main and the requests are doing by then.
TickerPanics ==
    /\ Running
    /\ wpc = "select"
    /\ ~ticks
    /\ phase' = "crashed"
    /\ UNCHANGED <<wvars, expired, ticks, backends, primary, active, rr, reqvars>>

-----------------------------------------------------------------------------
MainStep ==
    \/ \E b \in ChatBackends : Register(b)
    \/ StartWatchdog
    \/ Serve
    \/ ListenFails
    \/ Signal
    \/ BeginShutdown
    \/ Expire
    \/ Exit

RequestStep(r) ==
    \/ \E k \in Kinds : Arrive(r, k)
    \/ \E k \in Kinds : Reject(r, k)
    \/ \E b \in ChatBackends : Scan(r, b)
    \/ Refuse(r)
    \/ SelectBackend(r)
    \/ AcquireBackend(r)
    \/ \E ok \in BOOLEAN : CallReturns(r, ok)
    \/ ReleaseBackend(r)
    \/ Reply(r)

WatchdogStep ==
    \/ \E s \in Services : ServiceToggles(s)
    \/ \E s \in Services : HealthCallReturns(s)
    \/ VerdictApplied
    \/ RoundEnds
    \/ RoundBegins
    \/ WatchdogEnds
    \/ TickerPanics

Terminated == ~Running /\ UNCHANGED gvars

GNext ==
    \/ MainStep
    \/ \E r \in Requests : RequestStep(r)
    \/ WatchdogStep
    \/ Terminated

(***************************************************************************)
(* Main, the handlers and the watchdog goroutine keep running; the 15 s    *)
(* timer fires; an upstream call returns because the backend's HTTP client *)
(* has a timeout, except a stream, whose client has none.  Nothing forces  *)
(* a request, a signal or a change of a service.                           *)
(***************************************************************************)
GFairness ==
    /\ WF_gvars(MainStep /\ phase # "serving")
    /\ \A r \in Requests :
        /\ WF_gvars(RequestStep(r) /\ pc[r] \notin {"idle", "calling"})
        /\ WF_gvars((\E ok \in BOOLEAN : CallReturns(r, ok)) /\ kind[r] # "stream")
    /\ \A s \in Services : WF_gvars(HealthCallReturns(s))
    /\ WF_gvars(VerdictApplied)
    /\ WF_gvars(RoundEnds)

GSpec == GInit /\ [][GNext]_gvars /\ GFairness

-----------------------------------------------------------------------------
(* Types of main's, the registry's and the requests' state. *)
GTypeOK ==
    /\ WTypeOK
    /\ LB!LBTypeOK
    /\ phase \in {"boot", "starting", "serving", "stopping", "draining", "exited", "crashed"}
    /\ expired \in BOOLEAN
    /\ ticks \in BOOLEAN
    /\ backends \in SUBSET ChatBackends
    /\ primary \in ChatBackends \cup {NoBackend}
    /\ pc \in [Requests -> {"idle", "scan", "selected", "calling", "release", "done"}]
    /\ kind \in [Requests -> Kinds \cup {"none"}]
    /\ left \in [Requests -> SUBSET ChatBackends]
    /\ order \in [Requests -> Seq(ChatBackends)]
    /\ pick \in [Requests -> ChatBackends \cup {NoBackend}]
    /\ status \in [Requests -> {"none", "ok", "invalid", "unavailable", "error"}]
    /\ seen \in [Requests -> [up : SUBSET ChatBackends, down : SUBSET ChatBackends]]

\* The requests that are counted as in flight on b.
Holders(b) == {r \in Requests : pc[r] \in {"calling", "release"} /\ pick[r] = b}

(* The balancer's count is exactly the number of requests whose upstream    *)
(* call on the backend has begun and is not released: no error path leaks   *)
(* a count or releases twice, so the floor in Release never hides one.      *)
InFlightExact == \A b \in ChatBackends : active[b] = Cardinality(Holders(b))

\* The position that Select returns from the candidates of r.
Chosen(r, i) ==
    LET tied == LB!Tied(order[r], DOMAIN order[r])
    IN  i \in tied /\ LB!IsNth(order[r], DOMAIN order[r], i, rr % Cardinality(tied))

(* Whatever the loads are and however far the shared counter has come, also *)
(* in the middle of other requests' selections and releases, Select has one *)
(* position to return and no other: its index into the tied candidates,     *)
(* whose number changes from call to call, is never out of range.           *)
SelectionDefined ==
    \A r \in Requests : order[r] # <<>> =>
        \E i \in DOMAIN order[r] :
            Chosen(r, i) /\ \A j \in DOMAIN order[r] : Chosen(r, j) => j = i

(* A request is sent only to a backend that IsHealthy reported healthy at   *)
(* some moment of this request's own selection: a backend that was degraded *)
(* all along is skipped, whatever verdicts change during the selection.     *)
PickWasHealthy == \A r \in Requests : pc[r] = "selected" => pick[r] \in seen[r].up

(* A request is refused only if every backend was degraded at some moment   *)
(* of its selection: a backend that stayed healthy all along prevents it.   *)
RefusalJustified ==
    \A r \in Requests : status[r] = "unavailable" => seen[r].down = ChatBackends

(* What selection decides is justified by verdicts it could see. *)
ChoiceJustified == PickWasHealthy /\ RefusalJustified

(* No request is handled before the watchdog has a verdict on every         *)
(* service, because Start runs its first round before main listens.         *)
ProbedBeforeTraffic ==
    (\E r \in Requests : pc[r] # "idle") => probed = Names

(* After the signal the process ends, even if a stream never does.          *)
ShutdownEnds == phase = "stopping" ~> ~Running

(* A request that is not a stream is answered.  Nothing but a failing       *)
(* listener or ticker, which take the process down at once, and the end of  *)
(* the 15 s shutdown may leave it unanswered: neither the signal, the       *)
(* tracer flush nor a drain that ends in time does.                         *)
RequestAnswered ==
    \A r \in Requests :
        pc[r] = "scan" /\ kind[r] # "stream"
            ~> pc[r] = "idle" \/ phase = "crashed" \/ expired

-----------------------------------------------------------------------------
(***************************************************************************)
(* The parts of the inductive invariant behind these properties.           *)
(***************************************************************************)

\* A request has a pick from its selection to its release, and no other time.
PickInv ==
    \A r \in Requests :
        pc[r] \in {"selected", "calling", "release"} <=> pick[r] \in ChatBackends

\* A response is decided only by the steps that write one.
StatusInv ==
    \A r \in Requests :
        /\ pc[r] \in {"idle", "scan", "selected"} => status[r] = "none"
        /\ pc[r] \in {"calling", "release"} => status[r] \in {"none", "ok", "error"}

\* The history of a selection covers the present verdicts and what the scan
\* has found so far.
ViewInv ==
    \A r \in Requests :
        /\ pc[r] \notin {"scan", "selected"} => order[r] = <<>>
        /\ pc[r] = "scan" =>
            /\ HealthyNow \subseteq seen[r].up
            /\ ChatBackends \ HealthyNow \subseteq seen[r].down
            /\ \A i \in DOMAIN order[r] : order[r][i] \in seen[r].up
            /\ order[r] = <<>> => ChatBackends \ left[r] \subseteq seen[r].down

\* The watchdog's first round, and main's phases around it.
BootInv ==
    /\ OneAnswer
    /\ wpc \in {"new", "select", "stopped"} => todo = {} /\ answer = {}
    /\ \A s \in Services :
        wpc = "new" \/ s \in todo \/ Pending(s) \/ NameOf(s) \in probed
    /\ wpc \in {"select", "probing", "stopped"} => probed = Names
    /\ phase = "boot" => wpc = "new"
    /\ phase \notin {"boot", "starting"} => wpc \in {"select", "probing", "stopped"}
    /\ phase # "boot" => backends = ChatBackends
    /\ phase \in {"boot", "starting"} => \A r \in Requests : pc[r] = "idle"
    /\ primary # NoBackend => primary \in backends

GInv ==
    /\ GTypeOK /\ PickInv /\ InFlightExact /\ StatusInv
    /\ ViewInv /\ PickWasHealthy /\ RefusalJustified
    /\ BootInv

=============================================================================
