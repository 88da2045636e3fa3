------------------------------ MODULE Pipeline ------------------------------
(***************************************************************************)
(* The middleware around the protected endpoints (internal/middleware, put *)
(* together in internal/server/server.go and again, with a rate limiter of *)
(* its own, for the speech endpoint in cmd/inferencia/main.go).            *)
(*                                                                         *)
(* Chain nests the handlers, so a request is a stack of calls.  frames[r]  *)
(* holds the context each entered layer was called with; the innermost     *)
(* layer runs.  A layer either calls the next one, or returns, or (the     *)
(* handler) panics, and a panic unwinds the stack through the deferred     *)
(* calls until Recover stops it.  Requests run concurrently and share the  *)
(* rate limiters and the metrics.                                          *)
(***************************************************************************)
EXTENDS Integers, FiniteSets, Sequences

CONSTANTS
    Requests,   \* requests, each served once
    Keys,       \* the keys in the key store
    BadKeys,    \* well-formed tokens that are not in it
    NoKey,      \* no, or a malformed, Authorization header; no key in a context
    Routes,     \* groups of endpoints: each group has a rate limiter
    Burst,      \* ratelimit.burst
    MaxTicks    \* how often the model refills the buckets

ASSUME PipelineAssumption ==
    /\ IsFiniteSet(Requests)
    /\ NoKey \notin Keys \cup BadKeys
    /\ Keys \cap BadKeys = {}
    /\ Burst \in Nat \ {0}
    /\ MaxTicks \in Nat

\* What the handlers behind the chain answer, and all the answers there are.
HandlerCodes == {200, 400, 500, 503, 504}
Codes == HandlerCodes \cup {401, 429}
NoCode == 0
Aborted == 1    \* net/http closes the connection without an answer

VARIABLES
    route,      \* request -> the group of endpoints it was sent to
    cred,       \* request -> what its Authorization header holds
    frames,     \* request -> contexts of the entered layers, innermost last
    mode,       \* request -> not there, calling inward, returning, panicking, done
    wire,       \* request -> the status the client gets; the first one written
    captured,   \* request -> the status in the writers of Metrics and Logging
    panicked,   \* history: the handler panicked
    paid,       \* history: a token was taken for the request
    line,       \* request -> its canonical log lines
    inflight,   \* inferencia_http_requests_in_flight
    total,      \* inferencia_http_requests_total, by status
    budget,     \* route -> key -> tokens in the bucket
    ticks       \* refills so far

netvars == <<route, cred, wire, captured>>
obsvars == <<line, inflight, total>>
limvars == <<budget, ticks, paid>>
pvars   == <<netvars, obsvars, limvars, frames, mode, panicked>>

EmptyContext == [id |-> FALSE, key |-> NoKey]

PInit ==
    /\ route \in [Requests -> Routes]
    /\ cred \in [Requests -> Keys \cup BadKeys \cup {NoKey}]
    /\ frames = [r \in Requests |-> <<>>]
    /\ mode = [r \in Requests |-> "new"]
    /\ wire = [r \in Requests |-> NoCode]
    /\ captured = [r \in Requests |-> 200]
    /\ panicked = [r \in Requests |-> FALSE]
    /\ paid = [r \in Requests |-> FALSE]
    /\ line = [r \in Requests |-> {}]
    /\ inflight = 0
    /\ total = [c \in Codes |-> 0]
    /\ budget = [g \in Routes |-> [k \in Keys |-> Burst]]
    /\ ticks = 0

\* Faulty variant: the rate limiter runs before the authentication.
LayersSwapped ==
    <<"request_id", "recover", "metrics", "logging", "ratelimit", "auth", "handler">>

\* The layers, outermost first.
Layers == <<"request_id", "recover", "metrics", "logging", "auth", "ratelimit", "handler">>

Depth(r) == Len(frames[r])
Context(r) == frames[r][Depth(r)]
Runs(r, layer, m) == mode[r] = m /\ Depth(r) > 0 /\ Layers[Depth(r)] = layer

\* next.ServeHTTP with the given context.
Call(r, ctx) ==
    /\ frames' = [frames EXCEPT ![r] = Append(@, ctx)]
    /\ UNCHANGED <<mode, panicked>>

\* The layer ends and its caller goes on in mode m.
Leave(r, m) ==
    /\ frames' = [frames EXCEPT ![r] = SubSeq(@, 1, Depth(r) - 1)]
    /\ mode' = [mode EXCEPT ![r] = m]
    /\ UNCHANGED panicked

\* WriteHeader below Logging passes both status writers, which keep the first
\* status as the connection does.
Write(r, code) ==
    /\ wire' = [wire EXCEPT ![r] = IF @ = NoCode THEN code ELSE @]
    /\ captured' = [captured EXCEPT ![r] = IF wire[r] = NoCode THEN code ELSE @]
    /\ UNCHANGED <<route, cred>>

-----------------------------------------------------------------------------
(* The way in. *)

Arrive(r) ==
    /\ mode[r] = "new"
    /\ mode' = [mode EXCEPT ![r] = "call"]
    /\ frames' = [frames EXCEPT ![r] = <<EmptyContext>>]
    /\ UNCHANGED <<netvars, obsvars, limvars, panicked>>

RequestID(r) ==
    /\ Runs(r, "request_id", "call")
    /\ Call(r, [Context(r) EXCEPT !.id = TRUE])
    /\ UNCHANGED <<netvars, obsvars, limvars>>

\* Recover and Logging do nothing that shows before they call the next layer.
PassOn(r) ==
    /\ Runs(r, "recover", "call") \/ Runs(r, "logging", "call")
    /\ Call(r, Context(r))
    /\ UNCHANGED <<netvars, obsvars, limvars>>

Metrics(r) ==
    /\ Runs(r, "metrics", "call")
    /\ Call(r, Context(r))
    /\ inflight' = inflight + 1
    /\ UNCHANGED <<netvars, limvars, line, total>>

AuthPasses(r) ==
    /\ Runs(r, "auth", "call")
    /\ cred[r] \in Keys
    /\ Call(r, [Context(r) EXCEPT !.key = cred[r]])
    /\ UNCHANGED <<netvars, obsvars, limvars>>

AuthRejects(r) ==
    /\ Runs(r, "auth", "call")
    /\ cred[r] \notin Keys
    /\ Write(r, 401)
    /\ Leave(r, "return")
    /\ UNCHANGED <<obsvars, limvars>>

\* Faulty variant: the bucket is looked at and no token is taken.
LimitPassesFree(r) ==
    LET k == Context(r).key IN
    /\ Runs(r, "ratelimit", "call")
    /\ k \in Keys /\ budget[route[r]][k] > 0
    /\ paid' = [paid EXCEPT ![r] = TRUE]
    /\ Call(r, Context(r))
    /\ UNCHANGED <<netvars, obsvars, ticks, budget>>

\* A context without a key skips the limiter.
LimitPasses(r) ==
    LET k == Context(r).key IN
    /\ Runs(r, "ratelimit", "call")
    /\ k \in Keys => budget[route[r]][k] > 0
    /\ IF k \in Keys
       THEN /\ budget' = [budget EXCEPT ![route[r]][k] = @ - 1]
            /\ paid' = [paid EXCEPT ![r] = TRUE]
       ELSE UNCHANGED <<budget, paid>>
    /\ Call(r, Context(r))
    /\ UNCHANGED <<netvars, obsvars, ticks>>

LimitRejects(r) ==
    LET k == Context(r).key IN
    /\ Runs(r, "ratelimit", "call")
    /\ k \in Keys /\ budget[route[r]][k] = 0
    /\ Write(r, 429)
    /\ Leave(r, "return")
    /\ UNCHANGED <<obsvars, limvars>>

\* Time refills every bucket of every limiter at the same rate.
Refill ==
    /\ ticks < MaxTicks
    /\ ticks' = ticks + 1
    /\ budget' = [g \in Routes |-> [k \in Keys |->
                    IF budget[g][k] < Burst THEN budget[g][k] + 1 ELSE Burst]]
    /\ UNCHANGED <<netvars, obsvars, frames, mode, panicked, paid>>

-----------------------------------------------------------------------------
(* The handler: it answers, ends without a word when the client is gone, or *)
(* panics before or after it has answered.                                  *)

HandlerWrites(r, code) ==
    /\ Runs(r, "handler", "call")
    /\ wire[r] = NoCode
    /\ Write(r, code)
    /\ UNCHANGED <<obsvars, limvars, frames, mode, panicked>>

HandlerReturns(r) ==
    /\ Runs(r, "handler", "call")
    /\ Leave(r, "return")
    /\ UNCHANGED <<netvars, obsvars, limvars>>

HandlerPanics(r) ==
    /\ Runs(r, "handler", "call")
    /\ frames' = [frames EXCEPT ![r] = SubSeq(@, 1, Depth(r) - 1)]
    /\ mode' = [mode EXCEPT ![r] = "panic"]
    /\ panicked' = [panicked EXCEPT ![r] = TRUE]
    /\ UNCHANGED <<netvars, obsvars, limvars>>

-----------------------------------------------------------------------------
(* The way out. *)

\* Faulty variant: the line is written with the status 200 it started with.
LoggingReturnsEarlyStatus(r) ==
    /\ Runs(r, "logging", "return")
    /\ line' = [line EXCEPT ![r] = @ \cup {[status |-> 200, key |-> Context(r).key]}]
    /\ Leave(r, "return")
    /\ UNCHANGED <<netvars, limvars, inflight, total>>

\* The canonical log line, with the key of the request Logging was given.
LoggingReturns(r) ==
    /\ Runs(r, "logging", "return")
    /\ line' = [line EXCEPT ![r] = @ \cup {[status |-> captured[r], key |-> Context(r).key]}]
    /\ Leave(r, "return")
    /\ UNCHANGED <<netvars, limvars, inflight, total>>

\* The counter, then the deferred decrement.
MetricsReturns(r) ==
    /\ Runs(r, "metrics", "return")
    /\ total' = [total EXCEPT ![captured[r]] = @ + 1]
    /\ inflight' = inflight - 1
    /\ Leave(r, "return")
    /\ UNCHANGED <<netvars, limvars, line>>

PassBack(r) ==
    /\ \E layer \in {"request_id", "recover", "auth", "ratelimit"} : Runs(r, layer, "return")
    /\ Leave(r, "return")
    /\ UNCHANGED <<netvars, obsvars, limvars>>

\* A panic runs the deferred calls only: Logging has none.
PanicPasses(r) ==
    /\ \E layer \in {"logging", "auth", "ratelimit"} : Runs(r, layer, "panic")
    /\ Leave(r, "panic")
    /\ UNCHANGED <<netvars, obsvars, limvars>>

\* Faulty variant: the decrement is not deferred.
MetricsUnwindsNoDefer(r) ==
    /\ Runs(r, "metrics", "panic")
    /\ Leave(r, "panic")
    /\ UNCHANGED <<netvars, obsvars, limvars>>

MetricsUnwinds(r) ==
    /\ Runs(r, "metrics", "panic")
    /\ inflight' = inflight - 1
    /\ Leave(r, "panic")
    /\ UNCHANGED <<netvars, limvars, line, total>>

\* Faulty variant: Recover logs and lets the panic go on.
RecoveredRepanics(r) ==
    /\ Runs(r, "recover", "panic")
    /\ Leave(r, "panic")
    /\ UNCHANGED <<netvars, obsvars, limvars>>

\* The 500 is written outside the status writers, and lost if the handler has
\* answered before.
Recovered(r) ==
    /\ Runs(r, "recover", "panic")
    /\ wire' = [wire EXCEPT ![r] = IF @ = NoCode THEN 500 ELSE @]
    /\ Leave(r, "return")
    /\ UNCHANGED <<route, cred, captured, obsvars, limvars>>

\* net/http: an answer nobody wrote is a 200; a panic that got through ends
\* the connection.
Finish(r) ==
    /\ Depth(r) = 0 /\ mode[r] \in {"return", "panic"}
    /\ mode' = [mode EXCEPT ![r] = "done"]
    /\ wire' = [wire EXCEPT ![r] = IF mode[r] = "panic" THEN Aborted
                                   ELSE IF @ = NoCode THEN 200 ELSE @]
    /\ UNCHANGED <<route, cred, captured, obsvars, limvars, frames, panicked>>

-----------------------------------------------------------------------------
Inward(r) ==
    \/ RequestID(r)
    \/ PassOn(r)
    \/ Metrics(r)
    \/ AuthPasses(r)
    \/ AuthRejects(r)
    \/ LimitPasses(r)
    \/ LimitRejects(r)

Outward(r) ==
    \/ LoggingReturns(r)
    \/ MetricsReturns(r)
    \/ PassBack(r)
    \/ PanicPasses(r)
    \/ MetricsUnwinds(r)
    \/ Recovered(r)
    \/ Finish(r)

HandlerEnds(r) == HandlerReturns(r) \/ HandlerPanics(r)

PNext ==
    \/ \E r \in Requests : Arrive(r)
    \/ \E r \in Requests : Inward(r)
    \/ \E r \in Requests, code \in HandlerCodes : HandlerWrites(r, code)
    \/ \E r \in Requests : HandlerEnds(r)
    \/ \E r \in Requests : Outward(r)
    \/ Refill

\* The goroutine of a request runs, and the handler ends: RequestAnswered of
\* the gateway, or the client's end of a stream.
PFairness ==
    \A r \in Requests : WF_pvars(Inward(r)) /\ WF_pvars(HandlerEnds(r)) /\ WF_pvars(Outward(r))

PSpec == PInit /\ [][PNext]_pvars /\ PFairness

-----------------------------------------------------------------------------
(* Types of the requests' stacks and of the shared state. *)
PTypeOK ==
    /\ route \in [Requests -> Routes]
    /\ cred \in [Requests -> Keys \cup BadKeys \cup {NoKey}]
    /\ frames \in [Requests -> Seq([id : BOOLEAN, key : Keys \cup {NoKey}])]
    /\ \A r \in Requests : Depth(r) <= Len(Layers)
    /\ mode \in [Requests -> {"new", "call", "return", "panic", "done"}]
    /\ wire \in [Requests -> Codes \cup {NoCode, Aborted}]
    /\ captured \in [Requests -> Codes]
    /\ panicked \in [Requests -> BOOLEAN]
    /\ paid \in [Requests -> BOOLEAN]
    /\ line \in [Requests -> SUBSET [status : Codes, key : Keys \cup {NoKey}]]
    /\ inflight \in Nat
    /\ total \in [Codes -> Nat]
    /\ budget \in [Routes -> [Keys -> 0..Burst]]
    /\ ticks \in 0..MaxTicks

\* Is the request inside the middleware at depth d, its first part done?
Inside(r, d) == Depth(r) > d \/ (Depth(r) = d /\ mode[r] # "call")

(* requests_in_flight counts exactly the requests inside Metrics, also while *)
(* a panic unwinds others, so it returns to zero.                            *)
InFlightGauge == inflight = Cardinality({r \in Requests : Inside(r, 3)})

\* What the client gets if nothing more is written.
Answer(r) == IF wire[r] = NoCode THEN 200 ELSE wire[r]

\* The requests that have left layer d, with or without an answer.
Left(d) == {r \in Requests : mode[r] \in {"return", "panic", "done"} /\ Depth(r) < d}

(* What is observed is what was answered: a request whose handler did not    *)
(* panic has, once it left Logging, one line, with the status the client     *)
(* gets, and requests_total counts each such request once under that status; *)
(* beyond those it could only count panicked requests.  The lines and counts *)
(* that panicked requests do not leave are SomePromiseKept's matter.         *)
ObservedAsAnswered ==
    /\ \A r \in Requests :
        /\ \A l, m \in line[r] : l = m /\ l.status = Answer(r)
        /\ r \in Left(4) /\ ~panicked[r] => line[r] # {}
    /\ \A c \in Codes :
        LET answered == {r \in Left(3) : ~panicked[r] /\ Answer(r) = c}
        IN  /\ total[c] >= Cardinality(answered)
            /\ total[c] <= Cardinality(answered \cup {r \in Left(3) : panicked[r]})

(* The handler works only for a request with a stored key for which a token  *)
(* was taken: the limiter's way around for requests without a key is dead as *)
(* long as Auth is outside RateLimit.                                        *)
HandlerPaid ==
    \A r \in Requests : Depth(r) = Len(Layers) => cred[r] \in Keys /\ paid[r]

\* The requests of key k that got a token of group g.
Granted(g, k) == {r \in Requests : paid[r] /\ route[r] = g /\ cred[r] = k}

(* A key gets, in each group of endpoints, at most its burst and what was    *)
(* refilled: the groups have limiters of their own.                          *)
KeyBudget ==
    \A g \in Routes, k \in Keys : Cardinality(Granted(g, k)) <= Burst + ticks

(* Every request is answered with a status, whatever the handler does.       *)
AlwaysAnswered ==
    \A r \in Requests : mode[r] = "call" ~> mode[r] = "done" /\ wire[r] \in Codes

-----------------------------------------------------------------------------
(***************************************************************************)
(* What the documents promise of every request.                            *)
(***************************************************************************)

\* "Every request produces one canonical log line".
EveryRequestLogged ==
    \A r \in Requests : mode[r] = "done" => line[r] # {}

\* "Records Prometheus metrics for every request", under the client's status.
EveryRequestCounted ==
    \A c \in Codes :
        total[c] >= Cardinality({r \in Requests : mode[r] = "done" /\ wire[r] = c})

\* "Logging runs after Auth so the canonical log line includes the masked API
\* key": the line of an authenticated request names its key.
LineNamesKey ==
    \A r \in Requests : cred[r] \in Keys => \A l \in line[r] : l.key = cred[r]

(* Of the three promises at least one is kept.  The code keeps none: a       *)
(* single behaviour, in which one of two requests panics, breaks them all.   *)
SomePromiseKept == EveryRequestLogged \/ EveryRequestCounted \/ LineNamesKey

=============================================================================
