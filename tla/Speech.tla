------------------------------- MODULE Speech -------------------------------
(***************************************************************************)
(* The text-to-speech endpoint: the capability router (internal/router)    *)
(* with a balancer of its own, and the audio handler                       *)
(* (internal/handler/audio.go).  A request asks for a model; the router    *)
(* lists the backends, drops the degraded ones, scores the others by how   *)
(* well they match, and balances over the best.  Listing, one IsHealthy    *)
(* call per backend, Select and Acquire are separate critical sections.    *)
(*                                                                         *)
(* The watchdog appears here only by its verdicts, which change at any     *)
(* moment.  Model names appear by how they relate: Extends.                *)
(***************************************************************************)
EXTENDS Integers, Sequences, FiniteSets

CONSTANTS
    TTSBackends,    \* names of the router's entries
    Adapterless,    \* entries without an adapter; main registers none, since
                    \* NewTTSHTTP always returns one
    Requests,       \* requests, each served once
    Models,         \* model names, those of the backends among them
    Extends,        \* <<m, n>>: n begins with m and is longer
    DefaultModel,   \* "kokoro"
    NoBackend,      \* the zero value of a backend name
    RRMod           \* modulus of the balancer's counter

ASSUME SpeechAssumption ==
    /\ IsFiniteSet(TTSBackends) /\ TTSBackends # {}
    /\ Adapterless \subseteq TTSBackends
    /\ IsFiniteSet(Requests)
    /\ TTSBackends \subseteq Models
    /\ DefaultModel \in Models
    /\ Extends \subseteq Models \X Models
    /\ \A m \in Models : <<m, m>> \notin Extends
    /\ NoBackend \notin TTSBackends
    /\ RRMod \in Nat \ {0}

VARIABLES
    healthy,    \* name -> the watchdog's verdict
    active, rr, \* the router's balancer
    pc,         \* where each request is
    model,      \* the model it asks for, after the default
    left,       \* backends selectBackend still has to look at
    order,      \* backends it found healthy, in order
    pick,       \* the backend the request selected
    status,     \* what the client gets
    decisions,  \* inferencia_router_decisions_total
    outcomes,   \* inferencia_tts_requests_total
    sick        \* history: backends degraded at some moment of the selection

LB == INSTANCE LoadBalancer WITH Backends <- TTSBackends

counters == <<decisions, outcomes>>
spvars == <<healthy, active, rr, pc, model, left, order, pick, status, counters, sick>>

SpInit ==
    /\ healthy = [b \in TTSBackends |-> TRUE]
    /\ LB!LBInit
    /\ pc = [r \in Requests |-> "idle"]
    /\ model = [r \in Requests |-> DefaultModel]
    /\ left = [r \in Requests |-> {}]
    /\ order = [r \in Requests |-> <<>>]
    /\ pick = [r \in Requests |-> NoBackend]
    /\ status = [r \in Requests |-> "none"]
    /\ decisions = [b \in TTSBackends |-> 0]
    /\ outcomes = [b \in TTSBackends |-> [success |-> 0, error |-> 0]]
    /\ sick = [r \in Requests |-> {}]

Degraded == {b \in TTSBackends : ~healthy[b]}

-----------------------------------------------------------------------------
(* scoreBackend.  Main registers every backend with one model, its own name, *)
(* so the sum over its models has one term.                                  *)
ExactScore == 100
PrefixScore == 50
CapabilityScore == 10

\* Faulty variant: only the name itself is a match.
RequiredExact == 100

\* Less than this is not a match.
RequiredScore == 50

Score(b, m) ==
    (IF b = m THEN ExactScore ELSE IF <<m, b>> \in Extends THEN PrefixScore ELSE 0)
        + CapabilityScore

\* The positions of the candidates with the best score, if that is a match at all.
TopTier(names, m) ==
    {i \in DOMAIN names :
        /\ Score(names[i], m) >= RequiredScore
        /\ \A j \in DOMAIN names : Score(names[i], m) >= Score(names[j], m)}

-----------------------------------------------------------------------------
(* The watchdog changes its verdict; a selection that runs may miss it. *)
VerdictChanges(b) ==
    /\ healthy' = [healthy EXCEPT ![b] = ~@]
    /\ sick' = [r \in Requests |->
                  IF pc[r] = "scan" /\ healthy[b] THEN sick[r] \cup {b} ELSE sick[r]]
    /\ UNCHANGED <<active, rr, pc, model, left, order, pick, status, counters>>

(* The body is valid; an empty model is replaced by the default. *)
Arrive(r, m) ==
    /\ pc[r] = "idle"
    /\ pc' = [pc EXCEPT ![r] = "scan"]
    /\ model' = [model EXCEPT ![r] = m]
    /\ left' = [left EXCEPT ![r] = TTSBackends]
    /\ sick' = [sick EXCEPT ![r] = Degraded]
    /\ UNCHANGED <<healthy, active, rr, order, pick, status, counters>>

(* Invalid JSON, no input, or more than 4096 bytes of it. *)
Reject(r) ==
    /\ pc[r] = "idle"
    /\ pc' = [pc EXCEPT ![r] = "done"]
    /\ status' = [status EXCEPT ![r] = "invalid"]
    /\ UNCHANGED <<healthy, active, rr, model, left, order, pick, counters, sick>>

(* One IsHealthy call; BackendsByCapability lists in map order. *)
Scan(r, b) ==
    /\ pc[r] = "scan"
    /\ b \in left[r]
    /\ left' = [left EXCEPT ![r] = @ \ {b}]
    /\ order' = [order EXCEPT ![r] = IF healthy[b] THEN Append(@, b) ELSE @]
    /\ UNCHANGED <<healthy, active, rr, pc, model, pick, status, counters, sick>>

(* No healthy backend, or none that matches. *)
Refuse(r) ==
    /\ pc[r] = "scan" /\ left[r] = {}
    /\ TopTier(order[r], model[r]) = {}
    /\ pc' = [pc EXCEPT ![r] = "done"]
    /\ status' = [status EXCEPT ![r] = "unavailable"]
    /\ UNCHANGED <<healthy, active, rr, model, left, order, pick, counters, sick>>

Pick(r) ==
    /\ pc[r] = "scan" /\ left[r] = {}
    /\ TopTier(order[r], model[r]) # {}
    /\ \E b \in TTSBackends :
        /\ LB!Select(order[r], TopTier(order[r], model[r]), b)
        /\ pick' = [pick EXCEPT ![r] = b]
    /\ pc' = [pc EXCEPT ![r] = "picked"]
    /\ UNCHANGED <<healthy, model, left, order, status, counters, sick>>

(* Acquire, the handler's defaults, the routing counter, and Synthesize begins. *)
Dispatch(r) ==
    /\ pc[r] = "picked"
    /\ pick[r] \notin Adapterless
    /\ LB!Acquire(pick[r])
    /\ decisions' = [decisions EXCEPT ![pick[r]] = @ + 1]
    /\ pc' = [pc EXCEPT ![r] = "calling"]
    /\ order' = [order EXCEPT ![r] = <<>>]
    /\ UNCHANGED <<healthy, model, left, pick, status, outcomes, sick>>

(* The entry has nothing to call: a 503, after the decision was counted. *)
DispatchNowhere(r) ==
    /\ pc[r] = "picked"
    /\ pick[r] \in Adapterless
    /\ LB!Acquire(pick[r])
    /\ decisions' = [decisions EXCEPT ![pick[r]] = @ + 1]
    /\ status' = [status EXCEPT ![r] = "unavailable"]
    /\ pc' = [pc EXCEPT ![r] = "release"]
    /\ order' = [order EXCEPT ![r] = <<>>]
    /\ UNCHANGED <<healthy, model, left, pick, outcomes, sick>>

\* Faulty variant: a failure is not counted.
SynthesizedErrorLost(r, ok) ==
    /\ pc[r] = "calling"
    /\ outcomes' = IF ok THEN [outcomes EXCEPT ![pick[r]].success = @ + 1] ELSE outcomes
    /\ status' = [status EXCEPT ![r] = IF ok THEN "ok" ELSE "error"]
    /\ pc' = [pc EXCEPT ![r] = "release"]
    /\ UNCHANGED <<healthy, active, rr, model, left, order, pick, decisions, sick>>

\* Faulty variant: the error path does not release the backend.
SynthesizedLeaks(r, ok) ==
    /\ pc[r] = "calling"
    /\ outcomes' = [outcomes EXCEPT ![pick[r]][IF ok THEN "success" ELSE "error"] = @ + 1]
    /\ status' = [status EXCEPT ![r] = IF ok THEN "ok" ELSE "error"]
    /\ pc' = [pc EXCEPT ![r] = IF ok THEN "release" ELSE "done"]
    /\ UNCHANGED <<healthy, active, rr, model, left, order, pick, decisions, sick>>

(* Synthesize returns: the audio, or an error (which becomes a 503 or 504). *)
Synthesized(r, ok) ==
    /\ pc[r] = "calling"
    /\ outcomes' = [outcomes EXCEPT ![pick[r]][IF ok THEN "success" ELSE "error"] = @ + 1]
    /\ status' = [status EXCEPT ![r] = IF ok THEN "ok" ELSE "error"]
    /\ pc' = [pc EXCEPT ![r] = "release"]
    /\ UNCHANGED <<healthy, active, rr, model, left, order, pick, decisions, sick>>

(* Synthesize panics: the deferred release runs and Recover answers, but no *)
(* outcome is counted.                                                      *)
SynthesizePanics(r) ==
    /\ pc[r] = "calling"
    /\ status' = [status EXCEPT ![r] = "internal"]
    /\ pc' = [pc EXCEPT ![r] = "release"]
    /\ UNCHANGED <<healthy, active, rr, model, left, order, pick, counters, sick>>

(* The deferred ReleaseBackend. *)
ReleaseBackend(r) ==
    /\ pc[r] = "release"
    /\ LB!Release(pick[r])
    /\ pc' = [pc EXCEPT ![r] = "done"]
    /\ UNCHANGED <<healthy, model, left, order, pick, status, counters, sick>>

RequestStep(r) ==
    \/ \E m \in Models : Arrive(r, m)
    \/ Reject(r)
    \/ \E b \in TTSBackends : Scan(r, b)
    \/ Refuse(r)
    \/ Pick(r)
    \/ Dispatch(r)
    \/ DispatchNowhere(r)
    \/ \E ok \in BOOLEAN : Synthesized(r, ok)
    \/ SynthesizePanics(r)
    \/ ReleaseBackend(r)

SpNext ==
    \/ \E b \in TTSBackends : VerdictChanges(b)
    \/ \E r \in Requests : RequestStep(r)

SpSpec == SpInit /\ [][SpNext]_spvars

-----------------------------------------------------------------------------
(* Types of the requests' and the router's state. *)
SpTypeOK ==
    /\ healthy \in [TTSBackends -> BOOLEAN]
    /\ LB!LBTypeOK
    /\ pc \in [Requests -> {"idle", "scan", "picked", "calling", "release", "done"}]
    /\ model \in [Requests -> Models]
    /\ left \in [Requests -> SUBSET TTSBackends]
    /\ order \in [Requests -> Seq(TTSBackends)]
    /\ pick \in [Requests -> TTSBackends \cup {NoBackend}]
    /\ status \in [Requests -> {"none", "ok", "invalid", "unavailable", "error", "internal"}]
    /\ decisions \in [TTSBackends -> Nat]
    /\ outcomes \in [TTSBackends -> [success : Nat, error : Nat]]
    /\ sick \in [Requests -> SUBSET TTSBackends]

\* The requests whose call on b has begun and is not released.
Calling(b) == {r \in Requests : pick[r] = b /\ pc[r] \in {"calling", "release"}}

(* The balancer of the router counts exactly the calls that are not released. *)
SpeechInFlight == \A b \in TTSBackends : active[b] = Cardinality(Calling(b))

Matches(b, m) == b = m \/ <<m, b>> \in Extends

(* The requested model decides: a request goes to a backend with that very    *)
(* name unless that backend was degraded at some moment of the selection, and *)
(* then to one whose name begins with it; never to another one.               *)
ModelHonoured ==
    \A r \in Requests :
        pick[r] # NoBackend =>
            /\ Matches(pick[r], model[r])
            /\ model[r] \in TTSBackends \ sick[r] => pick[r] = model[r]

(* The router refuses a request only if every backend that matches its model  *)
(* was degraded at some moment of the selection.                              *)
SpeechRefusalJustified ==
    \A r \in Requests :
        status[r] = "unavailable" /\ pick[r] = NoBackend
            => {b \in TTSBackends : Matches(b, model[r])} \subseteq sick[r]

(* The requested model decides where a request goes, and that it goes. *)
ModelDecides == ModelHonoured /\ SpeechRefusalJustified

\* The decisions for b that have no outcome: the call has not returned, it
\* panicked, or there was nothing to call.
WithoutOutcome(b) ==
    {r \in Requests : pick[r] = b /\ (pc[r] = "calling" \/ status[r] \in {"internal", "unavailable"})}

(* Every routing decision has one outcome, success or error, unless its call  *)
(* has not returned, panicked, or had no adapter: those are exactly what the  *)
(* two counters of a backend differ by, and no outcome is without a decision. *)
DecisionsAccounted ==
    \A b \in TTSBackends :
        decisions[b] = outcomes[b].success + outcomes[b].error + Cardinality(WithoutOutcome(b))

=============================================================================
