----------------------------- MODULE Readiness -----------------------------
(***************************************************************************)
(* The health endpoints (internal/handler/health.go and health_status.go)  *)
(* beside the watchdog.  GET /health/ready asks the chat backends one by   *)
(* one, stops at the first that fails, and writes what it found into       *)
(* inferencia_backend_healthy, which the watchdog writes as well.          *)
(* GET /health and /health/status ask every backend and report.            *)
(*                                                                         *)
(* A look at a backend is two steps: its health call returns, and the      *)
(* handler uses the result.  The call has the client's context, so it      *)
(* fails too when the client leaves.                                       *)
(***************************************************************************)
EXTENDS Watchdog

CONSTANT Checks     \* handler goroutines; each serves one check after another

ASSUME ReadinessAssumption == IsFiniteSet(Checks)

VARIABLES
    hpc,        \* idle, ready or status (the handler that runs), or answered
    hleft,      \* services the check still has to ask
    looked,     \* {} or {<<service, failed>>}: call returned, not yet used
    bad,        \* HealthStatus has found a service unhealthy: overall is "degraded"
    away,       \* its client has left
    reply,      \* what the client gets
    was         \* history: {<<service, up>>} at some moment of the check

hvars == <<hpc, hleft, looked, bad, away, reply, was>>
rvars == <<wvars, hvars>>

ChatServices == {s \in Services : s[1] = "chat"}

RInit ==
    /\ WInit
    /\ hpc = [c \in Checks |-> "idle"]
    /\ hleft = [c \in Checks |-> {}]
    /\ looked = [c \in Checks |-> {}]
    /\ bad = [c \in Checks |-> FALSE]
    /\ away = [c \in Checks |-> FALSE]
    /\ reply = [c \in Checks |-> "none"]
    /\ was = [c \in Checks |-> {}]

Running(c) == hpc[c] \in {"ready", "status"}

\* Main listens when the watchdog's Start has returned.
Begins(c, handler, services) ==
    /\ wpc \notin {"new", "starting"}
    /\ hpc[c] = "idle"
    /\ hpc' = [hpc EXCEPT ![c] = handler]
    /\ hleft' = [hleft EXCEPT ![c] = services]
    /\ was' = [was EXCEPT ![c] = {<<s, up[s]>> : s \in services}]
    /\ UNCHANGED <<wvars, looked, bad, away, reply>>

ReadyBegins(c) == Begins(c, "ready", ChatServices)
StatusBegins(c) == Begins(c, "status", Services)

\* Faulty variant: the error of the health call is dropped.
LookErrIgnored(c, s) == away[c]

LookErr(c, s) == ~up[s] \/ away[c]

\* A health call returns; the chat backends are asked before the others.
Look(c, s) ==
    /\ Running(c)
    /\ looked[c] = {} /\ s \in hleft[c]
    /\ s[1] = "tts" => \A t \in hleft[c] : t[1] = "tts"
    /\ hleft' = [hleft EXCEPT ![c] = @ \ {s}]
    /\ looked' = [looked EXCEPT ![c] = {<<s, LookErr(c, s)>>}]
    /\ UNCHANGED <<wvars, hpc, bad, away, reply, was>>

\* Ready writes the gauge, and answers 503 at the first failure.
ReadyUses(c) ==
    /\ hpc[c] = "ready"
    /\ \E l \in looked[c] :
        /\ gauge' = [gauge EXCEPT ![NameOf(l[1])] = IF l[2] THEN 0 ELSE 1]
        /\ looked' = [looked EXCEPT ![c] = {}]
        /\ IF l[2]
           THEN /\ reply' = [reply EXCEPT ![c] = "unavailable"]
                /\ hpc' = [hpc EXCEPT ![c] = "answered"]
                /\ hleft' = [hleft EXCEPT ![c] = {}]
           ELSE UNCHANGED <<reply, hpc, hleft>>
    /\ UNCHANGED <<up, states, probed, wpc, todo, answer, cancelled, streak, bad, away, was>>

\* Faulty variant: a service that fails is asked again.
StatusUsesRetries(c) ==
    /\ hpc[c] = "status"
    /\ \E l \in looked[c] :
        /\ bad' = [bad EXCEPT ![c] = @ \/ l[2]]
        /\ hleft' = [hleft EXCEPT ![c] = IF l[2] THEN @ \cup {l[1]} ELSE @]
    /\ looked' = [looked EXCEPT ![c] = {}]
    /\ UNCHANGED <<wvars, hpc, away, reply, was>>

\* HealthStatus enters the service, with the models of a healthy one.
StatusUses(c) ==
    /\ hpc[c] = "status"
    /\ \E l \in looked[c] : bad' = [bad EXCEPT ![c] = @ \/ l[2]]
    /\ looked' = [looked EXCEPT ![c] = {}]
    /\ UNCHANGED <<wvars, hpc, hleft, away, reply, was>>

\* 200, unless a service is unhealthy; Ready comes here only if none is.
Verdict(c) == IF bad[c] THEN "unavailable" ELSE "ok"

\* The loop is over and the response is written.
Answers(c) ==
    /\ Running(c)
    /\ hleft[c] = {} /\ looked[c] = {}
    /\ reply' = [reply EXCEPT ![c] = Verdict(c)]
    /\ hpc' = [hpc EXCEPT ![c] = "answered"]
    /\ UNCHANGED <<wvars, hleft, looked, bad, away, was>>

\* The handler has returned.
Done(c) ==
    /\ hpc[c] = "answered"
    /\ hpc' = [hpc EXCEPT ![c] = "idle"]
    /\ bad' = [bad EXCEPT ![c] = FALSE]
    /\ away' = [away EXCEPT ![c] = FALSE]
    /\ reply' = [reply EXCEPT ![c] = "none"]
    /\ was' = [was EXCEPT ![c] = {}]
    /\ UNCHANGED <<wvars, hleft, looked>>

ClientLeaves(c) ==
    /\ Running(c) /\ ~away[c]
    /\ away' = [away EXCEPT ![c] = TRUE]
    /\ UNCHANGED <<wvars, hpc, hleft, looked, bad, reply, was>>

-----------------------------------------------------------------------------
\* The services a check is about, from its beginning to its answer.
Asked(c) == {w[1] : w \in was[c]}

\* A service goes down or comes back: the checks that ask it could see it.
ServiceToggles(s) ==
    /\ Toggle(s)
    /\ was' = [c \in Checks |->
                 IF Running(c) /\ s \in Asked(c) THEN was[c] \cup {<<s, up'[s]>>} ELSE was[c]]
    /\ UNCHANGED <<hpc, hleft, looked, bad, away, reply>>

Beside(A) == A /\ UNCHANGED hvars

CheckStep(c) ==
    \/ \E s \in Services : Look(c, s)
    \/ ReadyUses(c)
    \/ StatusUses(c)
    \/ Answers(c)
    \/ Done(c)

RNext ==
    \/ \E s \in Services : ServiceToggles(s)
    \/ Beside(Start)
    \/ Beside(WStep)
    \/ Beside(Stop)
    \/ \E c \in Checks : ReadyBegins(c) \/ StatusBegins(c) \/ ClientLeaves(c)
    \/ \E c \in Checks : CheckStep(c)

(***************************************************************************)
(* The watchdog is fair as in its own module.  A check goes on: its health *)
(* calls have the adapters' timeout (TimedCallEnds of Upstream), where the *)
(* entry of a TTS backend gives one.  Nothing forces a check to begin.     *)
(***************************************************************************)
RFairness ==
    /\ WF_rvars(Beside(Start))
    /\ \A s \in Services : WF_rvars(Beside(Answer(s)))
    /\ WF_rvars(Beside(Apply))
    /\ WF_rvars(Beside(ProbeDone))
    /\ WF_rvars(Beside(LoopTick))
    /\ \A c \in Checks : WF_rvars(CheckStep(c))

RSpec == RInit /\ [][RNext]_rvars /\ RFairness

-----------------------------------------------------------------------------
(* Types of the checks' state. *)
RTypeOK ==
    /\ WTypeOK
    /\ hpc \in [Checks -> {"idle", "ready", "status", "answered"}]
    /\ hleft \in [Checks -> SUBSET Services]
    /\ looked \in [Checks -> SUBSET (Services \X BOOLEAN)]
    /\ bad \in [Checks -> BOOLEAN]
    /\ away \in [Checks -> BOOLEAN]
    /\ reply \in [Checks -> {"none", "ok", "unavailable"}]
    /\ was \in [Checks -> SUBSET (Services \X BOOLEAN)]

(* A 200 of a health endpoint means that every backend it is about was up at *)
(* some moment of the check (readiness: "every registered chat/embed backend *)
(* is reachable"), a 503 that one was down at some moment or the client had  *)
(* left: what the watchdog and other checks do in between changes neither.   *)
AnswersJustified ==
    \A c \in Checks :
        /\ reply[c] = "ok" => \A s \in ChatServices : <<s, TRUE>> \in was[c]
        /\ reply[c] = "ok" => \A s \in Asked(c) : <<s, TRUE>> \in was[c]
        /\ reply[c] = "unavailable" => away[c] \/ \E s \in Asked(c) : <<s, FALSE>> \in was[c]

Exported(n) == gauge[n] = IF IsHealthy(n) THEN 1 ELSE 0

(* inferencia_backend_healthy heals: a readiness check may write a result    *)
(* that is stale, or only its client's departure, over the watchdog's        *)
(* verdict, but once no such check runs the gauge is the verdict again, for  *)
(* good, although the verdict itself did not change.                         *)
GaugeHeals ==
    [](~cancelled) /\ <>[](\A c \in Checks : hpc[c] # "ready")
        => <>[](\A n \in Names : Exported(n))

(* Every check is answered, although services fail and clients leave.        *)
CheckAnswered == \A c \in Checks : Running(c) ~> hpc[c] = "answered"

=============================================================================
