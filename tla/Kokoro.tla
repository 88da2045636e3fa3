------------------------------- MODULE Kokoro -------------------------------
(***************************************************************************)
(* A Kokoro text-to-speech server (deploy/tts-servers) behind the gateway's *)
(* watchdog.  Two scripts exist: kokoro_server.py, which the launchd job    *)
(* starts, loads the model at the first request that needs it;              *)
(* kokoro-server.py loads it before it listens.  Either has one event loop, *)
(* and loading and synthesis block it, so a server does one thing at a time *)
(* and answers no health call meanwhile.                                    *)
(*                                                                          *)
(* The watchdog probes /health, the gateway sends speech requests only to a *)
(* server the watchdog has not degraded, and launchd restarts a process     *)
(* that ends.                                                               *)
(***************************************************************************)
EXTENDS Watchdog

CONSTANTS
    KokoroName,     \* the name of its entry under tts_backends:
    MaxAbandoned,   \* bound: requests in the socket for which the gateway does not wait
    MaxDirect       \* bound: speech requests that others send to the server itself

ASSUME KokoroAssumption ==
    /\ KokoroName \in TTSBackends
    /\ MaxAbandoned \in Nat
    /\ MaxDirect \in Nat

K == <<"tts", KokoroName>>

Lazy == "kokoro_server.py"
Eager == "kokoro-server.py"

VARIABLES
    script,     \* which of the two scripts runs
    server,     \* the process: see Fresh
    call,       \* the gateway's speech request: none, sent, or served
    reply,      \* what the gateway's client got last
    direct      \* history: how often others asked the server itself for speech

kvars == <<script, server, call, reply, direct>>
allvars == <<wvars, kvars>>

(* A process that has just been started.  state: down, starting (it does   *)
(* not listen yet) or serving; job: what the event loop is at; loaded: the *)
(* pipeline is there; lock: _load_lock; abandoned: requests in its socket  *)
(* that the gateway gave up or never sent; failed: history, a load failed. *)
Fresh == [state |-> IF script = Eager THEN "starting" ELSE "serving",
          job |-> "none", loaded |-> FALSE, lock |-> FALSE,
          abandoned |-> 0, failed |-> FALSE]

Down == [Fresh EXCEPT !.state = "down"]

\* Faulty variant: the endpoint answers 200 as soon as the process listens.
HealthyWhenListening(s) == s.state = "serving" /\ s.job = "none"

\* health() is reached and answers 200.
HealthOK(s) == s.state = "serving" /\ s.job = "none" /\ s.loaded

\* The server goes on as s; whether a health call would succeed follows.
Become(s) ==
    /\ server' = s
    /\ up' = [up EXCEPT ![K] = HealthOK(s)]
    /\ UNCHANGED <<states, probed, gauge, wpc, todo, answer, cancelled, streak, script, direct>>

KInit ==
    /\ WInit
    /\ ~up[K]
    /\ script \in {Lazy, Eager}
    /\ server = Down
    /\ call = "none"
    /\ reply = "none"
    /\ direct = 0

-----------------------------------------------------------------------------
(* launchd starts the process at login and again when it has ended. *)
Launch ==
    /\ server.state = "down"
    /\ Become(Fresh)
    /\ UNCHANGED <<call, reply>>

(* lifespan of the eager script: the load succeeds, or raises RuntimeError *)
(* and the server listens without a pipeline, or raises something else and *)
(* uvicorn ends.                                                           *)
StartupLoads ==
    /\ server.state = "starting"
    /\ Become([server EXCEPT !.state = "serving", !.loaded = TRUE])
    /\ UNCHANGED <<call, reply>>

StartupFails ==
    /\ server.state = "starting"
    /\ Become([server EXCEPT !.state = "serving", !.failed = TRUE])
    /\ UNCHANGED <<call, reply>>

StartupRaises ==
    /\ server.state = "starting"
    /\ Become(Down)
    /\ UNCHANGED <<call, reply>>

\* The answer r of the server, if the gateway still waits for this job.
Respond(r) ==
    /\ call' = IF call = "served" THEN "none" ELSE call
    /\ reply' = IF call = "served" THEN r ELSE reply

(* SIGTERM or a crash; a request that was being served loses its connection. *)
Dies ==
    /\ server.state # "down"
    /\ Become(Down)
    /\ Respond("error")

-----------------------------------------------------------------------------
\* Faulty variant: the verdict is not looked at.
RoutedAlways == TRUE

\* SelectHealthyBackend finds the server.
Routed == IsHealthy(KokoroName)

(* A client of the gateway wants speech: the request goes to the server, or *)
(* is refused because the watchdog has degraded it.                         *)
Ask ==
    /\ call = "none"
    /\ call' = IF Routed THEN "sent" ELSE "none"
    /\ reply' = IF Routed THEN "none" ELSE "refused"
    /\ UNCHANGED <<wvars, script, server, direct>>

\* Nobody listens: the connection is refused.
Unreachable ==
    /\ call = "sent" /\ server.state # "serving"
    /\ call' = "none"
    /\ reply' = "error"
    /\ UNCHANGED <<wvars, script, server, direct>>

\* Faulty variant: the gateway waits for ever.
GivesUpNever == call = "sent" /\ FALSE /\ UNCHANGED allvars

(* The timeout of the gateway's TTS client; the server goes on, and a       *)
(* request that is in its socket is handled later all the same.             *)
GivesUp ==
    /\ call # "none"
    /\ call' = "none"
    /\ reply' = "error"
    /\ IF call = "sent" /\ server.state = "serving"
       THEN server.abandoned < MaxAbandoned /\ Become([server EXCEPT !.abandoned = @ + 1])
       ELSE UNCHANGED <<wvars, script, server, direct>>

Idle == server.state = "serving" /\ server.job = "none"

(* Somebody sends the server a speech request past the gateway: it waits in *)
(* the socket, and no health call is the worse for it before it is read.    *)
SpeechAsked ==
    /\ server.state = "serving"
    /\ server.abandoned < MaxAbandoned /\ direct < MaxDirect
    /\ server' = [server EXCEPT !.abandoned = @ + 1]
    /\ direct' = direct + 1
    /\ UNCHANGED <<wvars, script, call, reply>>

(* audio_speech begins, for a gateway that waits or for somebody else: a     *)
(* direct caller, or a gateway that gave up.                                 *)
(* Without a pipeline the lazy script loads it, unless _load_lock is set     *)
(* already; the eager one answers 503.                                       *)
SpeechBegins(awaited) ==
    /\ Idle
    /\ IF awaited THEN call = "sent" ELSE server.abandoned > 0
    /\ LET s == IF awaited THEN server ELSE [server EXCEPT !.abandoned = @ - 1]
       IN  \/ /\ s.loaded
              /\ Become([s EXCEPT !.job = "speech"])
              /\ call' = IF awaited THEN "served" ELSE call
              /\ UNCHANGED reply
           \/ /\ ~s.loaded /\ script = Lazy /\ ~s.lock
              /\ Become([s EXCEPT !.job = "load for speech", !.lock = TRUE])
              /\ call' = IF awaited THEN "served" ELSE call
              /\ UNCHANGED reply
           \/ /\ ~s.loaded /\ (script = Eager \/ s.lock)
              /\ Become(s)
              /\ call' = IF awaited THEN "none" ELSE call
              /\ reply' = IF awaited THEN "error" ELSE reply

(* Somebody asks the lazy server itself for /v1/models.  Once the pipeline  *)
(* is loaded, or the lock taken, this changes nothing; the gateway's own    *)
(* HealthStatus asks only after a health call has succeeded.                *)
ModelsAsked ==
    /\ Idle /\ script = Lazy
    /\ ~server.loaded /\ ~server.lock
    /\ Become([server EXCEPT !.job = "load for models", !.lock = TRUE])
    /\ UNCHANGED <<call, reply>>

Loading == server.job \in {"load for speech", "load for models"}

(* _ensure_pipeline ends; audio_speech goes on to synthesize. *)
LoadSucceeds ==
    /\ Loading
    /\ Become([server EXCEPT !.loaded = TRUE,
                             !.job = IF @ = "load for speech" THEN "speech" ELSE "none"])
    /\ UNCHANGED <<call, reply>>

\* Faulty variant: the flag is cleared, so the pipeline may be loaded after all.
LoadFailsUnlocks ==
    /\ Loading
    /\ Become([server EXCEPT !.job = "none", !.failed = TRUE, !.lock = FALSE])
    /\ Respond("error")

(* The import or KPipeline raises: nothing clears _load_lock. *)
LoadFails ==
    /\ Loading
    /\ Become([server EXCEPT !.job = "none", !.failed = TRUE])
    /\ Respond("error")

(* The audio, or any error: an unknown voice, no audio, an exception. *)
SpeechEnds ==
    /\ server.job = "speech"
    /\ Become([server EXCEPT !.job = "none"])
    /\ Respond("audio") \/ Respond("error")

-----------------------------------------------------------------------------
Beside(A) == A /\ UNCHANGED kvars

ServerStep ==
    \/ StartupLoads \/ StartupFails \/ StartupRaises
    \/ \E awaited \in BOOLEAN : SpeechBegins(awaited)
    \/ LoadSucceeds \/ LoadFails
    \/ SpeechEnds

KNext ==
    \/ \E s \in Services \ {K} : Beside(Toggle(s))
    \/ Beside(Start) \/ Beside(WStep) \/ Beside(Stop)
    \/ Launch \/ Dies \/ ServerStep
    \/ Ask \/ Unreachable \/ GivesUp
    \/ ModelsAsked \/ SpeechAsked

(***************************************************************************)
(* The watchdog is fair as in its own module.  launchd restarts what ended *)
(* (KeepAlive), a load and a synthesis end, the gateway's client has a     *)
(* timeout (30 s when the entry comes from the environment), and clients   *)
(* keep asking for speech.  Nobody has to ask the server itself, and for   *)
(* speech nobody does so more than MaxDirect times: others who kept it     *)
(* speaking would keep it degraded.                                        *)
(***************************************************************************)
KFairness ==
    /\ WF_allvars(Beside(Start))
    /\ \A s \in Services : WF_allvars(Beside(Answer(s)))
    /\ WF_allvars(Beside(Apply))
    /\ WF_allvars(Beside(ProbeDone))
    /\ WF_allvars(Beside(LoopTick))
    /\ WF_allvars(Launch)
    /\ WF_allvars(ServerStep)
    /\ WF_allvars(Ask)
    /\ WF_allvars(Unreachable)
    /\ WF_allvars(GivesUp)

KSpec == KInit /\ [][KNext]_allvars /\ KFairness

-----------------------------------------------------------------------------
(* Types; the event loop is at work only in a process that serves, and up   *)
(* says what a health call would get.                                       *)
KTypeOK ==
    /\ WTypeOK
    /\ script \in {Lazy, Eager}
    /\ server \in [state : {"down", "starting", "serving"},
                   job : {"none", "load for speech", "load for models", "speech"},
                   loaded : BOOLEAN, lock : BOOLEAN,
                   abandoned : 0..MaxAbandoned, failed : BOOLEAN]
    /\ server.job # "none" => server.state = "serving"
    /\ call \in {"none", "sent", "served"}
    /\ reply \in {"none", "audio", "error", "refused"}
    /\ direct \in 0..MaxDirect
    /\ up[K] <=> HealthOK(server)

(* A load that failed is final: whatever clients, the watchdog and direct   *)
(* callers do, the pipeline is not loaded before the process is       *)
(* started again, although the error says that it "is still loading".       *)
FailedLoadIsFinal == server.failed => ~server.loaded /\ ~Loading

(* A lazy server that the watchdog degraded before anybody used it.         *)
Starved ==
    /\ script = Lazy /\ server.state = "serving"
    /\ ~server.loaded /\ ~Loading
    /\ call = "none" /\ server.abandoned = 0
    /\ ~IsHealthy(KokoroName)
    /\ \A a \in answer : a[1] = K => a[2]

(* The gateway starves the server: it is refused speech because its health  *)
(* check fails, and its health check fails because it was never used.       *)
(* Neither the watchdog nor any client of the gateway ends this; only a     *)
(* request past the gateway, for /v1/models or for speech, or a restart     *)
(* does.                                                                    *)
StarvedForGood ==
    [][Starved => Starved' \/ ModelsAsked \/ SpeechAsked \/ Dies]_allvars

(* A loaded server is used again and again, although its health calls fail  *)
(* while it speaks and a row of them degrades it.  Those the gateway sends  *)
(* cannot keep it degraded, because it sends none while it is.              *)
LoadedIsRouted ==
    [](~cancelled) /\ <>[](server.loaded) => []<>IsHealthy(KokoroName)

(* A server whose load failed is degraded for good: the watchdog keeps      *)
(* requests away from it.                                                   *)
FailedIsDegraded ==
    [](~cancelled) /\ <>[](server.failed) => <>[](~IsHealthy(KokoroName))

(* Routing follows the model: whether the load succeeded decides. *)
RoutingFollowsLoad == LoadedIsRouted /\ FailedIsDegraded

(* Every request the gateway sends ends, although the server may die, hang  *)
(* in a load or lose it.                                                    *)
CallEnds == call # "none" ~> call = "none"

=============================================================================
