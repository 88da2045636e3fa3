------------------------------ MODULE Watchdog ------------------------------
(***************************************************************************)
(* The health watchdog (internal/watchdog/watchdog.go).  One goroutine     *)
(* probes every chat backend and every TTS backend in rounds, counts       *)
(* consecutive failures per backend NAME, marks a name degraded when the   *)
(* count reaches FailThreshold and healthy again on the first success.     *)
(* Request handlers read the verdict with IsHealthy while a round runs.    *)
(*                                                                         *)
(* The health call happens outside the lock, the bookkeeping under it, so  *)
(* each probe is two steps: Answer (the service, or the cancelled context, *)
(* answers the HTTP call) and Apply (the critical section of               *)
(* checkBackend).                                                          *)
(***************************************************************************)
EXTENDS Integers, FiniteSets

CONSTANTS
    ChatBackends,   \* names under backends: in the configuration
    TTSBackends,    \* names under tts_backends:
    FailThreshold,  \* watchdog.fail_threshold, any int (never validated)
    MaxFailures     \* where the model stops counting failures

ASSUME WatchdogAssumption ==
    /\ IsFiniteSet(ChatBackends) /\ ChatBackends # {}
    /\ IsFiniteSet(TTSBackends)
    /\ FailThreshold \in Int
    /\ MaxFailures \in Nat \ {0}
    /\ MaxFailures >= FailThreshold

Names == ChatBackends \cup TTSBackends

\* A service is one upstream process: the watchdog keys its state by the name
\* alone, so a chat and a TTS service may share an entry.
Services == ({"chat"} \X ChatBackends) \cup ({"tts"} \X TTSBackends)
NameOf(s) == s[2]

NoSample == -1     \* the gauge has no sample for this name yet

VARIABLES
    up,         \* does the service answer its health call in time (environment)
    states,     \* name -> consecutive failures and verdict
    probed,     \* names that have an entry in the states map
    gauge,      \* inferencia_backend_healthy
    wpc,        \* where the watchdog is
    todo,       \* services the running round still has to probe
    answer,     \* {} or {<<service, failed>>}: health call returned, not yet applied
    cancelled,  \* the context was cancelled by Stop
    streak      \* history: how many probes in a row found the service down

wvars == <<up, states, probed, gauge, wpc, todo, answer, cancelled, streak>>

Saturate(n) == IF n > MaxFailures THEN MaxFailures ELSE n

WInit ==
    /\ up \in [Services -> BOOLEAN]
    /\ states = [n \in Names |-> [failures |-> 0, healthy |-> TRUE]]
    /\ probed = {}
    /\ gauge = [n \in Names |-> NoSample]
    /\ wpc = "new"
    /\ todo = {}
    /\ answer = {}
    /\ cancelled = FALSE
    /\ streak = [s \in Services |-> 0]

\* A name without an entry counts as healthy; a fresh entry is healthy too.
IsHealthy(n) == n \in probed => states[n].healthy

-----------------------------------------------------------------------------
(* The environment: a service goes down or comes back at any moment. *)
Toggle(s) ==
    /\ up' = [up EXCEPT ![s] = ~@]
    /\ UNCHANGED <<states, probed, gauge, wpc, todo, answer, cancelled, streak>>

(* Start: the first round runs synchronously in the caller. *)
Start ==
    /\ wpc = "new"
    /\ wpc' = "starting"
    /\ todo' = Services
    /\ UNCHANGED <<up, states, probed, gauge, answer, cancelled, streak>>

ReadyToProbe(s) ==
    /\ s \in todo
    /\ answer = {}
    /\ s[1] = "tts" => \A t \in todo : t[1] = "tts"

\* A probe fails when the service does not answer and also when the parent
\* context is cancelled.
HealthErr(s) == ~up[s] \/ cancelled

(* The health call of one probe returns. *)
Answer(s) ==
    /\ ReadyToProbe(s)
    /\ todo' = todo \ {s}
    /\ answer' = {<<s, HealthErr(s)>>}
    /\ streak' = [streak EXCEPT ![s] = IF up[s] THEN 0 ELSE Saturate(@ + 1)]
    /\ UNCHANGED <<up, states, probed, gauge, wpc, cancelled>>

\* Faulty variant: the threshold is exceeded instead of reached.
FailedOneTooLate(st) ==
    [failures |-> Saturate(st.failures + 1),
     healthy  |-> st.healthy /\ st.failures + 1 <= FailThreshold]

Failed(st) ==
    [failures |-> Saturate(st.failures + 1),
     healthy  |-> st.healthy /\ st.failures + 1 < FailThreshold]

\* Faulty variant: a degraded backend is never taken back.
SucceededStaysDown(st) == [failures |-> 0, healthy |-> st.healthy]

\* Faulty variant: the failures before a success still count.
SucceededCountsOn(st) == [failures |-> st.failures, healthy |-> TRUE]

Succeeded(st) == [failures |-> 0, healthy |-> TRUE]

Checked(st, err) == IF err THEN Failed(st) ELSE Succeeded(st)

\* Faulty variant: the gauge is written only when the verdict changes.
ApplyOnChange ==
    \E a \in answer :
        LET n == NameOf(a[1])
            st == Checked(states[n], a[2])
        IN  /\ states' = [states EXCEPT ![n] = st]
            /\ probed' = probed \cup {n}
            /\ gauge' = IF n \in probed /\ st.healthy = states[n].healthy THEN gauge
                        ELSE [gauge EXCEPT ![n] = IF st.healthy THEN 1 ELSE 0]
            /\ answer' = {}
            /\ UNCHANGED <<up, wpc, todo, cancelled, streak>>

(* checkBackend after it took the lock: create the entry, count, judge, and *)
(* export the verdict to the gauge.                                         *)
Apply ==
    \E a \in answer :
        LET n == NameOf(a[1])
            st == Checked(states[n], a[2])
        IN  /\ states' = [states EXCEPT ![n] = st]
            /\ probed' = probed \cup {n}
            /\ gauge' = [gauge EXCEPT ![n] = IF st.healthy THEN 1 ELSE 0]
            /\ answer' = {}
            /\ UNCHANGED <<up, wpc, todo, cancelled, streak>>

(* A round is over: Start returns, or the loop goes back to its select. *)
ProbeDone ==
    /\ wpc \in {"starting", "probing"}
    /\ todo = {} /\ answer = {}
    /\ wpc' = "select"
    /\ UNCHANGED <<up, states, probed, gauge, todo, answer, cancelled, streak>>

(* The select takes the ticker case, which it may do although the context *)
(* is cancelled as well.                                                  *)
LoopTick ==
    /\ wpc = "select"
    /\ wpc' = "probing"
    /\ todo' = Services
    /\ UNCHANGED <<up, states, probed, gauge, answer, cancelled, streak>>

\* Faulty variant: the loop has no ctx.Done() case.
LoopDoneMissing ==
    /\ wpc = "select" /\ cancelled /\ todo # {}
    /\ wpc' = "stopped"
    /\ UNCHANGED <<up, states, probed, gauge, todo, answer, cancelled, streak>>

(* The select takes the ctx.Done() case and the goroutine returns. *)
LoopDone ==
    /\ wpc = "select" /\ cancelled
    /\ wpc' = "stopped"
    /\ UNCHANGED <<up, states, probed, gauge, todo, answer, cancelled, streak>>

(* Stop, called by main after Start has returned. *)
Stop ==
    /\ wpc \in {"select", "probing"}
    /\ ~cancelled
    /\ cancelled' = TRUE
    /\ UNCHANGED <<up, states, probed, gauge, wpc, todo, answer, streak>>

\* The watchdog's own steps, without the environment, Start and Stop.
WStep == (\E s \in Services : Answer(s)) \/ Apply \/ ProbeDone \/ LoopTick \/ LoopDone

WNext == (\E s \in Services : Toggle(s)) \/ Start \/ WStep \/ Stop

(***************************************************************************)
(* A health call returns (it has a deadline), a critical section ends, the *)
(* ticker fires: weak fairness.  Go's select chooses at random among ready *)
(* cases, so a cancelled loop cannot take the ticker case for ever: strong *)
(* fairness of LoopDone.                                                   *)
(***************************************************************************)
WFairness ==
    /\ WF_wvars(Start)
    /\ \A s \in Services : WF_wvars(Answer(s))
    /\ WF_wvars(Apply)
    /\ WF_wvars(ProbeDone)
    /\ WF_wvars(LoopTick)
    /\ SF_wvars(LoopDone)

WSpec == WInit /\ [][WNext]_wvars /\ WFairness

-----------------------------------------------------------------------------
(* Types of the watchdog's state, and where in its round it can be. *)
WTypeOK ==
    /\ up \in [Services -> BOOLEAN]
    /\ states \in [Names -> [failures : 0..MaxFailures, healthy : BOOLEAN]]
    /\ probed \in SUBSET Names
    /\ gauge \in [Names -> {0, 1, NoSample}]
    /\ wpc \in {"new", "starting", "select", "probing", "stopped"}
    /\ todo \in SUBSET Services
    /\ answer \in SUBSET (Services \X BOOLEAN)
    /\ cancelled \in BOOLEAN
    /\ streak \in [Services -> 0..MaxFailures]

\* A threshold below one acts like one: the first failure degrades.
Threshold == IF FailThreshold < 1 THEN 1 ELSE FailThreshold

\* No chat backend has the name of a TTS backend.  The configuration does not
\* require it.
DistinctNames == ChatBackends \cap TTSBackends = {}

\* Is the latest probe of s answered but not yet booked?
Pending(s) == \E a \in answer : a[1] = s

(* After fail_threshold consecutive failed probes of a service, its name is *)
(* degraded (config.example.yaml on the watchdog): the verdict never lags   *)
(* the probes, whatever other services are probed in between, also while    *)
(* the watchdog is being stopped.                                           *)
DownIsDegraded ==
    \A s \in Services :
        ~Pending(s) /\ streak[s] >= Threshold => ~IsHealthy(NameOf(s))

(* The converse: until Stop is called a name is degraded only if its        *)
(* service failed the last fail_threshold probes, so one success is enough  *)
(* to route to it again and isolated failures never add up.                 *)
DegradedIsDown ==
    \A s \in Services :
        ~cancelled /\ ~Pending(s) /\ ~IsHealthy(NameOf(s))
            => streak[s] >= Threshold

(* checkBackend's verdict is exact in both directions. *)
VerdictIsExact == DownIsDegraded /\ DegradedIsDown

\* The services of a name: one, or a chat and a TTS service that share it.
Sharing(n) == {s \in Services : NameOf(s) = n}
StreakOf(kind, n) == IF <<kind, n>> \in Services THEN streak[<<kind, n>>] ELSE 0

(* What is left of it for a name that a chat and a TTS service share: the   *)
(* name is degraded once both have failed their last fail_threshold probes, *)
(* and until Stop it is degraded only if their failures in a row, added up, *)
(* reach fail_threshold.                                                    *)
VerdictIsShared ==
    \A n \in Names :
        (\A s \in Sharing(n) : ~Pending(s)) =>
            /\ (\A s \in Sharing(n) : streak[s] >= Threshold) => ~IsHealthy(n)
            /\ ~cancelled /\ ~IsHealthy(n)
                => StreakOf("chat", n) + StreakOf("tts", n) >= Threshold

(* A name whose services all stay down is degraded for good after finitely  *)
(* many rounds, as long as the watchdog is not stopped.                     *)
DownEventuallyDegraded ==
    \A n \in Names :
        [](~cancelled) /\ <>[](\A s \in Sharing(n) : ~up[s]) => <>[](~IsHealthy(n))

(* A name whose services all stay up is routed to again for good, as long   *)
(* as the watchdog is not stopped.                                          *)
UpEventuallyHealthy ==
    \A n \in Names :
        [](~cancelled) /\ <>[](\A s \in Sharing(n) : up[s]) => <>[](IsHealthy(n))

(* The verdict about a name follows its services once they settle, either   *)
(* way.                                                                     *)
VerdictFollows == DownEventuallyDegraded /\ UpEventuallyHealthy

(* Stop ends the goroutine, although a round may be running and the ticker  *)
(* may win the select again.                                                *)
StopEnds == cancelled ~> wpc = "stopped"

-----------------------------------------------------------------------------
(***************************************************************************)
(* The inductive invariant behind DownIsDegraded and DegradedIsDown, for   *)
(* distinct names: the verdict follows from the failure count alone, and   *)
(* the count, once the pending answer is booked, is the true streak (or    *)
(* more, when Stop made probes of a live service fail).                    *)
(***************************************************************************)
Judged ==
    \A n \in Names :
        /\ states[n].healthy <=> states[n].failures < Threshold
        /\ n \notin probed => states[n].failures = 0

OneAnswer == \A a, b \in answer : a = b

\* The failures of s when the answer that is waiting has been booked.
Count(s) ==
    IF <<s, TRUE>> \in answer THEN Saturate(states[NameOf(s)].failures + 1)
    ELSE IF <<s, FALSE>> \in answer THEN 0
    ELSE states[NameOf(s)].failures

Counted ==
    \A s \in Services :
        /\ streak[s] <= Count(s)
        /\ ~cancelled => streak[s] = Count(s)

WInv == WTypeOK /\ Judged /\ OneAnswer /\ Counted

\* For a name that may be shared: its failures when the answer that is waiting
\* has been booked, between the shortest streak of its services and their sum.
Booked(n) ==
    IF \E s \in Sharing(n) : <<s, TRUE>> \in answer THEN Saturate(states[n].failures + 1)
    ELSE IF \E s \in Sharing(n) : <<s, FALSE>> \in answer THEN 0
    ELSE states[n].failures

CountedTogether ==
    \A n \in Names :
        /\ \E s \in Sharing(n) : streak[s] <= Booked(n)
        /\ ~cancelled => Booked(n) <= StreakOf("chat", n) + StreakOf("tts", n)

SharedInv == WTypeOK /\ Judged /\ OneAnswer /\ CountedTogether

=============================================================================
