--------------------------- MODULE GatewayProofs ---------------------------
(***************************************************************************)
(* Proofs about the gateway, for any number of chat backends and TTS       *)
(* backends, of concurrent requests, and any threshold.                    *)
(***************************************************************************)
EXTENDS Gateway, WatchdogProofs, FiniteSetTheorems, WellFoundedInduction

(* A step of the gateway is a step of the watchdog or leaves it alone. *)
LEMMA WatchdogInside == [GNext]_gvars => [WNext]_wvars
<1> SUFFICES ASSUME [GNext]_gvars PROVE [WNext]_wvars
  OBVIOUS
<1>1. CASE MainStep
  BY <1>1 DEF MainStep, Register, StartWatchdog, Serve, ListenFails, Signal,
              BeginShutdown, Expire, Exit, WNext
<1>2. ASSUME NEW r \in Requests, RequestStep(r) PROVE UNCHANGED wvars
  BY <1>2 DEF RequestStep, Arrive, Reject, Scan, Refuse, SelectBackend,
              AcquireBackend, CallReturns, ReleaseBackend, Reply
<1>3. CASE WatchdogStep
  BY <1>3 DEF WatchdogStep, ServiceToggles, HealthCallReturns, VerdictApplied,
              RoundEnds, RoundBegins, WatchdogEnds, TickerPanics, WNext, WStep
<1>4. CASE Terminated \/ UNCHANGED gvars
  BY <1>4 DEF Terminated, gvars
<1> QED BY <1>1, <1>2, <1>3, <1>4 DEF GNext

-----------------------------------------------------------------------------
(* Types. *)

(* The balancer's counter stays below its modulus and the counts stay       *)
(* naturals, whatever is selected, acquired or released.                    *)
LEMMA BalancerType ==
    ASSUME LB!LBTypeOK, NEW names, NEW P, NEW b,
           LB!Select(names, P, b) \/ LB!Acquire(b) \/ LB!Release(b)
    PROVE  LB!LBTypeOK'
<1>1. CASE LB!Select(names, P, b)
  <2>1. (rr + 1) % RRMod \in 0..(RRMod - 1)
    BY GatewayAssumption DEF LB!LBTypeOK
  <2> QED BY <1>1, <2>1 DEF LB!Select, LB!LBTypeOK, LB!lbvars
<1>2. CASE LB!Acquire(b)
  <2>1. \A c \in ChatBackends : active[c] + 1 \in Nat
    BY DEF LB!LBTypeOK
  <2> QED BY <1>2, <2>1 DEF LB!Acquire, LB!LBTypeOK
<1>3. CASE LB!Release(b)
  <2>1. \A c \in ChatBackends : (IF active[c] > 0 THEN active[c] - 1 ELSE active[c]) \in Nat
    BY DEF LB!LBTypeOK
  <2> QED BY <1>3, <2>1 DEF LB!Release, LB!LBTypeOK
<1> QED BY <1>1, <1>2, <1>3

(* The process starts with the types of GTypeOK. *)
LEMMA GTypeInit == GInit => GTypeOK
<1> SUFFICES ASSUME GInit PROVE GTypeOK
  OBVIOUS
<1>1. WTypeOK
  BY WInitType DEF GInit
<1>2. LB!LBTypeOK
  BY GatewayAssumption DEF GInit, LB!LBInit, LB!LBTypeOK
<1>3. seen \in [Requests -> [up : SUBSET ChatBackends, down : SUBSET ChatBackends]]
  <2>1. NoView \in [up : SUBSET ChatBackends, down : SUBSET ChatBackends]
    BY DEF NoView
  <2> QED BY <2>1 DEF GInit
<1>4. order \in [Requests -> Seq(ChatBackends)]
  BY DEF GInit
<1> QED BY <1>1, <1>2, <1>3, <1>4 DEF GInit, GTypeOK

(* A history extended by more verdicts is a history. *)
LEMMA WitnessType ==
    ASSUME NEW view \in [up : SUBSET ChatBackends, down : SUBSET ChatBackends],
           NEW healthy \in SUBSET ChatBackends
    PROVE  Witness(view, healthy) \in [up : SUBSET ChatBackends, down : SUBSET ChatBackends]
BY DEF Witness

(* What a history holds after one more state. *)
LEMMA WitnessFields ==
    \A view, healthy :
        /\ Witness(view, healthy).up = view.up \cup healthy
        /\ Witness(view, healthy).down = view.down \cup (ChatBackends \ healthy)
BY DEF Witness

(* The empty history is a history. *)
LEMMA NoViewType ==
    NoView \in [up : SUBSET ChatBackends, down : SUBSET ChatBackends]
BY DEF NoView

(* Every step of main, a request or the watchdog keeps the types. *)
LEMMA GTypeStep == GTypeOK /\ [GNext]_gvars => GTypeOK'
<1> SUFFICES ASSUME GTypeOK, [GNext]_gvars PROVE GTypeOK'
  OBVIOUS
<1>w. WTypeOK'
  BY WTypeStep, WatchdogInside DEF GTypeOK
<1>1. CASE MainStep
  <2>1. LB!LBTypeOK' /\ UNCHANGED reqvars
    BY <1>1 DEF MainStep, Register, StartWatchdog, Serve, ListenFails, Signal,
                BeginShutdown, Expire, Exit, GTypeOK, LB!LBTypeOK
  <2>2. /\ phase' \in {"boot", "starting", "serving", "stopping", "draining",
                       "exited", "crashed"}
        /\ expired' \in BOOLEAN
        /\ ticks' \in BOOLEAN
        /\ backends' \in SUBSET ChatBackends
        /\ primary' \in ChatBackends \cup {NoBackend}
    BY <1>1 DEF MainStep, Register, StartWatchdog, Serve, ListenFails, Signal,
                BeginShutdown, Expire, Exit, GTypeOK
  <2> QED BY <1>w, <2>1, <2>2 DEF GTypeOK, reqvars
<1>2. ASSUME NEW r \in Requests, RequestStep(r) PROVE GTypeOK'
  <2>m. UNCHANGED mainvars
    BY <1>2 DEF RequestStep, Arrive, Reject, Scan, Refuse, SelectBackend,
                AcquireBackend, CallReturns, ReleaseBackend, Reply
  <2>1. ASSUME NEW k \in Kinds, Arrive(r, k) PROVE GTypeOK'
    <3>1. Witness(NoView, HealthyNow) \in [up : SUBSET ChatBackends,
                                           down : SUBSET ChatBackends]
      BY NoViewType, WitnessType DEF HealthyNow
    <3> QED BY <1>w, <2>1, <3>1 DEF Arrive, GTypeOK, LB!LBTypeOK, mainvars
  <2>2. ASSUME NEW k \in Kinds, Reject(r, k) PROVE GTypeOK'
    BY <1>w, <2>2 DEF Reject, GTypeOK, LB!LBTypeOK, mainvars
  <2>3. ASSUME NEW b \in ChatBackends, Scan(r, b) PROVE GTypeOK'
    <3>1. (IF IsHealthy(b) THEN Append(order[r], b) ELSE order[r]) \in Seq(ChatBackends)
      BY DEF GTypeOK
    <3>2. left[r] \ {b} \in SUBSET ChatBackends
      BY DEF GTypeOK
    <3> QED BY <1>w, <2>3, <3>1, <3>2 DEF Scan, GTypeOK, LB!LBTypeOK, mainvars
  <2>4. CASE Refuse(r)
    BY <1>w, <2>4 DEF Refuse, GTypeOK, LB!LBTypeOK, mainvars
  <2>5. CASE SelectBackend(r)
    <3>1. LB!LBTypeOK'
      BY <2>5, BalancerType DEF SelectBackend, GTypeOK
    <3>2. \E b \in ChatBackends : pick' = [pick EXCEPT ![r] = b]
      BY <2>5 DEF SelectBackend
    <3> QED BY <1>w, <2>5, <3>1, <3>2 DEF SelectBackend, GTypeOK, mainvars
  <2>6. CASE AcquireBackend(r)
    <3>1. LB!LBTypeOK'
      BY <2>6, BalancerType DEF AcquireBackend, GTypeOK
    <3> QED BY <1>w, <2>6, <3>1, NoViewType DEF AcquireBackend, GTypeOK, mainvars
  <2>7. ASSUME NEW ok \in BOOLEAN, CallReturns(r, ok) PROVE GTypeOK'
    BY <1>w, <2>7 DEF CallReturns, GTypeOK, LB!LBTypeOK, mainvars
  <2>8. CASE ReleaseBackend(r)
    <3>1. LB!LBTypeOK'
      BY <2>8, BalancerType DEF ReleaseBackend, GTypeOK
    <3> QED BY <1>w, <2>8, <3>1 DEF ReleaseBackend, GTypeOK, mainvars
  <2>9. CASE Reply(r)
    BY <1>w, <2>9, NoViewType DEF Reply, GTypeOK, LB!LBTypeOK, mainvars
  <2> QED BY <1>2, <2>1, <2>2, <2>3, <2>4, <2>5, <2>6, <2>7, <2>8, <2>9 DEF RequestStep
<1>3. CASE VerdictApplied
  <2>1. HealthyNow' \in SUBSET ChatBackends
    BY DEF HealthyNow
  <2>2. ASSUME NEW r \in Requests
        PROVE  Witness(seen[r], HealthyNow') \in [up : SUBSET ChatBackends,
                                     down : SUBSET ChatBackends]
    <3>1. seen[r] \in [up : SUBSET ChatBackends, down : SUBSET ChatBackends]
      BY DEF GTypeOK
    <3> QED BY <2>1, <3>1, WitnessType
  <2>3. seen' \in [Requests -> [up : SUBSET ChatBackends, down : SUBSET ChatBackends]]
    BY <1>3, <2>2 DEF VerdictApplied, GTypeOK
  <2> QED BY <1>w, <1>3, <2>3 DEF VerdictApplied, GTypeOK, LB!LBTypeOK, mainvars
<1>4. CASE WatchdogStep /\ ~VerdictApplied
  <2>1. /\ UNCHANGED <<expired, ticks, backends, primary, active, rr, reqvars>>
        /\ phase' \in {phase, "crashed"}
    BY <1>4 DEF WatchdogStep, ServiceToggles, HealthCallReturns, RoundEnds,
                RoundBegins, WatchdogEnds, TickerPanics, mainvars
  <2> QED BY <1>w, <2>1 DEF GTypeOK, LB!LBTypeOK, reqvars
<1>5. CASE Terminated \/ UNCHANGED gvars
  BY <1>w, <1>5 DEF Terminated, gvars, GTypeOK, LB!LBTypeOK, mainvars, reqvars
<1> QED BY <1>1, <1>2, <1>3, <1>4, <1>5 DEF GNext

(* The gateway's state always has its type (main.go, backend.go, the chat,  *)
(* embeddings and models handlers).                                         *)
THEOREM GatewayType == GSpec => []GTypeOK
<1>1. GInit => GTypeOK
  BY GTypeInit
<1>2. GTypeOK /\ [GNext]_gvars => GTypeOK'
  BY GTypeStep
<1> QED BY <1>1, <1>2, PTL DEF GSpec

-----------------------------------------------------------------------------
(* The in-flight counts. *)

FlightInv == GTypeOK /\ PickInv /\ InFlightExact

\* Is request q counted on backend b?
Holds(q, b) == pc[q] \in {"calling", "release"} /\ pick[q] = b

(* The holders are a finite set of requests. *)
LEMMA HoldersFinite == \A b : IsFiniteSet(Holders(b))
<1> SUFFICES ASSUME NEW b PROVE IsFiniteSet(Holders(b))
  OBVIOUS
<1>1. Holders(b) \subseteq Requests
  BY DEF Holders
<1> QED BY <1>1, GatewayAssumption, FS_Subset

(* A step that changes no count and no holder keeps the counts exact. *)
LEMMA SameHolders ==
    ASSUME InFlightExact, UNCHANGED active,
           \A q \in Requests, b \in ChatBackends : Holds(q, b)' <=> Holds(q, b)
    PROVE  InFlightExact'
<1>1. \A b \in ChatBackends : Holders(b)' = Holders(b)
  BY DEF Holders, Holds
<1> QED BY <1>1 DEF InFlightExact

(* Before the start nothing is in flight. *)
LEMMA FlightInit == GInit => FlightInv
<1> SUFFICES ASSUME GInit PROVE FlightInv
  OBVIOUS
<1>1. PickInv
  BY GatewayAssumption DEF GInit, PickInv
<1>2. ASSUME NEW b \in ChatBackends PROVE active[b] = Cardinality(Holders(b))
  <2>1. Holders(b) = {}
    BY DEF GInit, Holders
  <2> QED BY <2>1, FS_EmptySet DEF GInit, LB!LBInit
<1> QED BY <1>1, <1>2, GTypeInit DEF FlightInv, InFlightExact

(* Acquire and the deferred release keep the count exact; no other step *)
(* touches it.                                                          *)
LEMMA FlightStep == FlightInv /\ [GNext]_gvars => FlightInv'
<1> SUFFICES ASSUME FlightInv, [GNext]_gvars PROVE FlightInv'
  OBVIOUS
<1> USE DEF FlightInv
<1>t. GTypeOK'
  BY GTypeStep
<1>0. ASSUME UNCHANGED <<active, pc, pick>> PROVE FlightInv'
  <2>1. PickInv'
    BY <1>0 DEF PickInv
  <2>2. InFlightExact'
    BY <1>0, SameHolders DEF Holds
  <2> QED BY <1>t, <2>1, <2>2
<1>1. CASE MainStep
  BY <1>0, <1>1 DEF MainStep, Register, StartWatchdog, Serve, ListenFails, Signal,
                    BeginShutdown, Expire, Exit, reqvars
<1>2. ASSUME NEW r \in Requests, RequestStep(r) PROVE FlightInv'
  <2>1. ASSUME NEW k \in Kinds, Arrive(r, k) PROVE FlightInv'
    <3>1. PickInv'
      BY <2>1 DEF Arrive, PickInv, GTypeOK
    <3>2. InFlightExact'
      BY <2>1, SameHolders DEF Arrive, Holds, GTypeOK
    <3> QED BY <1>t, <3>1, <3>2
  <2>2. ASSUME NEW k \in Kinds, Reject(r, k) PROVE FlightInv'
    <3>1. PickInv'
      BY <2>2 DEF Reject, PickInv, GTypeOK
    <3>2. InFlightExact'
      BY <2>2, SameHolders DEF Reject, Holds, GTypeOK
    <3> QED BY <1>t, <3>1, <3>2
  <2>3. ASSUME NEW b \in ChatBackends, Scan(r, b) PROVE FlightInv'
    BY <1>0, <2>3 DEF Scan
  <2>4. CASE Refuse(r)
    <3>1. PickInv'
      BY <2>4 DEF Refuse, PickInv, GTypeOK
    <3>2. InFlightExact'
      BY <2>4, SameHolders DEF Refuse, Holds, GTypeOK
    <3> QED BY <1>t, <3>1, <3>2
  <2>5. CASE SelectBackend(r)
    <3>0. PICK b \in ChatBackends : /\ LB!Select(order[r], DOMAIN order[r], b)
                                    /\ pick' = [pick EXCEPT ![r] = b]
      BY <2>5 DEF SelectBackend
    <3>1. PickInv'
      BY <2>5, <3>0 DEF SelectBackend, PickInv, GTypeOK
    <3>2. UNCHANGED active
      BY <3>0 DEF LB!Select, LB!lbvars
    <3>3. InFlightExact'
      BY <2>5, <3>0, <3>2, SameHolders DEF SelectBackend, Holds, GTypeOK
    <3> QED BY <1>t, <3>1, <3>3
  <2>6. CASE AcquireBackend(r)
    <3>1. PickInv'
      BY <2>6 DEF AcquireBackend, PickInv, GTypeOK
    <3>2. ASSUME NEW b \in ChatBackends PROVE active'[b] = Cardinality(Holders(b)')
      <4>0. active[b] = Cardinality(Holders(b)) /\ IsFiniteSet(Holders(b))
        BY HoldersFinite DEF InFlightExact
      <4>1. CASE b = pick[r]
        <5>1. r \notin Holders(b)
          BY <2>6 DEF AcquireBackend, Holders
        <5>2. Holders(b)' = Holders(b) \cup {r}
          BY <2>6, <4>1 DEF AcquireBackend, Holders, GTypeOK
        <5>3. active'[b] = active[b] + 1
          BY <2>6, <4>1 DEF AcquireBackend, LB!Acquire, GTypeOK, LB!LBTypeOK
        <5> QED BY <4>0, <5>1, <5>2, <5>3, FS_AddElement
      <4>2. CASE b # pick[r]
        <5>1. Holders(b)' = Holders(b)
          BY <2>6, <4>2 DEF AcquireBackend, Holders, GTypeOK
        <5>2. active'[b] = active[b]
          BY <2>6, <4>2 DEF AcquireBackend, LB!Acquire, GTypeOK, LB!LBTypeOK
        <5> QED BY <4>0, <5>1, <5>2
      <4> QED BY <4>1, <4>2
    <3>3. InFlightExact'
      BY <3>2 DEF InFlightExact
    <3> QED BY <1>t, <3>1, <3>3
  <2>7. ASSUME NEW ok \in BOOLEAN, CallReturns(r, ok) PROVE FlightInv'
    <3>1. PickInv'
      BY <2>7 DEF CallReturns, PickInv, GTypeOK
    <3>2. InFlightExact'
      BY <2>7, SameHolders DEF CallReturns, Holds, GTypeOK
    <3> QED BY <1>t, <3>1, <3>2
  <2>8. CASE ReleaseBackend(r)
    <3>1. PickInv'
      BY <2>8, GatewayAssumption DEF ReleaseBackend, PickInv, GTypeOK
    <3>2. ASSUME NEW b \in ChatBackends PROVE active'[b] = Cardinality(Holders(b)')
      <4>0. active[b] = Cardinality(Holders(b)) /\ IsFiniteSet(Holders(b))
        BY HoldersFinite DEF InFlightExact
      <4>1. CASE b = pick[r]
        <5>1. r \in Holders(b)
          BY <2>8, <4>1 DEF ReleaseBackend, Holders
        <5>2. Holders(b)' = Holders(b) \ {r}
          BY <2>8, <4>1, GatewayAssumption DEF ReleaseBackend, Holders, GTypeOK
        <5>3. Cardinality(Holders(b)) \in Nat /\ Cardinality(Holders(b)) # 0
          BY <4>0, <5>1, FS_CardinalityType, FS_EmptySet
        <5>4. active'[b] = active[b] - 1
          BY <2>8, <4>0, <4>1, <5>3 DEF ReleaseBackend, LB!Release, GTypeOK, LB!LBTypeOK
        <5> QED BY <4>0, <5>1, <5>2, <5>4, FS_RemoveElement
      <4>2. CASE b # pick[r]
        <5>1. Holders(b)' = Holders(b)
          BY <2>8, <4>2, GatewayAssumption DEF ReleaseBackend, Holders, GTypeOK
        <5>2. active'[b] = active[b]
          BY <2>8, <4>2 DEF ReleaseBackend, LB!Release, GTypeOK, LB!LBTypeOK
        <5> QED BY <4>0, <5>1, <5>2
      <4> QED BY <4>1, <4>2
    <3>3. InFlightExact'
      BY <3>2 DEF InFlightExact
    <3> QED BY <1>t, <3>1, <3>3
  <2>9. CASE Reply(r)
    <3>1. PickInv'
      BY <2>9 DEF Reply, PickInv, GTypeOK
    <3>2. InFlightExact'
      BY <2>9, SameHolders DEF Reply, Holds, GTypeOK
    <3> QED BY <1>t, <3>1, <3>2
  <2> QED BY <1>2, <2>1, <2>2, <2>3, <2>4, <2>5, <2>6, <2>7, <2>8, <2>9 DEF RequestStep
<1>3. CASE WatchdogStep
  BY <1>0, <1>3 DEF WatchdogStep, ServiceToggles, HealthCallReturns, VerdictApplied,
                    RoundEnds, RoundBegins, WatchdogEnds, TickerPanics, reqvars
<1>4. CASE Terminated \/ UNCHANGED gvars
  BY <1>0, <1>4 DEF Terminated, gvars, reqvars
<1> QED BY <1>1, <1>2, <1>3, <1>4 DEF GNext

(* The balancer's counts are exact in every reachable state (Acquire in     *)
(* PrimaryHealthy, Release deferred by the handlers).                       *)
THEOREM InFlightCounted == GSpec => []InFlightExact
<1>1. GInit => FlightInv
  BY FlightInit
<1>2. FlightInv /\ [GNext]_gvars => FlightInv'
  BY FlightStep
<1>3. FlightInv => InFlightExact
  BY DEF FlightInv
<1> QED BY <1>1, <1>2, <1>3, PTL DEF GSpec

-----------------------------------------------------------------------------
(* The first round of probes, and main's phases. *)

LifeInv == GTypeOK /\ BootInv

(* The names are the names of the services. *)
LEMMA NamesOfServices == \A n \in Names : \E s \in Services : NameOf(s) = n
<1> SUFFICES ASSUME NEW n \in Names PROVE \E s \in Services : NameOf(s) = n
  OBVIOUS
<1>1. CASE n \in ChatBackends
  <2>1. <<"chat", n>> \in Services /\ NameOf(<<"chat", n>>) = n
    BY <1>1 DEF Services, NameOf
  <2> QED BY <2>1
<1>2. CASE n \in TTSBackends
  <2>1. <<"tts", n>> \in Services /\ NameOf(<<"tts", n>>) = n
    BY <1>2 DEF Services, NameOf
  <2> QED BY <2>1
<1> QED BY <1>1, <1>2 DEF Names

(* The boot order holds before the start. *)
LEMMA LifeInit == GInit => LifeInv
<1> SUFFICES ASSUME GInit PROVE LifeInv
  OBVIOUS
<1>1. BootInv
  BY DEF GInit, WInit, BootInv, OneAnswer
<1> QED BY <1>1, GTypeInit DEF LifeInv

(* A request's step does not touch main or the watchdog, and is taken only  *)
(* when main listens or the request is under way already.                   *)
LEMMA LifeRequest ==
    ASSUME LifeInv, NEW r \in Requests, RequestStep(r)
    PROVE  BootInv'
<1>1. UNCHANGED <<wvars, mainvars>>
  BY DEF RequestStep, Arrive, Reject, Scan, Refuse, SelectBackend,
         AcquireBackend, CallReturns, ReleaseBackend, Reply
<1>2. phase \notin {"boot", "starting"}
  <2>1. phase \in {"boot", "starting"} => pc[r] = "idle"
    BY DEF LifeInv, BootInv
  <2> QED BY <2>1 DEF RequestStep, Arrive, Reject, Delivering, Scan, Refuse, SelectBackend,
                      AcquireBackend, CallReturns, ReleaseBackend, Reply
<1> QED BY <1>1, <1>2 DEF LifeInv, BootInv, OneAnswer, Pending, wvars, mainvars

(* Main and the watchdog keep to the boot order. *)
LEMMA LifeStep == LifeInv /\ [GNext]_gvars => LifeInv'
<1> SUFFICES ASSUME LifeInv, [GNext]_gvars PROVE LifeInv'
  OBVIOUS
<1>t. GTypeOK'
  BY GTypeStep DEF LifeInv
<1> SUFFICES BootInv'
  BY <1>t DEF LifeInv
<1> USE DEF LifeInv
<1>1. CASE MainStep
  <2>1. ASSUME NEW b \in ChatBackends, Register(b) PROVE BootInv'
    <3>1. phase = "boot" /\ phase' = "boot" /\ UNCHANGED <<wvars, pc>>
      BY <2>1 DEF Register, reqvars
    <3>2. primary' \in backends' /\ UNCHANGED phase
      BY <2>1, GatewayAssumption DEF Register, BootInv, GTypeOK
    <3> QED BY <3>1, <3>2 DEF BootInv, OneAnswer, Pending, wvars
  <2>2. CASE StartWatchdog
    BY <2>2 DEF StartWatchdog, Start, BootInv, OneAnswer, Pending, reqvars
  <2>3. CASE Serve \/ ListenFails
    <3>1. wpc \in {"select", "probing", "stopped"}
      BY <2>3 DEF Serve, ListenFails, GTypeOK, WTypeOK
    <3> QED BY <2>3, <3>1 DEF Serve, ListenFails, BootInv, OneAnswer, Pending, wvars, reqvars
  <2>4. CASE Signal
    BY <2>4 DEF Signal, Stop, BootInv, OneAnswer, Pending, reqvars
  <2>5. CASE BeginShutdown \/ Expire \/ Exit
    BY <2>5 DEF BeginShutdown, Expire, Exit, BootInv, OneAnswer, Pending, wvars, reqvars
  <2> QED BY <1>1, <2>1, <2>2, <2>3, <2>4, <2>5 DEF MainStep
<1>2. ASSUME NEW r \in Requests, RequestStep(r) PROVE BootInv'
  BY <1>2, LifeRequest
<1>3. CASE WatchdogStep
  <2>0. TickerPanics \/ UNCHANGED <<mainvars, pc>>
    BY <1>3 DEF WatchdogStep, ServiceToggles, HealthCallReturns, VerdictApplied,
                RoundEnds, RoundBegins, WatchdogEnds, reqvars
  <2>p. CASE TickerPanics
    BY <2>p DEF TickerPanics, BootInv, OneAnswer, Pending, wvars, reqvars
  <2>u. CASE UNCHANGED <<mainvars, pc>>
    <3>1. ASSUME NEW s \in Services, ServiceToggles(s) PROVE BootInv'
      BY <2>u, <3>1 DEF ServiceToggles, Toggle, BootInv, OneAnswer, Pending, mainvars
    <3>2. ASSUME NEW s \in Services, HealthCallReturns(s) PROVE BootInv'
      <4>1. /\ s \in todo /\ answer = {}
            /\ todo' = todo \ {s} /\ answer' = {<<s, HealthErr(s)>>}
            /\ UNCHANGED <<probed, wpc>>
        BY <3>2 DEF HealthCallReturns, Answer, ReadyToProbe
      <4>2. Pending(s)' /\ OneAnswer'
        BY <4>1 DEF Pending, OneAnswer
      <4>3. \A t \in Services : Pending(t) => FALSE
        BY <4>1 DEF Pending
      <4>4. wpc \notin {"new", "select", "stopped"}
        BY <4>1 DEF BootInv
      <4> QED BY <2>u, <4>1, <4>2, <4>3, <4>4 DEF BootInv, mainvars
    <3>3. CASE VerdictApplied
      <4>1. PICK a \in answer : /\ probed' = probed \cup {NameOf(a[1])}
                                /\ answer' = {}
                                /\ UNCHANGED <<wpc, todo>>
        BY <3>3 DEF VerdictApplied, Apply
      <4>2. \A t \in Services : Pending(t) => NameOf(t) \in probed'
        BY <4>1 DEF Pending, BootInv, OneAnswer
      <4>3. NameOf(a[1]) \in Names
        BY NameOfService DEF GTypeOK, WTypeOK
      <4> QED BY <2>u, <4>1, <4>2, <4>3 DEF BootInv, OneAnswer, mainvars
    <3>4. CASE RoundEnds
      <4>1. todo = {} /\ answer = {} /\ wpc \in {"starting", "probing"} /\ wpc' = "select"
            /\ UNCHANGED <<probed, todo, answer>>
        BY <3>4 DEF RoundEnds, ProbeDone
      <4>2. \A s \in Services : NameOf(s) \in probed
        BY <4>1 DEF BootInv, Pending
      <4>3. probed = Names
        <5>1. \A n \in Names : n \in probed
          BY <4>2, NamesOfServices
        <5> QED BY <5>1 DEF GTypeOK, WTypeOK
      <4> QED BY <2>u, <4>1, <4>3, <4>2 DEF BootInv, OneAnswer, Pending, mainvars
    <3>5. CASE RoundBegins
      BY <2>u, <3>5 DEF RoundBegins, LoopTick, BootInv, OneAnswer, Pending, mainvars
    <3>6. CASE WatchdogEnds
      BY <2>u, <3>6 DEF WatchdogEnds, LoopDone, BootInv, OneAnswer, Pending, mainvars
    <3> QED BY <1>3, <3>1, <3>2, <3>3, <3>4, <3>5, <3>6, <2>p DEF WatchdogStep
  <2> QED BY <2>0, <2>p, <2>u
<1>4. CASE Terminated \/ UNCHANGED gvars
  BY <1>4 DEF Terminated, gvars, wvars, mainvars, reqvars, BootInv, OneAnswer, Pending
<1> QED BY <1>1, <1>2, <1>3, <1>4 DEF GNext

(* In the boot order, traffic comes after the first round. *)
LEMMA LifeImplies == LifeInv => ProbedBeforeTraffic
<1> SUFFICES ASSUME LifeInv, NEW r \in Requests, pc[r] # "idle" PROVE probed = Names
  BY DEF ProbedBeforeTraffic
<1>1. phase \notin {"boot", "starting"}
  BY DEF LifeInv, BootInv
<1> QED BY <1>1 DEF LifeInv, BootInv

(* No request is handled before every service was probed (main.go starts    *)
(* the watchdog, whose Start probes synchronously, before it listens).      *)
THEOREM ProbedFirst == GSpec => []ProbedBeforeTraffic
<1>1. GInit => LifeInv
  BY LifeInit
<1>2. LifeInv /\ [GNext]_gvars => LifeInv'
  BY LifeStep
<1>3. LifeInv => ProbedBeforeTraffic
  BY LifeImplies
<1> QED BY <1>1, <1>2, <1>3, PTL DEF GSpec

-----------------------------------------------------------------------------
(* The selection. *)

SelectionInv == LifeInv /\ StatusInv /\ ViewInv /\ PickWasHealthy /\ RefusalJustified

(* What Select returns is one of the candidates. *)
LEMMA SelectsCandidate ==
    ASSUME NEW names \in Seq(ChatBackends), NEW b, LB!Select(names, DOMAIN names, b)
    PROVE  \E i \in DOMAIN names : b = names[i]
BY DEF LB!Select, LB!Tied

(* Only a booked verdict changes which backends count as healthy. *)
LEMMA SameVerdicts ==
    ASSUME UNCHANGED <<states, probed>>
    PROVE  HealthyNow' = HealthyNow
BY DEF HealthyNow, IsHealthy

(* No selection runs at the start. *)
LEMMA SelectionInit == GInit => SelectionInv
<1> SUFFICES ASSUME GInit PROVE SelectionInv
  OBVIOUS
<1>1. StatusInv /\ ViewInv /\ PickWasHealthy /\ RefusalJustified
  BY DEF GInit, StatusInv, ViewInv, PickWasHealthy, RefusalJustified
<1> QED BY <1>1, LifeInit DEF SelectionInv

(* A step that changes no verdict and no request keeps the selections. *)
LEMMA SelectionUntouched ==
    ASSUME SelectionInv, UNCHANGED <<states, probed, reqvars>>
    PROVE  StatusInv' /\ ViewInv' /\ PickWasHealthy' /\ RefusalJustified'
<1>1. HealthyNow' = HealthyNow
  BY SameVerdicts
<1>2. ViewInv'
  BY <1>1 DEF SelectionInv, ViewInv, reqvars
<1> QED BY <1>2 DEF SelectionInv, StatusInv, PickWasHealthy, RefusalJustified, reqvars

(* A step of a request keeps its own selection's history, and the others'. *)
LEMMA SelectionRequest ==
    ASSUME SelectionInv, NEW r \in Requests, RequestStep(r)
    PROVE  StatusInv' /\ ViewInv' /\ PickWasHealthy' /\ RefusalJustified'
<1> USE DEF SelectionInv, LifeInv
<1>0. HealthyNow' = HealthyNow
  <2>1. UNCHANGED <<states, probed>>
    BY DEF RequestStep, Arrive, Reject, Scan, Refuse, SelectBackend,
           AcquireBackend, CallReturns, ReleaseBackend, Reply, wvars
  <2> QED BY <2>1, SameVerdicts
<1>1. ASSUME NEW k \in Kinds, Arrive(r, k)
      PROVE  StatusInv' /\ ViewInv' /\ PickWasHealthy' /\ RefusalJustified'
  <2>1. StatusInv' /\ PickWasHealthy' /\ RefusalJustified'
    BY <1>1 DEF Arrive, GTypeOK, StatusInv, PickWasHealthy, RefusalJustified
  <2>2. backends = ChatBackends
    BY <1>1 DEF Arrive, Delivering, BootInv
  <2>3. /\ seen'[r].up = HealthyNow /\ seen'[r].down = ChatBackends \ HealthyNow
        /\ left'[r] = ChatBackends /\ order'[r] = <<>>
    BY <1>1, <2>2 DEF Arrive, GTypeOK, ViewInv, Witness, NoView
  <2>4. ViewInv'
    BY <1>0, <1>1, <2>3 DEF Arrive, GTypeOK, ViewInv
  <2> QED BY <2>1, <2>4
<1>2. ASSUME NEW k \in Kinds, Reject(r, k)
      PROVE  StatusInv' /\ ViewInv' /\ PickWasHealthy' /\ RefusalJustified'
  <2>1. StatusInv' /\ PickWasHealthy' /\ RefusalJustified'
    BY <1>2 DEF Reject, GTypeOK, StatusInv, PickWasHealthy, RefusalJustified
  <2>2. ViewInv'
    BY <1>0, <1>2 DEF Reject, GTypeOK, ViewInv
  <2> QED BY <2>1, <2>2
<1>3. ASSUME NEW b \in ChatBackends, Scan(r, b)
      PROVE  StatusInv' /\ ViewInv' /\ PickWasHealthy' /\ RefusalJustified'
  <2>1. StatusInv' /\ PickWasHealthy' /\ RefusalJustified'
    BY <1>3 DEF Scan, StatusInv, PickWasHealthy, RefusalJustified
  <2>2. /\ order[r] \in Seq(ChatBackends) /\ pc[r] = "scan"
        /\ left'[r] = left[r] \ {b}
        /\ order'[r] = IF IsHealthy(b) THEN Append(order[r], b) ELSE order[r]
        /\ \A q \in Requests : q # r => left'[q] = left[q] /\ order'[q] = order[q]
        /\ UNCHANGED <<pc, seen>>
    BY <1>3 DEF Scan, GTypeOK
  <2>3. CASE IsHealthy(b)
    <3>1. b \in seen[r].up
      BY <2>2, <2>3 DEF ViewInv, HealthyNow
    <3>2. order'[r] # <<>> /\ \A i \in DOMAIN order'[r] : order'[r][i] \in seen[r].up
      BY <2>2, <2>3, <3>1 DEF ViewInv
    <3> QED BY <1>0, <2>1, <2>2, <3>2 DEF ViewInv
  <2>4. CASE ~IsHealthy(b)
    <3>1. b \in seen[r].down
      BY <2>2, <2>4 DEF ViewInv, HealthyNow
    <3> QED BY <1>0, <2>1, <2>2, <2>4, <3>1 DEF ViewInv
  <2> QED BY <2>3, <2>4
<1>4. CASE Refuse(r)
  <2>1. seen[r].down = ChatBackends
    BY <1>4 DEF Refuse, ViewInv, GTypeOK
  <2>2. StatusInv' /\ PickWasHealthy' /\ RefusalJustified'
    BY <1>4, <2>1 DEF Refuse, GTypeOK, StatusInv, PickWasHealthy, RefusalJustified
  <2>3. ViewInv'
    BY <1>0, <1>4 DEF Refuse, GTypeOK, ViewInv
  <2> QED BY <2>2, <2>3
<1>5. CASE SelectBackend(r)
  <2>1. PICK b \in ChatBackends : /\ LB!Select(order[r], DOMAIN order[r], b)
                                    /\ pick' = [pick EXCEPT ![r] = b]
    BY <1>5 DEF SelectBackend
  <2>2. b \in seen[r].up
    BY <1>5, <2>1, SelectsCandidate DEF SelectBackend, GTypeOK, ViewInv
  <2>3. PickWasHealthy'
    BY <1>5, <2>1, <2>2 DEF SelectBackend, GTypeOK, PickWasHealthy
  <2>4. StatusInv' /\ RefusalJustified'
    BY <1>5 DEF SelectBackend, GTypeOK, StatusInv, RefusalJustified
  <2>5. ViewInv'
    BY <1>0, <1>5 DEF SelectBackend, GTypeOK, ViewInv
  <2> QED BY <2>3, <2>4, <2>5
<1>6. CASE AcquireBackend(r)
  <2>1. status'[r] # "unavailable"
    BY <1>6 DEF AcquireBackend, GTypeOK, StatusInv
  <2>2. StatusInv' /\ PickWasHealthy' /\ RefusalJustified'
    BY <1>6, <2>1 DEF AcquireBackend, GTypeOK, StatusInv, PickWasHealthy, RefusalJustified
  <2>3. ViewInv'
    BY <1>0, <1>6 DEF AcquireBackend, GTypeOK, ViewInv
  <2> QED BY <2>2, <2>3
<1>7. ASSUME NEW ok \in BOOLEAN, CallReturns(r, ok)
      PROVE  StatusInv' /\ ViewInv' /\ PickWasHealthy' /\ RefusalJustified'
  <2>1. StatusInv' /\ PickWasHealthy' /\ RefusalJustified'
    BY <1>7 DEF CallReturns, GTypeOK, StatusInv, PickWasHealthy, RefusalJustified
  <2>2. ViewInv'
    BY <1>0, <1>7 DEF CallReturns, GTypeOK, ViewInv
  <2> QED BY <2>1, <2>2
<1>8. CASE ReleaseBackend(r)
  <2>1. StatusInv' /\ PickWasHealthy' /\ RefusalJustified'
    BY <1>8 DEF ReleaseBackend, GTypeOK, StatusInv, PickWasHealthy, RefusalJustified
  <2>2. ViewInv'
    BY <1>0, <1>8 DEF ReleaseBackend, GTypeOK, ViewInv
  <2> QED BY <2>1, <2>2
<1>9. CASE Reply(r)
  <2>1. StatusInv' /\ PickWasHealthy' /\ RefusalJustified'
    BY <1>9 DEF Reply, GTypeOK, StatusInv, PickWasHealthy, RefusalJustified
  <2>2. ViewInv'
    BY <1>0, <1>9 DEF Reply, GTypeOK, ViewInv
  <2> QED BY <2>1, <2>2
<1> QED BY <1>1, <1>2, <1>3, <1>4, <1>5, <1>6, <1>7, <1>8, <1>9 DEF RequestStep

(* A booked verdict is witnessed by every request in its scan. *)
LEMMA SelectionVerdict ==
    ASSUME SelectionInv, VerdictApplied
    PROVE  StatusInv' /\ ViewInv' /\ PickWasHealthy' /\ RefusalJustified'
<1> USE DEF SelectionInv, LifeInv
<1>1. /\ \A r \in Requests : seen'[r] = IF pc[r] = "scan" THEN Witness(seen[r], HealthyNow')
                                        ELSE seen[r]
      /\ UNCHANGED <<pc, left, order, pick, status>>
  BY DEF VerdictApplied
<1>2. StatusInv'
  BY <1>1 DEF StatusInv
<1>3. PickWasHealthy'
  BY <1>1 DEF PickWasHealthy
<1>4. RefusalJustified'
  BY <1>1 DEF RefusalJustified, StatusInv
<1>5. ViewInv'
  <2> SUFFICES ASSUME NEW r \in Requests
               PROVE  /\ pc'[r] \notin {"scan", "selected"} => order'[r] = <<>>
                      /\ pc'[r] = "scan" =>
                          /\ HealthyNow' \subseteq seen'[r].up
                          /\ ChatBackends \ HealthyNow' \subseteq seen'[r].down
                          /\ \A i \in DOMAIN order'[r] : order'[r][i] \in seen'[r].up
                          /\ order'[r] = <<>> => ChatBackends \ left'[r] \subseteq seen'[r].down
    BY DEF ViewInv
  <2>1. pc[r] = "scan" => /\ seen'[r].up = seen[r].up \cup HealthyNow'
                          /\ seen'[r].down = seen[r].down \cup (ChatBackends \ HealthyNow')
    BY <1>1, WitnessFields
  <2> QED BY <1>1, <2>1 DEF ViewInv
<1> QED BY <1>2, <1>3, <1>4, <1>5

(* Every step keeps the histories of the selections. *)
LEMMA SelectionStep == SelectionInv /\ [GNext]_gvars => SelectionInv'
<1> SUFFICES ASSUME SelectionInv, [GNext]_gvars PROVE SelectionInv'
  OBVIOUS
<1>l. LifeInv'
  BY LifeStep DEF SelectionInv
<1>1. CASE MainStep
  <2>1. UNCHANGED <<states, probed, reqvars>>
    BY <1>1 DEF MainStep, Register, StartWatchdog, Start, Serve, ListenFails, Signal, Stop,
                BeginShutdown, Expire, Exit, wvars
  <2> QED BY <1>l, <2>1, SelectionUntouched DEF SelectionInv
<1>2. ASSUME NEW r \in Requests, RequestStep(r) PROVE SelectionInv'
  BY <1>l, <1>2, SelectionRequest DEF SelectionInv
<1>3. CASE VerdictApplied
  BY <1>l, <1>3, SelectionVerdict DEF SelectionInv
<1>4. CASE WatchdogStep /\ ~VerdictApplied
  <2>1. UNCHANGED <<states, probed, reqvars>>
    BY <1>4 DEF WatchdogStep, ServiceToggles, Toggle, HealthCallReturns, Answer,
                RoundEnds, ProbeDone, RoundBegins, LoopTick, WatchdogEnds, LoopDone,
                TickerPanics, wvars
  <2> QED BY <1>l, <2>1, SelectionUntouched DEF SelectionInv
<1>5. CASE Terminated \/ UNCHANGED gvars
  <2>1. UNCHANGED <<states, probed, reqvars>>
    BY <1>5 DEF Terminated, gvars, wvars
  <2> QED BY <1>l, <2>1, SelectionUntouched DEF SelectionInv
<1> QED BY <1>1, <1>2, <1>3, <1>4, <1>5 DEF GNext

(* PrimaryHealthy's answers are justified by what was true during the call, *)
(* whatever the watchdog and other requests do meanwhile: the chosen        *)
(* backend was healthy at some moment of it, and a refusal means that each  *)
(* backend was degraded at some moment of it.                               *)
THEOREM SelectionJustified == GSpec => []ChoiceJustified
<1>1. GInit => SelectionInv
  BY SelectionInit
<1>2. SelectionInv /\ [GNext]_gvars => SelectionInv'
  BY SelectionStep
<1>3. SelectionInv => ChoiceJustified
  BY DEF SelectionInv, ChoiceJustified
<1> QED BY <1>1, <1>2, <1>3, PTL DEF GSpec

-----------------------------------------------------------------------------
(* The watchdog inside the gateway. *)

(* The verdicts the requests read are exact inside the running gateway too  *)
(* (checkBackend under main's life cycle), when no two services share a     *)
(* name.                                                                    *)
THEOREM GatewayVerdictExact ==
    ASSUME DistinctNames
    PROVE  GSpec => []VerdictIsExact
<1>1. GInit => WInv
  BY WInvInit DEF GInit
<1>2. WInv /\ [GNext]_gvars => WInv'
  BY DistinctNames, WInvStep, WatchdogInside
<1>3. WInv => VerdictIsExact
  BY WInvImplies DEF VerdictIsExact
<1> QED BY <1>1, <1>2, <1>3, PTL DEF GSpec

(* Main's life cycle and the requests only ever use the watchdog as its     *)
(* methods are (main.go: Start, Stop; backend.go: IsHealthy): the gateway's *)
(* steps are the watchdog's, or leave it alone.                             *)
THEOREM GatewayIsAWatchdog == GSpec => WInit /\ [][WNext]_wvars
<1>1. GInit => WInit
  BY DEF GInit
<1> QED BY <1>1, WatchdogInside, PTL DEF GSpec

(* What the watchdog promises of a shared name, the gateway keeps.          *)
THEOREM GatewayVerdictShared == GSpec => []VerdictIsShared
BY GatewayIsAWatchdog, SharedInit, SharedStep, SharedImplies, PTL

-----------------------------------------------------------------------------
(* The balancer always has an answer. *)

\* The members of S up to n.
Upto(S, n) == {j \in S : j <= n}

(* Positions are finitely many. *)
LEMMA PositionsFinite ==
    ASSUME NEW N \in Nat, NEW S \in SUBSET (1..N), NEW T \in SUBSET S
    PROVE  IsFiniteSet(T) /\ Cardinality(T) \in Nat
<1>1. IsFiniteSet(1..N)
  BY FS_Interval
<1>2. T \in SUBSET (1..N)
  OBVIOUS
<1>3. IsFiniteSet(T)
  BY <1>1, <1>2, FS_Subset
<1> QED BY <1>3, FS_CardinalityType

(* A set of positions has a k-th one, as long as it has more than k.        *)
LEMMA NthExists ==
    ASSUME NEW N \in Nat, NEW S \in SUBSET (1..N), NEW k \in Nat, k < Cardinality(S)
    PROVE  \E i \in S : Cardinality({j \in S : j < i}) = k
<1> DEFINE C == {n \in Nat : k < Cardinality(Upto(S, n))}
<1>1. \A n : Upto(S, n) \in SUBSET S
  BY DEF Upto
<1>2. \A n : IsFiniteSet(Upto(S, n)) /\ Cardinality(Upto(S, n)) \in Nat
  BY <1>1, PositionsFinite
<1>3. N \in C
  <2>1. \A j \in S : j <= N
    OBVIOUS
  <2>2. Upto(S, N) = S
    BY <2>1 DEF Upto
  <2> QED BY <2>2
<1>4. PICK m \in C : \A n \in C : ~(<<n, m>> \in OpToRel(<, Nat))
  <2>1. C \subseteq Nat /\ C # {}
    BY <1>3
  <2> HIDE DEF C
  <2> QED BY <2>1, WFMin, NatLessThanWellFounded
<1>5. m \in Nat /\ k < Cardinality(Upto(S, m))
  BY <1>4
<1>6. \A n \in Nat : n < m => Cardinality(Upto(S, n)) <= k
  <2>1. ASSUME NEW n \in Nat, n < m PROVE n \notin C
    BY <1>4, <1>5, <2>1 DEF OpToRel
  <2>2. ASSUME NEW n \in Nat, n < m PROVE ~(k < Cardinality(Upto(S, n)))
    BY <2>1, <2>2
  <2>3. ASSUME NEW n \in Nat, n < m PROVE Cardinality(Upto(S, n)) <= k
    BY <1>2, <2>2, <2>3
  <2> QED BY <2>3
<1> HIDE DEF C
<1>7. m # 0
  <2>1. \A j \in S : ~(j <= 0)
    OBVIOUS
  <2>2. Upto(S, 0) = {}
    BY <2>1 DEF Upto
  <2>3. Cardinality(Upto(S, 0)) = 0
    BY <2>2, FS_EmptySet
  <2> QED BY <1>5, <2>3
<1>8. m - 1 \in Nat /\ m - 1 < m
  BY <1>5, <1>7
<1>9. Cardinality(Upto(S, m - 1)) <= k
  BY <1>6, <1>8
<1>10. \A j \in S : j <= m <=> j <= m - 1 \/ j = m
  BY <1>5
<1>11. Upto(S, m) = IF m \in S THEN Upto(S, m - 1) \cup {m} ELSE Upto(S, m - 1)
  BY <1>10 DEF Upto
<1>12. m \in S
  BY <1>2, <1>5, <1>9, <1>11
<1>13. m \notin Upto(S, m - 1)
  BY <1>5 DEF Upto
<1>14. Cardinality(Upto(S, m)) = Cardinality(Upto(S, m - 1)) + 1
  BY <1>2, <1>11, <1>12, <1>13, FS_AddElement
<1>15. Cardinality(Upto(S, m - 1)) = k
  BY <1>2, <1>5, <1>9, <1>14
<1>16. Upto(S, m - 1) = {j \in S : j < m}
  <2>1. \A j \in S : j <= m - 1 <=> j < m
    BY <1>5
  <2> QED BY <2>1 DEF Upto
<1> QED BY <1>12, <1>15, <1>16

(* No two positions are the k-th. *)
LEMMA NthUnique ==
    ASSUME NEW N \in Nat, NEW S \in SUBSET (1..N), NEW a \in S, NEW b \in S,
           Cardinality({j \in S : j < a}) = Cardinality({j \in S : j < b})
    PROVE  a = b
<1> DEFINE Below(n) == {j \in S : j < n}
<1>1. ASSUME NEW x \in S, NEW y \in S, x < y PROVE Cardinality(Below(x)) # Cardinality(Below(y))
  <2>1. x \in Nat /\ y \in Nat
    OBVIOUS
  <2>2. \A j \in S : j < x => j < y
    BY <1>1, <2>1
  <2>3. Below(x) \in SUBSET Below(y) 
    BY <2>2
  <2>4. x \in Below(y) /\ x \notin Below(x)
    BY <1>1, <2>1
  <2>5. IsFiniteSet(Below(y))
    <3>1. Below(y) \in SUBSET S
      OBVIOUS
    <3> QED BY <3>1, PositionsFinite
  <2> HIDE DEF Below
  <2> QED BY <2>3, <2>4, <2>5, FS_Subset
<1>2. ~(a < b) /\ ~(b < a)
  BY <1>1
<1>3. a \in Nat /\ b \in Nat
  OBVIOUS
<1> QED BY <1>2, <1>3
(* Of finitely many positions some have the fewest requests in flight.      *)
LEMMA SomeTied ==
    ASSUME GTypeOK, NEW names \in Seq(ChatBackends), names # <<>>
    PROVE  /\ LB!Tied(names, DOMAIN names) \in SUBSET (1..Len(names))
           /\ LB!Tied(names, DOMAIN names) # {}
<1>1. DOMAIN names = 1..Len(names) /\ Len(names) \in Nat /\ 1 \in DOMAIN names
  OBVIOUS
<1> DEFINE load(i) == active[names[i]]
           L == {load(i) : i \in DOMAIN names}
<1>2. \A i \in DOMAIN names : load(i) \in Nat
  BY DEF GTypeOK, LB!LBTypeOK
<1>3. L \subseteq Nat /\ L # {} /\ \A i \in DOMAIN names : load(i) \in L
  BY <1>1, <1>2
<1>4. PICK x \in L : \A y \in L : ~(<<y, x>> \in OpToRel(<, Nat))
  BY <1>3, WFMin, NatLessThanWellFounded
<1>5. \A y \in L : ~(y < x)
  BY <1>3, <1>4 DEF OpToRel
<1>6. PICK i \in DOMAIN names : x = load(i)
  OBVIOUS
<1>7. \A j \in DOMAIN names : load(i) <= load(j)
  <2>1. TAKE j \in DOMAIN names
  <2>2. ~(load(j) < load(i)) /\ load(j) \in Nat /\ load(i) \in Nat
    BY <1>2, <1>3, <1>5, <1>6
  <2> HIDE DEF load
  <2> QED BY <2>2
<1>8. i \in LB!Tied(names, DOMAIN names)
  BY <1>7 DEF LB!Tied
<1> QED BY <1>1, <1>8 DEF LB!Tied

(* The balancer counts as everyone does. *)
LEMMA SameCardinality == \A S : LB!Cardinality(S) = Cardinality(S)
BY DEF LB!Cardinality, Cardinality

(* A request that found a healthy backend is never stuck at the selection,  *)
(* for any number of candidates (backend.go, PrimaryHealthy).               *)
THEOREM SelectionAlwaysDefined == GSpec => []SelectionDefined
<1>1. GTypeOK => SelectionDefined
  <2> SUFFICES ASSUME GTypeOK, NEW r \in Requests, order[r] # <<>>
               PROVE  \E i \in DOMAIN order[r] :
                          Chosen(r, i) /\ \A j \in DOMAIN order[r] : Chosen(r, j) => j = i
    BY DEF SelectionDefined
  <2> DEFINE names == order[r]
             tied == LB!Tied(order[r], DOMAIN order[r])
             k == rr % Cardinality(tied)
  <2>1. names \in Seq(ChatBackends) /\ rr \in Nat
    BY DEF GTypeOK, LB!LBTypeOK
  <2>2. Len(names) \in Nat /\ DOMAIN names = 1..Len(names)
    BY <2>1
  <2>3. tied \in SUBSET (1..Len(names)) /\ tied # {}
    BY <2>1, SomeTied
  <2>4. \A i : Chosen(r, i) <=> i \in tied /\ Cardinality({j \in tied : j < i}) = k
    <3>1. ASSUME NEW i PROVE Chosen(r, i) <=> i \in tied /\ Cardinality({j \in tied : j < i}) = k
      BY SameCardinality, Zenon DEF Chosen, LB!IsNth
    <3> QED BY <3>1
  <2> HIDE DEF tied
  <2>5. Cardinality(tied) \in Nat \ {0}
    <3>1. IsFiniteSet(1..Len(names))
      BY <2>2, FS_Interval
    <3>2. IsFiniteSet(tied)
      BY <2>3, <3>1, FS_Subset
    <3> QED BY <2>3, <3>2, FS_CardinalityType, FS_EmptySet
  <2>6. k \in Nat /\ k < Cardinality(tied)
    BY <2>1, <2>5
  <2>7. PICK i \in tied : Cardinality({j \in tied : j < i}) = k
    BY <2>2, <2>3, <2>6, NthExists
  <2>8. \A j \in tied : Cardinality({x \in tied : x < j}) = k => j = i
    <3>1. TAKE j \in tied
    <3>2. HAVE Cardinality({x \in tied : x < j}) = k
    <3>3. Cardinality({x \in tied : x < j}) = Cardinality({x \in tied : x < i})
      BY <2>7, <3>2
    <3> DEFINE N == Len(names)
    <3>4. N \in Nat /\ tied \in SUBSET (1..N)
      BY <2>2, <2>3
    <3> HIDE DEF N
    <3> QED BY <3>3, <3>4, NthUnique
  <2> QED BY <2>2, <2>3, <2>4, <2>7, <2>8
<1> QED BY <1>1, GatewayType, PTL

=============================================================================
