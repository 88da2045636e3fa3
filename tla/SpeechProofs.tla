---------------------------- MODULE SpeechProofs ----------------------------
(***************************************************************************)
(* Proofs about the speech endpoint, for any backends, models, requests    *)
(* and relation between the names: the router's balancer and its two       *)
(* counters account for every call.                                        *)
(***************************************************************************)
EXTENDS Speech, FiniteSetTheorems, TLAPS

(* Any call on the router's balancer leaves its state well typed. *)
LEMMA RouterBalancerType ==
    ASSUME LB!LBTypeOK, NEW names, NEW P, NEW b,
           LB!Select(names, P, b) \/ LB!Acquire(b) \/ LB!Release(b)
    PROVE  LB!LBTypeOK'
<1>1. CASE LB!Select(names, P, b)
  <2>1. (rr + 1) % RRMod \in 0..(RRMod - 1)
    BY SpeechAssumption DEF LB!LBTypeOK
  <2> QED BY <1>1, <2>1 DEF LB!Select, LB!LBTypeOK, LB!lbvars
<1>2. CASE LB!Acquire(b)
  <2>1. \A c \in TTSBackends : active[c] + 1 \in Nat
    BY DEF LB!LBTypeOK
  <2> QED BY <1>2, <2>1 DEF LB!Acquire, LB!LBTypeOK
<1>3. CASE LB!Release(b)
  <2>1. \A c \in TTSBackends : (IF active[c] > 0 THEN active[c] - 1 ELSE active[c]) \in Nat
    BY DEF LB!LBTypeOK
  <2> QED BY <1>3, <2>1 DEF LB!Release, LB!LBTypeOK
<1> QED BY <1>1, <1>2, <1>3

(* The endpoint starts with the types of SpTypeOK. *)
LEMMA SpTypeInit == SpInit => SpTypeOK
<1> SUFFICES ASSUME SpInit PROVE SpTypeOK
  OBVIOUS
<1>1. LB!LBTypeOK
  BY SpeechAssumption DEF SpInit, LB!LBInit, LB!LBTypeOK
<1>2. order \in [Requests -> Seq(TTSBackends)]
  <2>1. <<>> \in Seq(TTSBackends)
    OBVIOUS
  <2> QED BY <2>1 DEF SpInit
<1> QED BY <1>1, <1>2, SpeechAssumption DEF SpInit, SpTypeOK

(* The return of Synthesize adds one outcome of one kind, on one backend. *)
LEMMA SynthesizedCounts ==
    ASSUME SpTypeOK, NEW r \in Requests, NEW ok \in BOOLEAN, Synthesized(r, ok)
    PROVE  /\ outcomes' \in [TTSBackends -> [success : Nat, error : Nat]]
           /\ \A b \in TTSBackends :
                outcomes'[b].success + outcomes'[b].error =
                    outcomes[b].success + outcomes[b].error + (IF b = pick[r] THEN 1 ELSE 0)
           /\ \A b \in TTSBackends \ {pick[r]} : outcomes'[b] = outcomes[b]
<1> DEFINE kind == IF ok THEN "success" ELSE "error"
<1>1. outcomes \in [TTSBackends -> [success : Nat, error : Nat]]
  BY DEF SpTypeOK
<1>2. outcomes' = [outcomes EXCEPT ![pick[r]][kind] = @ + 1]
  BY DEF Synthesized
<1>3. ASSUME NEW b \in TTSBackends, b # pick[r] PROVE outcomes'[b] = outcomes[b]
  BY <1>1, <1>2, <1>3
<1>4. ASSUME NEW b \in TTSBackends, b = pick[r]
      PROVE  /\ outcomes'[b] \in [success : Nat, error : Nat]
             /\ outcomes'[b].success + outcomes'[b].error =
                    outcomes[b].success + outcomes[b].error + 1
  <2>1. outcomes'[b] = [outcomes[b] EXCEPT ![kind] = @ + 1]
    BY <1>1, <1>2, <1>4
  <2>2. CASE ok
    <3>1. outcomes'[b] = [outcomes[b] EXCEPT !.success = @ + 1]
      BY <2>1, <2>2
    <3> QED BY <1>1, <3>1
  <2>3. CASE ~ok
    <3>1. outcomes'[b] = [outcomes[b] EXCEPT !.error = @ + 1]
      BY <2>1, <2>3
    <3> QED BY <1>1, <3>1
  <2> QED BY <2>2, <2>3
<1>5. outcomes' = [b \in TTSBackends |-> outcomes'[b]]
  BY <1>1, <1>2
<1>6. \A b \in TTSBackends : outcomes'[b] \in [success : Nat, error : Nat]
  BY <1>1, <1>3, <1>4
<1> HIDE DEF kind
<1>7. outcomes' \in [TTSBackends -> [success : Nat, error : Nat]]
  BY <1>5, <1>6
<1>8. ASSUME NEW b \in TTSBackends
      PROVE  outcomes'[b].success + outcomes'[b].error =
               outcomes[b].success + outcomes[b].error + (IF b = pick[r] THEN 1 ELSE 0)
  BY <1>1, <1>3, <1>4
<1> QED BY <1>3, <1>7, <1>8

(* Every step keeps the types. *)
LEMMA SpTypeStep == SpTypeOK /\ [SpNext]_spvars => SpTypeOK'
<1> SUFFICES ASSUME SpTypeOK, [SpNext]_spvars PROVE SpTypeOK'
  OBVIOUS
<1>1. ASSUME NEW b \in TTSBackends, VerdictChanges(b) PROVE SpTypeOK'
  <2>1. sick' \in [Requests -> SUBSET TTSBackends]
    BY <1>1 DEF VerdictChanges, SpTypeOK
  <2> QED BY <1>1, <2>1 DEF VerdictChanges, counters, SpTypeOK, LB!LBTypeOK
<1>2. ASSUME NEW r \in Requests, RequestStep(r) PROVE SpTypeOK'
  <2>1. ASSUME NEW m \in Models, Arrive(r, m) PROVE SpTypeOK'
    <3>1. Degraded \in SUBSET TTSBackends
      BY DEF Degraded
    <3> QED BY <2>1, <3>1 DEF Arrive, counters, SpTypeOK, LB!LBTypeOK
  <2>2. CASE Reject(r)
    BY <2>2 DEF Reject, counters, SpTypeOK, LB!LBTypeOK
  <2>3. ASSUME NEW b \in TTSBackends, Scan(r, b) PROVE SpTypeOK'
    <3>1. (IF healthy[b] THEN Append(order[r], b) ELSE order[r]) \in Seq(TTSBackends)
      BY DEF SpTypeOK
    <3>2. left[r] \ {b} \in SUBSET TTSBackends
      BY DEF SpTypeOK
    <3> QED BY <2>3, <3>1, <3>2 DEF Scan, counters, SpTypeOK, LB!LBTypeOK
  <2>4. CASE Refuse(r)
    BY <2>4 DEF Refuse, counters, SpTypeOK, LB!LBTypeOK
  <2>5. CASE Pick(r)
    <3>1. LB!LBTypeOK'
      BY <2>5, RouterBalancerType DEF Pick, SpTypeOK
    <3>2. \E b \in TTSBackends : pick' = [pick EXCEPT ![r] = b]
      BY <2>5 DEF Pick
    <3> QED BY <2>5, <3>1, <3>2 DEF Pick, counters, SpTypeOK
  <2>6. CASE Dispatch(r) \/ DispatchNowhere(r)
    <3>1. LB!LBTypeOK'
      BY <2>6, RouterBalancerType DEF Dispatch, DispatchNowhere, SpTypeOK
    <3>2. decisions' \in [TTSBackends -> Nat]
      <4>1. decisions \in [TTSBackends -> Nat]
        BY DEF SpTypeOK
      <4>2. decisions' = [decisions EXCEPT ![pick[r]] = @ + 1]
        BY <2>6 DEF Dispatch, DispatchNowhere
      <4>3. \A b \in TTSBackends : decisions[b] + 1 \in Nat
        BY <4>1
      <4> QED BY <4>1, <4>2, <4>3
    <3>3. order' \in [Requests -> Seq(TTSBackends)]
      <4>1. <<>> \in Seq(TTSBackends)
        OBVIOUS
      <4> QED BY <2>6, <4>1 DEF Dispatch, DispatchNowhere, SpTypeOK
    <3> QED BY <2>6, <3>1, <3>2, <3>3 DEF Dispatch, DispatchNowhere, SpTypeOK
  <2>7. ASSUME NEW ok \in BOOLEAN, Synthesized(r, ok) PROVE SpTypeOK'
    <3>1. outcomes' \in [TTSBackends -> [success : Nat, error : Nat]]
      BY <2>7, SynthesizedCounts DEF SpTypeOK
    <3> QED BY <2>7, <3>1 DEF Synthesized, SpTypeOK, LB!LBTypeOK
  <2>8. CASE ReleaseBackend(r)
    <3>1. LB!LBTypeOK'
      BY <2>8, RouterBalancerType DEF ReleaseBackend, SpTypeOK
    <3> QED BY <2>8, <3>1 DEF ReleaseBackend, counters, SpTypeOK
  <2>9. CASE SynthesizePanics(r)
    BY <2>9 DEF SynthesizePanics, counters, SpTypeOK, LB!LBTypeOK
  <2> QED BY <1>2, <2>1, <2>2, <2>3, <2>4, <2>5, <2>6, <2>7, <2>8, <2>9 DEF RequestStep
<1>3. CASE UNCHANGED spvars
  BY <1>3 DEF spvars, counters, SpTypeOK, LB!LBTypeOK
<1> QED BY <1>1, <1>2, <1>3 DEF SpNext

(* The state of the router and of the requests always has its type          *)
(* (internal/router, handler/audio.go).                                     *)
THEOREM SpeechType == SpSpec => []SpTypeOK
<1>1. SpInit => SpTypeOK
  BY SpTypeInit
<1>2. SpTypeOK /\ [SpNext]_spvars => SpTypeOK'
  BY SpTypeStep
<1> QED BY <1>1, <1>2, PTL DEF SpSpec

-----------------------------------------------------------------------------
(* The counts. *)

CountsExact ==
    \A b \in TTSBackends :
        /\ active[b] = Cardinality(Calling(b))
        /\ decisions[b] = outcomes[b].success + outcomes[b].error + Cardinality(WithoutOutcome(b))

\* A request is dispatched to a backend it has picked, and has no status before
\* its call has returned.
PickMade ==
    \A r \in Requests :
        /\ pc[r] \in {"picked", "calling", "release"} => pick[r] \in TTSBackends
        /\ pc[r] \in {"idle", "scan"} => pick[r] = NoBackend
        /\ pc[r] \in {"idle", "scan", "picked", "calling"} => status[r] = "none"

AccountInv == SpTypeOK /\ PickMade /\ CountsExact

(* The sets that are counted are finite. *)
LEMMA CallsFinite == \A b : IsFiniteSet(Calling(b)) /\ IsFiniteSet(WithoutOutcome(b))
<1> SUFFICES ASSUME NEW b PROVE IsFiniteSet(Calling(b)) /\ IsFiniteSet(WithoutOutcome(b))
  OBVIOUS
<1>1. Calling(b) \subseteq Requests /\ WithoutOutcome(b) \subseteq Requests
  BY DEF Calling, WithoutOutcome
<1> QED BY <1>1, SpeechAssumption, FS_Subset

(* A step that moves no request to or from a call and touches no counter *)
(* keeps the counts exact.                                               *)
LEMMA SameCalls ==
    ASSUME CountsExact, UNCHANGED <<active, decisions, outcomes>>,
           \A q \in Requests, b \in TTSBackends :
               /\ (q \in Calling(b))' <=> q \in Calling(b)
               /\ (q \in WithoutOutcome(b))' <=> q \in WithoutOutcome(b)
    PROVE  CountsExact'
<1>1. \A b \in TTSBackends : Calling(b)' = Calling(b) /\ WithoutOutcome(b)' = WithoutOutcome(b)
  BY DEF Calling, WithoutOutcome
<1> QED BY <1>1 DEF CountsExact

(* Before the first request nothing is counted. *)
LEMMA AccountInit == SpInit => AccountInv
<1> SUFFICES ASSUME SpInit PROVE AccountInv
  OBVIOUS
<1>1. PickMade
  BY DEF SpInit, PickMade
<1>2. \A b \in TTSBackends : Calling(b) = {} /\ WithoutOutcome(b) = {}
  BY DEF SpInit, Calling, WithoutOutcome
<1>3. \A b \in TTSBackends :
         active[b] = 0 /\ decisions[b] = 0 /\ outcomes[b].success = 0 /\ outcomes[b].error = 0
  BY DEF SpInit, LB!LBInit
<1> QED BY <1>1, <1>2, <1>3, FS_EmptySet, SpTypeInit DEF AccountInv, CountsExact

(* Dispatch, the return of Synthesize and the deferred release each move one *)
(* request and count it; no other step touches calls or counters.            *)
LEMMA AccountStep == AccountInv /\ [SpNext]_spvars => AccountInv'
<1> SUFFICES ASSUME AccountInv, [SpNext]_spvars PROVE AccountInv'
  OBVIOUS
<1> USE DEF AccountInv
<1>t. SpTypeOK'
  BY SpTypeStep
<1>0. ASSUME UNCHANGED <<active, decisions, outcomes, pc, pick, status>> PROVE AccountInv'
  BY <1>t, <1>0, SameCalls DEF PickMade, Calling, WithoutOutcome
<1>1. ASSUME NEW b \in TTSBackends, VerdictChanges(b) PROVE AccountInv'
  BY <1>0, <1>1 DEF VerdictChanges, counters
<1>2. ASSUME NEW r \in Requests, RequestStep(r) PROVE AccountInv'
  <2>1. ASSUME NEW m \in Models, Arrive(r, m) PROVE AccountInv'
    <3>1. PickMade'
      BY <2>1 DEF Arrive, PickMade, SpTypeOK
    <3>2. CountsExact'
      BY <2>1, SameCalls DEF Arrive, PickMade, counters, Calling, WithoutOutcome, SpTypeOK
    <3> QED BY <1>t, <3>1, <3>2
  <2>2. CASE Reject(r)
    <3>1. PickMade'
      BY <2>2 DEF Reject, PickMade, SpTypeOK
    <3>2. CountsExact'
      BY <2>2, SameCalls DEF Reject, PickMade, counters, Calling, WithoutOutcome, SpTypeOK
    <3> QED BY <1>t, <3>1, <3>2
  <2>3. ASSUME NEW b \in TTSBackends, Scan(r, b) PROVE AccountInv'
    BY <1>0, <2>3 DEF Scan, counters
  <2>4. CASE Refuse(r)
    <3>1. PickMade'
      BY <2>4 DEF Refuse, PickMade, SpTypeOK
    <3>2. CountsExact'
      BY <2>4, SameCalls, SpeechAssumption DEF Refuse, PickMade, counters, Calling, WithoutOutcome, SpTypeOK
    <3> QED BY <1>t, <3>1, <3>2
  <2>5. CASE Pick(r)
    <3>0. PICK b \in TTSBackends : /\ LB!Select(order[r], TopTier(order[r], model[r]), b)
                                   /\ pick' = [pick EXCEPT ![r] = b]
      BY <2>5 DEF Pick
    <3>1. PickMade'
      BY <2>5, <3>0 DEF Pick, PickMade, SpTypeOK
    <3>2. UNCHANGED active
      BY <3>0 DEF LB!Select, LB!lbvars
    <3>3. CountsExact'
      BY <2>5, <3>0, <3>2, SameCalls DEF Pick, PickMade, counters, Calling, WithoutOutcome, SpTypeOK
    <3> QED BY <1>t, <3>1, <3>3
  <2>6. CASE Dispatch(r) \/ DispatchNowhere(r)
    <3>0. PickMade' /\ pick[r] \in TTSBackends
      BY <2>6 DEF Dispatch, DispatchNowhere, PickMade, SpTypeOK
    <3>1. ASSUME NEW b \in TTSBackends
          PROVE  /\ active'[b] = Cardinality(Calling(b)')
                 /\ decisions'[b] = outcomes'[b].success + outcomes'[b].error
                                     + Cardinality(WithoutOutcome(b)')
      <4>0. /\ active[b] = Cardinality(Calling(b)) /\ IsFiniteSet(Calling(b))
            /\ decisions[b] = outcomes[b].success + outcomes[b].error + Cardinality(WithoutOutcome(b))
            /\ IsFiniteSet(WithoutOutcome(b)) /\ UNCHANGED outcomes
            /\ outcomes[b].success \in Nat /\ outcomes[b].error \in Nat
        BY <2>6, CallsFinite DEF CountsExact, SpTypeOK, Dispatch, DispatchNowhere
      <4>1. CASE b = pick[r]
        <5>1. r \notin Calling(b) /\ r \notin WithoutOutcome(b)
          BY <2>6 DEF Dispatch, DispatchNowhere, PickMade, Calling, WithoutOutcome
        <5>2. Calling(b)' = Calling(b) \cup {r} /\ WithoutOutcome(b)' = WithoutOutcome(b) \cup {r}
          BY <2>6, <4>1 DEF Dispatch, DispatchNowhere, Calling, WithoutOutcome, SpTypeOK
        <5>3. active'[b] = active[b] + 1 /\ decisions'[b] = decisions[b] + 1
          BY <2>6, <4>1 DEF Dispatch, DispatchNowhere, LB!Acquire, SpTypeOK, LB!LBTypeOK
        <5>4. /\ Cardinality(Calling(b)') = Cardinality(Calling(b)) + 1
              /\ Cardinality(WithoutOutcome(b)') = Cardinality(WithoutOutcome(b)) + 1
          BY <4>0, <5>1, <5>2, FS_AddElement
        <5> QED BY <4>0, <5>3, <5>4, FS_CardinalityType
      <4>2. CASE b # pick[r]
        <5>1. Calling(b)' = Calling(b) /\ WithoutOutcome(b)' = WithoutOutcome(b)
          BY <2>6, <4>2 DEF Dispatch, DispatchNowhere, Calling, WithoutOutcome, SpTypeOK
        <5>2. active'[b] = active[b] /\ decisions'[b] = decisions[b]
          BY <2>6, <4>2 DEF Dispatch, DispatchNowhere, LB!Acquire, SpTypeOK, LB!LBTypeOK
        <5> QED BY <4>0, <5>1, <5>2
      <4> QED BY <4>1, <4>2
    <3> QED BY <1>t, <3>0, <3>1 DEF CountsExact
  <2>7. ASSUME NEW ok \in BOOLEAN, Synthesized(r, ok) PROVE AccountInv'
    <3>0. PickMade' /\ pick[r] \in TTSBackends
      BY <2>7 DEF Synthesized, PickMade, SpTypeOK
    <3>1. ASSUME NEW b \in TTSBackends
          PROVE  /\ active'[b] = Cardinality(Calling(b)')
                 /\ decisions'[b] = outcomes'[b].success + outcomes'[b].error
                                     + Cardinality(WithoutOutcome(b)')
      <4>0. /\ active[b] = Cardinality(Calling(b)) /\ IsFiniteSet(Calling(b))
            /\ decisions[b] = outcomes[b].success + outcomes[b].error + Cardinality(WithoutOutcome(b))
            /\ IsFiniteSet(WithoutOutcome(b)) /\ UNCHANGED <<active, decisions>>
            /\ outcomes[b].success \in Nat /\ outcomes[b].error \in Nat
        BY <2>7, CallsFinite DEF CountsExact, SpTypeOK, Synthesized
      <4>1. Calling(b)' = Calling(b)
        BY <2>7 DEF Synthesized, Calling, SpTypeOK
      <4>2. CASE b = pick[r]
        <5>1. r \in WithoutOutcome(b)
          BY <2>7, <4>2 DEF Synthesized, Calling, WithoutOutcome
        <5>2. WithoutOutcome(b)' = WithoutOutcome(b) \ {r}
          BY <2>7, <4>2 DEF Synthesized, Calling, WithoutOutcome, SpTypeOK
        <5>3. outcomes'[b].success + outcomes'[b].error
                = outcomes[b].success + outcomes[b].error + 1
          BY <2>7, <4>0, <4>2, SynthesizedCounts
        <5>4. Cardinality(WithoutOutcome(b)') = Cardinality(WithoutOutcome(b)) - 1
          BY <4>0, <5>1, <5>2, FS_RemoveElement
        <5> QED BY <4>0, <4>1, <5>3, <5>4, FS_CardinalityType
      <4>3. CASE b # pick[r]
        <5>1. WithoutOutcome(b)' = WithoutOutcome(b)
          BY <2>7, <4>3 DEF Synthesized, Calling, WithoutOutcome, SpTypeOK
        <5>2. outcomes'[b] = outcomes[b]
          BY <2>7, <4>3, SynthesizedCounts
        <5> QED BY <4>0, <4>1, <5>1, <5>2
      <4> QED BY <4>2, <4>3
    <3> QED BY <1>t, <3>0, <3>1 DEF CountsExact
  <2>8. CASE ReleaseBackend(r)
    <3>0. PickMade' /\ pick[r] \in TTSBackends
      BY <2>8 DEF ReleaseBackend, PickMade, SpTypeOK
    <3>1. ASSUME NEW b \in TTSBackends
          PROVE  /\ active'[b] = Cardinality(Calling(b)')
                 /\ decisions'[b] = outcomes'[b].success + outcomes'[b].error
                                     + Cardinality(WithoutOutcome(b)')
      <4>0. /\ active[b] = Cardinality(Calling(b)) /\ IsFiniteSet(Calling(b))
            /\ decisions[b] = outcomes[b].success + outcomes[b].error + Cardinality(WithoutOutcome(b))
            /\ UNCHANGED <<decisions, outcomes>>
        BY <2>8, CallsFinite DEF CountsExact, ReleaseBackend, counters
      <4>1. WithoutOutcome(b)' = WithoutOutcome(b)
        BY <2>8 DEF ReleaseBackend, Calling, WithoutOutcome, SpTypeOK
      <4>2. CASE b = pick[r]
        <5>1. r \in Calling(b)
          BY <2>8, <4>2 DEF ReleaseBackend, Calling
        <5>2. Calling(b)' = Calling(b) \ {r}
          BY <2>8, <4>2 DEF ReleaseBackend, Calling, SpTypeOK
        <5>3. Cardinality(Calling(b)) \in Nat /\ Cardinality(Calling(b)) # 0
          BY <4>0, <5>1, FS_CardinalityType, FS_EmptySet
        <5>4. active'[b] = active[b] - 1
          BY <2>8, <4>0, <4>2, <5>3 DEF ReleaseBackend, LB!Release, SpTypeOK, LB!LBTypeOK
        <5> QED BY <4>0, <4>1, <5>1, <5>2, <5>4, FS_RemoveElement
      <4>3. CASE b # pick[r]
        <5>1. Calling(b)' = Calling(b)
          BY <2>8, <4>3 DEF ReleaseBackend, Calling, SpTypeOK
        <5>2. active'[b] = active[b]
          BY <2>8, <4>3 DEF ReleaseBackend, LB!Release, SpTypeOK, LB!LBTypeOK
        <5> QED BY <4>0, <4>1, <5>1, <5>2
      <4> QED BY <4>2, <4>3
    <3> QED BY <1>t, <3>0, <3>1 DEF CountsExact
  <2>9. CASE SynthesizePanics(r)
    <3>1. PickMade'
      BY <2>9 DEF SynthesizePanics, PickMade, SpTypeOK
    <3>2. CountsExact'
      BY <2>9, SameCalls DEF SynthesizePanics, counters, Calling, WithoutOutcome, SpTypeOK
    <3> QED BY <1>t, <3>1, <3>2
  <2> QED BY <1>2, <2>1, <2>2, <2>3, <2>4, <2>5, <2>6, <2>7, <2>8, <2>9 DEF RequestStep
<1>3. CASE UNCHANGED spvars
  BY <1>0, <1>3 DEF spvars, counters
<1> QED BY <1>1, <1>2, <1>3 DEF SpNext

(* The counts are exact in every reachable state. *)
LEMMA AccountAlways == SpSpec => []AccountInv
<1>1. SpInit => AccountInv
  BY AccountInit
<1>2. AccountInv /\ [SpNext]_spvars => AccountInv'
  BY AccountStep
<1> QED BY <1>1, <1>2, PTL DEF SpSpec

(* The router's balancer counts exactly the calls that are not released     *)
(* (Acquire in selectBackend, the deferred ReleaseBackend of the handler).  *)
THEOREM SpeechInFlightCounted == SpSpec => []SpeechInFlight
<1>1. AccountInv => SpeechInFlight
  BY DEF AccountInv, CountsExact, SpeechInFlight
<1> QED BY <1>1, AccountAlways, PTL

(* Every routing decision ends in one outcome of the metric, success or     *)
(* error, except on the two ways out of the handler that count none: an     *)
(* entry without an adapter and a panic of the call (handler/audio.go).     *)
THEOREM DecisionsAreAccounted == SpSpec => []DecisionsAccounted
<1>1. AccountInv => DecisionsAccounted
  BY DEF AccountInv, CountsExact, DecisionsAccounted
<1> QED BY <1>1, AccountAlways, PTL

-----------------------------------------------------------------------------
(* The selection. *)

\* The request has not selected yet, and what it knows of the backends: each is
\* to be looked at, or was found healthy, or was degraded meanwhile.
Selecting(r) ==
    /\ pick[r] = NoBackend /\ status[r] # "unavailable"
    /\ pc[r] = "scan" =>
        /\ Degraded \subseteq sick[r]
        /\ \A b \in TTSBackends :
            \/ b \in left[r] \cup sick[r]
            \/ \E i \in DOMAIN order[r] : order[r][i] = b

SelectInv ==
    /\ SpTypeOK
    /\ \A r \in Requests : pc[r] \in {"idle", "scan"} => Selecting(r)
    /\ ModelDecides

(* A name matches a model exactly if its score is a match. *)
LEMMA ScoreIsMatch ==
    ASSUME NEW b \in TTSBackends, NEW m \in Models
    PROVE  /\ Score(b, m) \in {10, 60, 110}
           /\ Score(b, m) = 110 <=> b = m
           /\ Score(b, m) >= RequiredScore <=> Matches(b, m)
BY DEF Score, ExactScore, PrefixScore, CapabilityScore, RequiredScore, Matches

(* The top tier is empty only if no candidate matches; a member of it       *)
(* matches, and is the model itself if that is a candidate.                 *)
LEMMA TopTierIsBest ==
    ASSUME NEW names \in Seq(TTSBackends), NEW m \in Models
    PROVE  /\ TopTier(names, m) = {} => \A i \in DOMAIN names : ~Matches(names[i], m)
           /\ \A i \in TopTier(names, m) :
                /\ i \in DOMAIN names /\ Matches(names[i], m)
                /\ (\E j \in DOMAIN names : names[j] = m) => names[i] = m
<1> DEFINE S(i) == Score(names[i], m)
<1>1. ASSUME NEW i \in DOMAIN names
      PROVE  /\ names[i] \in TTSBackends
             /\ S(i) \in {10, 60, 110}
             /\ S(i) = 110 <=> names[i] = m
             /\ S(i) >= RequiredScore <=> Matches(names[i], m)
  <2>1. names[i] \in TTSBackends
    OBVIOUS
  <2> QED BY <2>1, ScoreIsMatch
<1>2. TopTier(names, m) = {i \in DOMAIN names : /\ S(i) >= RequiredScore
                                                /\ \A j \in DOMAIN names : S(i) >= S(j)}
  BY DEF TopTier
<1> HIDE DEF S
<1>3. ASSUME TopTier(names, m) = {}, NEW i \in DOMAIN names PROVE ~Matches(names[i], m)
  <2>1. CASE \E j \in DOMAIN names : S(j) = 110
    BY <1>1, <1>2, <1>3, <2>1 DEF RequiredScore
  <2>2. CASE \A j \in DOMAIN names : S(j) # 110
    BY <1>1, <1>2, <1>3, <2>2 DEF RequiredScore
  <2> QED BY <2>1, <2>2
<1>4. ASSUME NEW i \in TopTier(names, m)
      PROVE  /\ i \in DOMAIN names /\ Matches(names[i], m)
             /\ (\E j \in DOMAIN names : names[j] = m) => names[i] = m
  <2>1. i \in DOMAIN names /\ S(i) >= RequiredScore /\ \A j \in DOMAIN names : S(i) >= S(j)
    BY <1>2
  <2>2. ASSUME NEW j \in DOMAIN names, names[j] = m PROVE names[i] = m
    <3>1. S(j) = 110 /\ S(i) >= S(j)
      BY <1>1, <2>1, <2>2
    <3>2. S(i) = 110
      BY <1>1, <2>1, <3>1
    <3> QED BY <1>1, <2>1, <3>2
  <2> QED BY <1>1, <2>1, <2>2
<1> QED BY <1>3, <1>4

(* No request has selected before the first one arrives. *)
LEMMA SelectInit == SpInit => SelectInv
<1> SUFFICES ASSUME SpInit PROVE SelectInv
  OBVIOUS
<1>1. \A r \in Requests : Selecting(r)
  BY DEF SpInit, Selecting
<1>2. ModelDecides
  BY DEF SpInit, ModelDecides, ModelHonoured, SpeechRefusalJustified
<1> QED BY <1>1, <1>2, SpTypeInit DEF SelectInv

(* A scan forgets no backend, and the end of it chooses by the model. *)
LEMMA SelectStep == SelectInv /\ [SpNext]_spvars => SelectInv'
<1> SUFFICES ASSUME SelectInv, [SpNext]_spvars PROVE SelectInv'
  OBVIOUS
<1> USE DEF SelectInv
<1>t. SpTypeOK'
  BY SpTypeStep
<1>m. ModelHonoured /\ SpeechRefusalJustified
  BY DEF ModelDecides
<1>0. ASSUME UNCHANGED <<model, left, pick, sick>>,
             \A q \in Requests : /\ pc[q] \in {"idle", "scan"} <=> pc'[q] \in {"idle", "scan"}
                                 /\ pc'[q] \in {"idle", "scan"} => UNCHANGED <<pc[q], order[q]>>
                                 /\ status'[q] = "unavailable" /\ pick[q] = NoBackend
                                        => status[q] = "unavailable",
             UNCHANGED healthy
      PROVE  SelectInv'
  <2>1. \A q \in Requests : (pc[q] \in {"idle", "scan"} => Selecting(q))'
    BY <1>0 DEF Selecting, Degraded
  <2>2. ModelDecides'
    BY <1>0, <1>m DEF ModelDecides, ModelHonoured, SpeechRefusalJustified
  <2> QED BY <1>t, <2>1, <2>2
<1>1. ASSUME NEW b \in TTSBackends, VerdictChanges(b) PROVE SelectInv'
  <2>0. /\ healthy' = [healthy EXCEPT ![b] = ~@]
        /\ \A q \in Requests : sick'[q] = IF pc[q] = "scan" /\ healthy[b] THEN sick[q] \cup {b}
                                                                        ELSE sick[q]
        /\ UNCHANGED <<pc, model, left, order, pick, status>>
    BY <1>1 DEF VerdictChanges
  <2>1. ASSUME NEW q \in Requests, pc[q] \in {"idle", "scan"} PROVE Selecting(q)'
    <3>1. Degraded' \subseteq Degraded \cup (IF healthy[b] THEN {b} ELSE {})
      BY <2>0 DEF Degraded, SpTypeOK
    <3>2. sick[q] \subseteq sick'[q]
      BY <2>0
    <3>3. pc[q] = "scan" => Degraded' \subseteq sick'[q]
      BY <2>0, <2>1, <3>1 DEF Selecting
    <3> QED BY <2>0, <2>1, <3>2, <3>3 DEF Selecting
  <2>2. \A q \in Requests : sick[q] \subseteq sick'[q]
    BY <2>0
  <2>3. \A q \in Requests : pick[q] # NoBackend => sick'[q] = sick[q]
    BY <2>0 DEF Selecting
  <2>4. ModelDecides'
    BY <1>m, <2>0, <2>2, <2>3 DEF ModelDecides, ModelHonoured, SpeechRefusalJustified, Matches
  <2> QED BY <1>t, <2>0, <2>1, <2>4
<1>2. ASSUME NEW r \in Requests, RequestStep(r) PROVE SelectInv'
  <2>1. ASSUME NEW m \in Models, Arrive(r, m) PROVE SelectInv'
    <3>1. ASSUME NEW q \in Requests, pc'[q] \in {"idle", "scan"} PROVE Selecting(q)'
      <4>1. CASE q = r
        BY <2>1, <4>1 DEF Arrive, Selecting, SpTypeOK, Degraded
      <4>2. CASE q # r
        BY <2>1, <3>1, <4>2 DEF Arrive, Selecting, SpTypeOK, Degraded
      <4> QED BY <4>1, <4>2
    <3>2. ModelDecides'
      <4>1. pick'[r] = NoBackend /\ status'[r] # "unavailable"
        BY <2>1 DEF Arrive, Selecting
      <4>2. \A q \in Requests \ {r} : UNCHANGED <<pick[q], model[q], sick[q], status[q]>>
        BY <2>1 DEF Arrive, SpTypeOK
      <4> QED BY <1>m, <4>1, <4>2 DEF ModelDecides, ModelHonoured, SpeechRefusalJustified, Matches
    <3> QED BY <1>t, <3>1, <3>2
  <2>2. CASE Reject(r)
    <3>1. \A q \in Requests : (pc[q] \in {"idle", "scan"} => Selecting(q))'
      BY <2>2 DEF Reject, Selecting, SpTypeOK, Degraded
    <3>2. ModelDecides'
      BY <1>m, <2>2 DEF Reject, SpTypeOK, ModelDecides, ModelHonoured, SpeechRefusalJustified
    <3> QED BY <1>t, <3>1, <3>2
  <2>3. ASSUME NEW b \in TTSBackends, Scan(r, b) PROVE SelectInv'
    <3>1. ASSUME NEW q \in Requests, pc'[q] \in {"idle", "scan"} PROVE Selecting(q)'
      <4>0. pc[q] = pc'[q] /\ Selecting(q)
        BY <2>3, <3>1 DEF Scan
      <4>1. CASE q = r
        <5>0. /\ pc[r] = "scan" /\ Degraded \subseteq sick[r]
              /\ order[r] \in Seq(TTSBackends)
              /\ left'[r] = left[r] \ {b}
              /\ order'[r] = IF healthy[b] THEN Append(order[r], b) ELSE order[r]
              /\ UNCHANGED <<sick, pick, status, healthy>>
          BY <2>3, <4>0, <4>1 DEF Scan, Selecting, SpTypeOK
        <5>1. \A i \in DOMAIN order[r] : i \in DOMAIN order'[r] /\ order'[r][i] = order[r][i]
          BY <5>0
        <5>2. b \in sick[r] \/ \E i \in DOMAIN order'[r] : order'[r][i] = b
          <6>1. CASE healthy[b]
            <7>1. Len(order[r]) + 1 \in DOMAIN order'[r] /\ order'[r][Len(order[r]) + 1] = b
              BY <5>0, <6>1
            <7> QED BY <7>1
          <6>2. CASE ~healthy[b]
            BY <5>0, <6>2 DEF Degraded
          <6> QED BY <6>1, <6>2
        <5>3. ASSUME NEW c \in TTSBackends
              PROVE  c \in left'[r] \cup sick'[r] \/ \E i \in DOMAIN order'[r] : order'[r][i] = c
          BY <4>0, <4>1, <5>0, <5>1, <5>2 DEF Selecting
        <5> QED BY <4>0, <4>1, <5>0, <5>3 DEF Selecting, Degraded
      <4>2. CASE q # r
        BY <2>3, <4>0, <4>2 DEF Scan, Selecting, SpTypeOK, Degraded
      <4> QED BY <4>1, <4>2
    <3>2. ModelDecides'
      BY <1>m, <2>3 DEF Scan, ModelDecides, ModelHonoured, SpeechRefusalJustified
    <3> QED BY <1>t, <3>1, <3>2
  <2>k. ASSUME left[r] = {}, pc[r] = "scan"
        PROVE  \A b \in TTSBackends \ sick[r] : \E i \in DOMAIN order[r] : order[r][i] = b
    BY <2>k DEF Selecting
  <2>y. order[r] \in Seq(TTSBackends) /\ model[r] \in Models
    BY DEF SpTypeOK
  <2>4. CASE Refuse(r)
    <3>1. \A q \in Requests : (pc[q] \in {"idle", "scan"} => Selecting(q))'
      BY <2>4 DEF Refuse, Selecting, SpTypeOK, Degraded
    <3>2. {b \in TTSBackends : Matches(b, model[r])} \subseteq sick[r]
      <4>1. left[r] = {} /\ pc[r] = "scan" /\ TopTier(order[r], model[r]) = {}
        BY <2>4 DEF Refuse
      <4>2. \A i \in DOMAIN order[r] : ~Matches(order[r][i], model[r])
        BY <2>y, <4>1, TopTierIsBest
      <4> QED BY <2>k, <4>1, <4>2
    <3>3. ModelHonoured'
      BY <1>m, <2>4 DEF Refuse, ModelHonoured
    <3>4. SpeechRefusalJustified'
      BY <1>m, <2>4, <3>2 DEF Refuse, SpTypeOK, SpeechRefusalJustified
    <3> QED BY <1>t, <3>1, <3>3, <3>4 DEF ModelDecides
  <2>5. CASE Pick(r)
    <3>0. PICK b \in TTSBackends : /\ LB!Select(order[r], TopTier(order[r], model[r]), b)
                                   /\ pick' = [pick EXCEPT ![r] = b]
      BY <2>5 DEF Pick
    <3>1. PICK i \in TopTier(order[r], model[r]) : b = order[r][i]
      BY <3>0 DEF LB!Select, LB!Tied
    <3>2. Matches(b, model[r]) /\ (model[r] \in TTSBackends \ sick[r] => b = model[r])
      BY <2>5, <2>k, <2>y, <3>1, TopTierIsBest DEF Pick
    <3>3. \A q \in Requests : (pc[q] \in {"idle", "scan"} => Selecting(q))'
      BY <2>5, <3>0 DEF Pick, Selecting, SpTypeOK, Degraded
    <3>4. ModelHonoured'
      BY <1>m, <2>5, <3>0, <3>2 DEF Pick, SpTypeOK, ModelHonoured, Matches
    <3>5. SpeechRefusalJustified'
      BY <1>m, <2>5, <3>0, SpeechAssumption DEF Pick, SpTypeOK, SpeechRefusalJustified
    <3> QED BY <1>t, <3>3, <3>4, <3>5 DEF ModelDecides
  <2>6. CASE Dispatch(r) \/ DispatchNowhere(r)
    <3>1. DispatchNowhere(r) => pick[r] # NoBackend
      BY SpeechAssumption DEF DispatchNowhere
    <3> QED BY <1>0, <2>6, <3>1 DEF Dispatch, DispatchNowhere, SpTypeOK
  <2>7. ASSUME NEW ok \in BOOLEAN, Synthesized(r, ok) PROVE SelectInv'
    <3>1. /\ UNCHANGED <<healthy, model, left, order, pick, sick>>
          /\ pc'[r] = "release" /\ status'[r] \in {"ok", "error"}
          /\ \A q \in Requests \ {r} : UNCHANGED <<pc[q], status[q]>>
          /\ pc[r] = "calling"
      BY <2>7 DEF Synthesized, SpTypeOK
    <3> QED BY <1>0, <3>1
  <2>8. CASE ReleaseBackend(r)
    BY <1>0, <2>8 DEF ReleaseBackend, counters, SpTypeOK
  <2>9. CASE SynthesizePanics(r)
    BY <1>0, <2>9 DEF SynthesizePanics, counters, SpTypeOK
  <2> QED BY <1>2, <2>1, <2>2, <2>3, <2>4, <2>5, <2>6, <2>7, <2>8, <2>9 DEF RequestStep
<1>3. CASE UNCHANGED spvars
  BY <1>0, <1>3 DEF spvars, counters
<1> QED BY <1>1, <1>2, <1>3 DEF SpNext

(* The requested model decides where a request goes and whether it is       *)
(* refused, however the verdicts change during the selection (scoreBackend, *)
(* selectBackend).                                                          *)
THEOREM ModelDecidesAlways == SpSpec => []ModelDecides
<1>1. SpInit => SelectInv
  BY SelectInit
<1>2. SelectInv /\ [SpNext]_spvars => SelectInv'
  BY SelectStep
<1>3. SelectInv => ModelDecides
  BY DEF SelectInv
<1> QED BY <1>1, <1>2, <1>3, PTL DEF SpSpec

=============================================================================
