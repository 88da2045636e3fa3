--------------------------- MODULE WatchdogProofs ---------------------------
(***************************************************************************)
(* Proofs about the watchdog, for any number of backends and any           *)
(* threshold.                                                              *)
(***************************************************************************)
EXTENDS Watchdog, TLAPS

USE DEF NameOf, NoSample

(* The second component of a pair, whatever its type. *)
LEMMA PairSecond == \A x, y : <<x, y>>[2] = y
OBVIOUS

(* Every service's name is one the watchdog keeps a state for. *)
LEMMA NameOfService == \A s \in Services : NameOf(s) \in Names
BY DEF Services, Names

(* With distinct names no two services share a name. *)
LEMMA NamesDistinct ==
    ASSUME DistinctNames
    PROVE  \A s, t \in Services : NameOf(s) = NameOf(t) => s = t
BY DEF DistinctNames, Services

(* A saturated count stays in range, is at least one after a failure, and   *)
(* compares with the threshold like the exact count.                        *)
LEMMA SaturateFacts ==
    \A n \in 0..MaxFailures :
        /\ Saturate(n + 1) \in 0..MaxFailures
        /\ Saturate(n + 1) < Threshold <=> n + 1 < Threshold
BY WatchdogAssumption DEF Saturate, Threshold

(* What checkBackend makes of an entry is an entry again. *)
LEMMA CheckedType ==
    ASSUME NEW st \in [failures : 0..MaxFailures, healthy : BOOLEAN], NEW err \in BOOLEAN
    PROVE  Checked(st, err) \in [failures : 0..MaxFailures, healthy : BOOLEAN]
<1>1. Failed(st) \in [failures : 0..MaxFailures, healthy : BOOLEAN]
  <2>1. Saturate(st.failures + 1) \in 0..MaxFailures
    BY SaturateFacts
  <2>2. (st.healthy /\ st.failures + 1 < FailThreshold) \in BOOLEAN
    OBVIOUS
  <2> QED BY <2>1, <2>2 DEF Failed
<1>2. Succeeded(st) \in [failures : 0..MaxFailures, healthy : BOOLEAN]
  BY WatchdogAssumption DEF Succeeded
<1> QED BY <1>1, <1>2 DEF Checked

(* The initial state is typed. *)
LEMMA WInitType == WInit => WTypeOK
<1> SUFFICES ASSUME WInit PROVE WTypeOK
  OBVIOUS
<1>1. 0 \in 0..MaxFailures
  BY WatchdogAssumption
<1>2. [failures |-> 0, healthy |-> TRUE] \in [failures : 0..MaxFailures, healthy : BOOLEAN]
  BY <1>1
<1>3. states \in [Names -> [failures : 0..MaxFailures, healthy : BOOLEAN]]
  BY <1>2 DEF WInit
<1>4. streak \in [Services -> 0..MaxFailures] /\ gauge \in [Names -> {0, 1, NoSample}]
  BY <1>1 DEF WInit
<1> QED BY <1>3, <1>4 DEF WInit, WTypeOK

(* Every step keeps the types. *)
LEMMA WTypeStep == WTypeOK /\ [WNext]_wvars => WTypeOK'
<1> SUFFICES ASSUME WTypeOK, [WNext]_wvars PROVE WTypeOK'
  OBVIOUS
<1>1. ASSUME NEW s \in Services, Toggle(s) PROVE WTypeOK'
  BY <1>1 DEF Toggle, WTypeOK
<1>2. CASE Start
  BY <1>2 DEF Start, WTypeOK
<1>3. ASSUME NEW s \in Services, Answer(s) PROVE WTypeOK'
  <2>1. (IF up[s] THEN 0 ELSE Saturate(streak[s] + 1)) \in 0..MaxFailures
    BY SaturateFacts, WatchdogAssumption DEF WTypeOK
  <2>2. HealthErr(s) \in BOOLEAN
    BY DEF HealthErr
  <2> QED BY <1>3, <2>1, <2>2 DEF Answer, WTypeOK
<1>4. CASE Apply
  <2>1. PICK a \in answer :
          LET n == NameOf(a[1])
              st == Checked(states[n], a[2])
          IN  /\ states' = [states EXCEPT ![n] = st]
              /\ probed' = probed \cup {n}
              /\ gauge' = [gauge EXCEPT ![n] = IF st.healthy THEN 1 ELSE 0]
              /\ answer' = {}
              /\ UNCHANGED <<up, wpc, todo, cancelled, streak>>
    BY <1>4 DEF Apply
  <2>2. a[1] \in Services /\ a[2] \in BOOLEAN
    BY DEF WTypeOK
  <2>3. NameOf(a[1]) \in Names
    BY <2>2, NameOfService
  <2>4. Checked(states[NameOf(a[1])], a[2]) \in [failures : 0..MaxFailures, healthy : BOOLEAN]
    BY <2>2, <2>3, CheckedType DEF WTypeOK
  <2> QED BY <2>1, <2>3, <2>4 DEF WTypeOK
<1>5. CASE ProbeDone
  BY <1>5 DEF ProbeDone, WTypeOK
<1>6. CASE LoopTick
  BY <1>6 DEF LoopTick, WTypeOK
<1>7. CASE LoopDone
  BY <1>7 DEF LoopDone, WTypeOK
<1>8. CASE Stop
  BY <1>8 DEF Stop, WTypeOK
<1>9. CASE UNCHANGED wvars
  BY <1>9 DEF wvars, WTypeOK
<1> QED BY <1>1, <1>2, <1>3, <1>4, <1>5, <1>6, <1>7, <1>8, <1>9 DEF WNext, WStep

(* The watchdog's state always has its type (watchdog.go, all methods). *)
THEOREM WatchdogType == WSpec => []WTypeOK
<1>1. WInit => WTypeOK
  BY WInitType
<1>2. WTypeOK /\ [WNext]_wvars => WTypeOK'
  BY WTypeStep
<1> QED BY <1>1, <1>2, PTL DEF WSpec

-----------------------------------------------------------------------------
(* The inductive invariant. *)

(* The verdict follows the count over one checkBackend, failed or not. *)
LEMMA CheckedJudged ==
    ASSUME NEW st \in [failures : 0..MaxFailures, healthy : BOOLEAN], NEW err \in BOOLEAN,
           st.healthy <=> st.failures < Threshold
    PROVE  /\ Checked(st, err).healthy <=> Checked(st, err).failures < Threshold
           /\ Checked(st, err).failures = IF err THEN Saturate(st.failures + 1) ELSE 0
<1>0. Threshold \in Nat \ {0}
  BY WatchdogAssumption DEF Threshold
<1>1. CASE err
  <2>1. Checked(st, err).failures = Saturate(st.failures + 1)
    BY <1>1 DEF Checked, Failed
  <2>2. Checked(st, err).healthy <=> st.failures < Threshold /\ st.failures + 1 < FailThreshold
    BY <1>1 DEF Checked, Failed
  <2>3. st.failures < Threshold /\ st.failures + 1 < FailThreshold <=> st.failures + 1 < Threshold
    BY WatchdogAssumption DEF Threshold
  <2> QED BY <1>1, <2>1, <2>2, <2>3, SaturateFacts
<1>2. CASE ~err
  BY <1>0, <1>2 DEF Checked, Succeeded
<1> QED BY <1>1, <1>2

(* WInv holds initially and every step of the watchdog or of a service      *)
(* keeps it when the names are distinct.                                    *)
LEMMA WInvInit == WInit => WInv
<1> SUFFICES ASSUME WInit PROVE WInv
  OBVIOUS
<1>1. WTypeOK
  BY WInitType
<1>2. Threshold \in Nat \ {0}
  BY WatchdogAssumption DEF Threshold
<1>3. Judged
  BY <1>2 DEF WInit, Judged
<1>4. OneAnswer
  BY DEF WInit, OneAnswer
<1>5. Counted
  <2> SUFFICES ASSUME NEW s \in Services PROVE streak[s] = 0 /\ Count(s) = 0
    BY DEF Counted
  <2> QED BY NameOfService DEF WInit, Count
<1> QED BY <1>1, <1>3, <1>4, <1>5 DEF WInv

(* Every step keeps the count and the verdict in agreement with the true *)
(* streak.                                                               *)
LEMMA WInvStep ==
    ASSUME DistinctNames, WInv, [WNext]_wvars
    PROVE  WInv'
<1> USE DEF WInv
<1>t. WTypeOK'
  BY WTypeStep
<1>0. ASSUME UNCHANGED <<states, probed, answer, cancelled, streak>> PROVE WInv'
  <2>1. Judged' /\ OneAnswer'
    BY <1>0 DEF Judged, OneAnswer
  <2>2. Counted'
    BY <1>0 DEF Counted, Count
  <2> QED BY <1>t, <2>1, <2>2
<1>1. ASSUME NEW s \in Services, Toggle(s) PROVE WInv'
  BY <1>0, <1>1 DEF Toggle
<1>2. CASE Start
  BY <1>0, <1>2 DEF Start
<1>3. ASSUME NEW s \in Services, Answer(s) PROVE WInv'
  <2>0. /\ answer = {} /\ answer' = {<<s, HealthErr(s)>>}
        /\ streak' = [streak EXCEPT ![s] = IF up[s] THEN 0 ELSE Saturate(@ + 1)]
        /\ UNCHANGED <<states, probed, cancelled>>
    BY <1>3 DEF Answer, ReadyToProbe
  <2>1. Judged' /\ OneAnswer'
    BY <2>0 DEF Judged, OneAnswer
  <2>2. ASSUME NEW t \in Services
        PROVE  /\ (streak[t])' <= Count(t)'
               /\ ~cancelled' => (streak[t])' = Count(t)'
    <3>1. NameOf(t) \in Names
      BY NameOfService
    <3>2. /\ Count(t) = states[NameOf(t)].failures
          /\ streak[t] <= Count(t)
          /\ ~cancelled => streak[t] = Count(t)
          /\ streak[t] \in 0..MaxFailures /\ Count(t) \in 0..MaxFailures
      BY <2>0, <3>1 DEF Counted, Count, WTypeOK
    <3>3. CASE t # s
      <4>1. streak'[t] = streak[t] /\ Count(t)' = Count(t)
        BY <2>0, <3>3, <3>2 DEF Count, WTypeOK
      <4> QED BY <2>0, <3>2, <4>1
    <3>4. CASE t = s /\ HealthErr(s)
      <4>1. Count(t)' = Saturate(Count(t) + 1)
        BY <2>0, <3>2, <3>4 DEF Count
      <4>2. streak'[t] = IF up[t] THEN 0 ELSE Saturate(streak[t] + 1)
        BY <2>0, <3>4 DEF WTypeOK
      <4>3. ~cancelled => ~up[t]
        BY <3>4 DEF HealthErr
      <4> QED BY <2>0, <3>2, <4>1, <4>2, <4>3, WatchdogAssumption DEF Saturate
    <3>5. CASE t = s /\ ~HealthErr(s)
      <4>1. Count(t)' = 0
        <5>1. HealthErr(s) = FALSE
          BY <3>5 DEF HealthErr
        <5> QED BY <2>0, <3>5, <5>1 DEF Count
      <4>2. streak'[t] = 0
        BY <2>0, <3>5 DEF WTypeOK, HealthErr
      <4> QED BY <4>1, <4>2
    <3> QED BY <3>3, <3>4, <3>5
  <2>3. Counted'
    BY <2>2 DEF Counted
  <2> QED BY <1>t, <2>1, <2>3
<1>4. CASE Apply
  <2>1. PICK a \in answer :
          LET n == NameOf(a[1])
              st == Checked(states[n], a[2])
          IN  /\ states' = [states EXCEPT ![n] = st]
              /\ probed' = probed \cup {n}
              /\ answer' = {}
              /\ UNCHANGED <<cancelled, streak>>
    BY <1>4 DEF Apply
  <2> DEFINE s == a[1]
             n == NameOf(a[1])
  <2>2. a[2] \in BOOLEAN /\ s \in Services /\ n \in Names /\ a = <<s, a[2]>>
    BY NameOfService DEF WTypeOK
  <2>3. states[n] \in [failures : 0..MaxFailures, healthy : BOOLEAN]
    BY <2>2 DEF WTypeOK
  <2>4. /\ states'[n] = Checked(states[n], a[2])
        /\ \A m \in Names : m # n => states'[m] = states[m]
    BY <2>1, <2>2 DEF WTypeOK
  <2>5. /\ states'[n].healthy <=> states'[n].failures < Threshold
        /\ states'[n].failures = IF a[2] THEN Saturate(states[n].failures + 1) ELSE 0
    BY <2>2, <2>3, <2>4, CheckedJudged DEF Judged
  <2>6. Judged'
    BY <2>1, <2>4, <2>5 DEF Judged
  <2>7. OneAnswer'
    BY <2>1 DEF OneAnswer
  <2>8. ASSUME NEW t \in Services PROVE Count(t)' = Count(t)
    <3>0. NameOf(t) \in Names
      BY NameOfService
    <3>1. CASE t = s
      <4>1. Count(t)' = states'[n].failures
        BY <2>1, <3>1 DEF Count
      <4>2. CASE a[2]
        BY <2>2, <2>5, <3>1, <4>1, <4>2 DEF Count
      <4>3. CASE ~a[2]
        <5>1. a = <<s, FALSE>>
          BY <2>2, <4>3
        <5>2. <<s, TRUE>> \notin answer
          <6> SUFFICES ASSUME <<s, TRUE>> \in answer PROVE FALSE
            OBVIOUS
          <6>1. a = <<s, TRUE>>
            BY DEF OneAnswer
          <6>2. a[2] = <<s, TRUE>>[2]
            BY Zenon, <6>1
          <6>3. <<s, TRUE>>[2] = TRUE
            BY Zenon, PairSecond
          <6> QED BY <4>3, <6>2, <6>3
        <5> QED BY <2>5, <3>1, <4>1, <4>3, <5>1, <5>2 DEF Count
      <4> QED BY <4>2, <4>3
    <3>2. CASE t # s
      <4>1. NameOf(t) # n
        BY <2>2, <3>2, NamesDistinct
      <4>2. <<t, TRUE>> \notin answer /\ <<t, FALSE>> \notin answer
        BY <2>2, <3>2 DEF OneAnswer
      <4> QED BY <2>1, <2>4, <3>0, <4>1, <4>2 DEF Count
    <3> QED BY <3>1, <3>2
  <2>9. Counted'
    BY <2>1, <2>8 DEF Counted
  <2> QED BY <1>t, <2>6, <2>7, <2>9
<1>5. CASE ProbeDone
  BY <1>0, <1>5 DEF ProbeDone
<1>6. CASE LoopTick
  BY <1>0, <1>6 DEF LoopTick
<1>7. CASE LoopDone
  BY <1>0, <1>7 DEF LoopDone
<1>8. CASE Stop
  <2>1. Judged' /\ OneAnswer'
    BY <1>8 DEF Stop, Judged, OneAnswer
  <2>2. Counted'
    BY <1>8 DEF Stop, Counted, Count
  <2> QED BY <1>t, <2>1, <2>2
<1>9. CASE UNCHANGED wvars
  BY <1>0, <1>9 DEF wvars
<1> QED BY <1>1, <1>2, <1>3, <1>4, <1>5, <1>6, <1>7, <1>8, <1>9 DEF WNext, WStep

(* A service without a pending answer has exactly its booked failures. *)
LEMMA CountSettled ==
    ASSUME NEW s \in Services, ~Pending(s)
    PROVE  Count(s) = states[NameOf(s)].failures
BY DEF Pending, Count

(* With the count and the streak in agreement the verdict is exact. *)
LEMMA WInvImplies == WInv => DownIsDegraded /\ DegradedIsDown
<1> SUFFICES ASSUME WInv, NEW s \in Services, ~Pending(s)
             PROVE  /\ streak[s] >= Threshold => ~IsHealthy(NameOf(s))
                    /\ ~cancelled /\ ~IsHealthy(NameOf(s)) => streak[s] >= Threshold
  BY DEF DownIsDegraded, DegradedIsDown
<1>1. NameOf(s) \in Names
  BY NameOfService
<1>2. /\ streak[s] <= states[NameOf(s)].failures
      /\ ~cancelled => streak[s] = states[NameOf(s)].failures
  BY CountSettled DEF WInv, Counted
<1>3. streak[s] \in Nat /\ states[NameOf(s)].failures \in Nat /\ Threshold \in Nat \ {0}
  BY <1>1, WatchdogAssumption DEF WInv, WTypeOK, Threshold
<1>4. /\ states[NameOf(s)].healthy <=> states[NameOf(s)].failures < Threshold
      /\ NameOf(s) \notin probed => states[NameOf(s)].failures = 0
  BY <1>1 DEF WInv, Judged
<1> QED BY <1>2, <1>3, <1>4 DEF IsHealthy

(* checkBackend's verdict is exact (watchdog.go, checkBackend): when no two *)
(* services share a name, a service that failed its last fail_threshold     *)
(* probes is degraded, and until Stop nothing else is.                      *)
THEOREM VerdictExact ==
    ASSUME DistinctNames
    PROVE  WSpec => []VerdictIsExact
<1>1. WInit => WInv
  BY WInvInit
<1>2. WInv /\ [WNext]_wvars => WInv'
  BY DistinctNames, WInvStep
<1>3. WInv => VerdictIsExact
  BY WInvImplies DEF VerdictIsExact
<1> QED BY <1>1, <1>2, <1>3, PTL DEF WSpec

-----------------------------------------------------------------------------
(* A name that a chat and a TTS service share. *)

(* Every name is that of a service. *)
LEMMA SharingFacts ==
    ASSUME NEW n \in Names
    PROVE  Sharing(n) # {} /\ Sharing(n) \subseteq Services
<1>1. <<"chat", n>> \in Services \/ <<"tts", n>> \in Services
  BY DEF Services, Names
<1>2. NameOf(<<"chat", n>>) = n /\ NameOf(<<"tts", n>>) = n
  OBVIOUS
<1> QED BY <1>1, <1>2 DEF Sharing

(* The streaks of a name are counts. *)
LEMMA StreakOfType ==
    ASSUME WTypeOK, NEW n
    PROVE  StreakOf("chat", n) \in 0..MaxFailures /\ StreakOf("tts", n) \in 0..MaxFailures
BY WatchdogAssumption DEF StreakOf, WTypeOK

(* The count of a name is a count. *)
LEMMA BookedType ==
    ASSUME WTypeOK, NEW n \in Names
    PROVE  Booked(n) \in 0..MaxFailures
<1>1. states[n].failures \in 0..MaxFailures
  BY DEF WTypeOK
<1>2. Saturate(states[n].failures + 1) \in 0..MaxFailures
  BY <1>1, SaturateFacts
<1>3. 0 \in 0..MaxFailures
  BY WatchdogAssumption
<1> QED BY <1>1, <1>2, <1>3 DEF Booked

(* Nothing is counted before the first probe. *)
LEMMA SharedInit == WInit => SharedInv
<1> SUFFICES ASSUME WInit PROVE SharedInv
  OBVIOUS
<1>1. WTypeOK /\ Judged /\ OneAnswer
  BY WInvInit DEF WInv
<1>2. ASSUME NEW n \in Names
      PROVE  /\ \E s \in Sharing(n) : streak[s] <= Booked(n)
             /\ ~cancelled => Booked(n) <= StreakOf("chat", n) + StreakOf("tts", n)
  <2>1. Booked(n) = 0
    BY DEF WInit, Booked
  <2>2. PICK s \in Sharing(n) : s \in Services
    BY SharingFacts
  <2>3. streak[s] = 0
    BY <2>2 DEF WInit
  <2>4. StreakOf("chat", n) \in Nat /\ StreakOf("tts", n) \in Nat
    BY <1>1, StreakOfType
  <2> QED BY <2>1, <2>2, <2>3, <2>4
<1> QED BY <1>1, <1>2 DEF SharedInv, CountedTogether

(* A probe is answered: the count of its name and the streak of its service *)
(* grow together, or both start again.                                      *)
LEMMA SharedAnswer ==
    ASSUME SharedInv, WTypeOK', NEW s \in Services, Answer(s), NEW n \in Names
    PROVE  /\ (\E t \in Sharing(n) : streak[t] <= Booked(n))'
           /\ ~cancelled' => Booked(n)' <= StreakOf("chat", n)' + StreakOf("tts", n)'
<1>0. /\ answer = {} /\ answer' = {<<s, HealthErr(s)>>}
      /\ streak' = [streak EXCEPT ![s] = IF up[s] THEN 0 ELSE Saturate(@ + 1)]
      /\ UNCHANGED <<states, probed, cancelled>>
  BY DEF Answer, ReadyToProbe
<1>1. /\ WTypeOK /\ Sharing(n)' = Sharing(n)
      /\ Booked(n) = states[n].failures
      /\ \A t \in Services : t # s => streak'[t] = streak[t]
      /\ streak'[s] = IF up[s] THEN 0 ELSE Saturate(streak[s] + 1)
  BY <1>0 DEF SharedInv, WTypeOK, Sharing, Booked
<1>2. PICK t \in Sharing(n) : streak[t] <= Booked(n)
  BY DEF SharedInv, CountedTogether
<1>3. ~cancelled => Booked(n) <= StreakOf("chat", n) + StreakOf("tts", n)
  BY DEF SharedInv, CountedTogether
<1>4. /\ t \in Services /\ NameOf(t) = n
      /\ streak[t] \in 0..MaxFailures /\ streak[s] \in 0..MaxFailures
      /\ Booked(n) \in 0..MaxFailures
  BY <1>1, BookedType DEF Sharing, WTypeOK
<1>5. /\ StreakOf("chat", n) \in Nat /\ StreakOf("tts", n) \in Nat
      /\ StreakOf("chat", n)' \in Nat /\ StreakOf("tts", n)' \in Nat
  <2>1. StreakOf("chat", n) \in 0..MaxFailures /\ StreakOf("tts", n) \in 0..MaxFailures
    BY <1>1, StreakOfType
  <2>2. StreakOf("chat", n)' \in 0..MaxFailures /\ StreakOf("tts", n)' \in 0..MaxFailures
    BY WatchdogAssumption DEF StreakOf, WTypeOK
  <2> QED BY <2>1, <2>2
<1>6. CASE NameOf(s) # n
  <2>1. Booked(n)' = Booked(n)
    BY <1>0, <1>1, <1>6 DEF Booked, Sharing
  <2>2. t # s /\ streak'[t] = streak[t]
    BY <1>1, <1>4, <1>6
  <2>3. StreakOf("chat", n)' = StreakOf("chat", n) /\ StreakOf("tts", n)' = StreakOf("tts", n)
    <3>1. s # <<"chat", n>> /\ s # <<"tts", n>>
      BY <1>6
    <3> QED BY <1>1, <3>1 DEF StreakOf
  <2> QED BY <1>0, <1>1, <1>2, <1>3, <2>1, <2>2, <2>3
<1>7. CASE NameOf(s) = n /\ HealthErr(s)
  <2>1. HealthErr(s) = TRUE
    BY <1>7 DEF HealthErr
  <2>2. s \in Sharing(n)
    BY <1>7 DEF Sharing
  <2>3. Booked(n)' = Saturate(Booked(n) + 1)
    <3>1. \E x \in Sharing(n) : <<x, TRUE>> \in answer'
      BY <1>0, <2>1, <2>2
    <3> QED BY <1>0, <1>1, <3>1 DEF Booked, Sharing
  <2>4. \E x \in Sharing(n) : streak'[x] <= Booked(n)'
    <3>1. CASE t = s
      <4>1. streak'[s] <= Saturate(streak[s] + 1)
        BY <1>1, <1>4, WatchdogAssumption DEF Saturate
      <4> QED BY <1>1, <1>2, <1>4, <2>3, <3>1, <4>1, WatchdogAssumption DEF Saturate
    <3>2. CASE t # s
      <4>1. streak'[t] = streak[t]
        BY <1>1, <1>4, <3>2
      <4> QED BY <1>1, <1>2, <1>4, <2>3, <4>1, WatchdogAssumption DEF Saturate
    <3> QED BY <3>1, <3>2
  <2>5. ~cancelled' => Booked(n)' <= StreakOf("chat", n)' + StreakOf("tts", n)'
    <3> SUFFICES ASSUME ~cancelled PROVE Booked(n)' <= StreakOf("chat", n)' + StreakOf("tts", n)'
      BY <1>0
    <3>1. streak'[s] = Saturate(streak[s] + 1)
      BY <1>1, <1>7 DEF HealthErr
    <3> DEFINE b == Booked(n)
               x == streak[s]
               y == StreakOf("chat", n) + StreakOf("tts", n) - x
    <3>2. StreakOf("chat", n)' + StreakOf("tts", n)' = Saturate(x + 1) + y /\ y \in Nat
      <4>1. CASE s = <<"chat", n>>
        <5>1. StreakOf("chat", n) = x /\ StreakOf("chat", n)' = Saturate(x + 1)
          BY <3>1, <4>1 DEF StreakOf
        <5>2. StreakOf("tts", n)' = StreakOf("tts", n)
          BY <1>1, <4>1 DEF StreakOf
        <5> QED BY <1>5, <5>1, <5>2
      <4>2. CASE s = <<"tts", n>>
        <5>1. StreakOf("tts", n) = x /\ StreakOf("tts", n)' = Saturate(x + 1)
          BY <3>1, <4>2 DEF StreakOf
        <5>2. StreakOf("chat", n)' = StreakOf("chat", n)
          BY <1>1, <4>2 DEF StreakOf
        <5> QED BY <1>5, <5>1, <5>2
      <4> QED BY <1>7, <4>1, <4>2 DEF Services
    <3>3. b <= x + y
      BY <1>3, <1>4, <1>5
    <3>4. b \in 0..MaxFailures /\ x \in 0..MaxFailures
      BY <1>4
    <3> HIDE DEF b, x, y
    <3>5. Saturate(b + 1) <= Saturate(x + 1) + y
      BY <3>2, <3>3, <3>4, WatchdogAssumption DEF Saturate
    <3> QED BY <2>3, <3>2, <3>5 DEF b
  <2> QED BY <1>1, <2>4, <2>5
<1>8. CASE NameOf(s) = n /\ ~HealthErr(s)
  <2>1. HealthErr(s) = FALSE
    BY <1>8 DEF HealthErr
  <2>2. s \in Sharing(n) /\ streak'[s] = 0
    BY <1>1, <1>8 DEF Sharing, HealthErr
  <2>3. Booked(n)' = 0
    <3>1. \E x \in Sharing(n) : <<x, FALSE>> \in answer'
      BY <1>0, <2>1, <2>2
    <3>2. ~ \E x \in Sharing(n) : <<x, TRUE>> \in answer'
      <4>1. \A x : <<x, TRUE>> # <<s, FALSE>>
        OBVIOUS
      <4> QED BY <1>0, <2>1, <4>1
    <3> QED BY <1>1, <3>1, <3>2 DEF Booked
  <2> QED BY <1>1, <1>5, <2>2, <2>3
<1> QED BY <1>6, <1>7, <1>8

(* The answer is booked: no count changes. *)
LEMMA SharedApply ==
    ASSUME SharedInv, Apply, NEW n \in Names
    PROVE  Booked(n)' = Booked(n)
<1>1. PICK a \in answer :
        LET m == NameOf(a[1])
            st == Checked(states[m], a[2])
        IN  /\ states' = [states EXCEPT ![m] = st]
            /\ probed' = probed \cup {m}
            /\ answer' = {}
            /\ UNCHANGED <<cancelled, streak>>
  BY DEF Apply
<1> DEFINE s == a[1]
           m == NameOf(a[1])
<1>2. a[2] \in BOOLEAN /\ s \in Services /\ m \in Names /\ a = <<s, a[2]>>
  BY NameOfService DEF SharedInv, WTypeOK
<1>3. \A b \in answer : b = a
  BY DEF SharedInv, OneAnswer
<1>4. states'[n] = IF n = m THEN Checked(states[n], a[2]) ELSE states[n]
  BY <1>1, <1>2 DEF SharedInv, WTypeOK
<1>5. Sharing(n)' = Sharing(n) /\ Booked(n)' = states'[n].failures
  BY <1>1 DEF Sharing, Booked
<1>6. CASE n # m
  <2>1. \A x \in Sharing(n), e \in BOOLEAN : <<x, e>> \notin answer
    <3> SUFFICES ASSUME NEW x \in Sharing(n), NEW e \in BOOLEAN, <<x, e>> \in answer PROVE FALSE
      OBVIOUS
    <3>1. <<x, e>> = a
      BY <1>3
    <3>2. x = s
      BY <3>1
    <3> QED BY <1>6, <3>2 DEF Sharing
  <2> QED BY <1>4, <1>5, <1>6, <2>1 DEF Booked
<1>7. CASE n = m
  <2>1. states[n] \in [failures : 0..MaxFailures, healthy : BOOLEAN]
    BY DEF SharedInv, WTypeOK
  <2>2. states'[n].failures = IF a[2] THEN Saturate(states[n].failures + 1) ELSE 0
    BY <1>2, <1>4, <1>7, <2>1, CheckedJudged DEF SharedInv, Judged
  <2>3. s \in Sharing(n) /\ <<s, a[2]>> \in answer
    BY <1>2, <1>7 DEF Sharing
  <2>4. CASE a[2] = TRUE
    <3>1. \E x \in Sharing(n) : <<x, TRUE>> \in answer
      BY <2>3, <2>4
    <3> QED BY <1>5, <2>2, <2>4, <3>1 DEF Booked
  <2>5. CASE a[2] = FALSE
    <3>1. \E x \in Sharing(n) : <<x, FALSE>> \in answer
      BY <2>3, <2>5
    <3>2. ~ \E x \in Sharing(n) : <<x, TRUE>> \in answer
      <4> SUFFICES ASSUME NEW x, <<x, TRUE>> \in answer PROVE FALSE
        OBVIOUS
      <4>1. a = <<x, TRUE>>
        BY <1>3
      <4>2. a[2] = <<x, TRUE>>[2]
        BY Zenon, <4>1
      <4>3. <<x, TRUE>>[2] = TRUE
        BY Zenon, PairSecond
      <4> QED BY <2>5, <4>2, <4>3
    <3> QED BY <1>5, <2>2, <2>5, <3>1, <3>2 DEF Booked
  <2> QED BY <1>2, <2>4, <2>5
<1> QED BY <1>6, <1>7

(* The verdict still follows the count alone, and the count its services,   *)
(* whoever they are.                                                        *)
LEMMA SharedStep == SharedInv /\ [WNext]_wvars => SharedInv'
<1> SUFFICES ASSUME SharedInv, [WNext]_wvars PROVE SharedInv'
  OBVIOUS
<1>t. WTypeOK' /\ WTypeOK /\ Judged /\ OneAnswer /\ CountedTogether
  BY WTypeStep DEF SharedInv
<1>0. ASSUME UNCHANGED <<states, probed, answer, streak>>, cancelled' = FALSE => cancelled = FALSE
      PROVE  SharedInv'
  <2>1. Judged' /\ OneAnswer'
    BY <1>0, <1>t DEF Judged, OneAnswer
  <2>2. CountedTogether'
    <3>1. \A n : /\ Sharing(n)' = Sharing(n) /\ Booked(n)' = Booked(n)
                 /\ StreakOf("chat", n)' = StreakOf("chat", n)
                 /\ StreakOf("tts", n)' = StreakOf("tts", n)
      BY <1>0 DEF Sharing, Booked, StreakOf
    <3>2. ~cancelled' => ~cancelled
      BY <1>0, <1>t DEF WTypeOK
    <3> QED BY <1>0, <1>t, <3>1, <3>2 DEF CountedTogether
  <2> QED BY <1>t, <2>1, <2>2 DEF SharedInv
<1>1. ASSUME NEW s \in Services, Toggle(s) PROVE SharedInv'
  BY <1>0, <1>1 DEF Toggle
<1>2. CASE Start
  BY <1>0, <1>2 DEF Start
<1>3. ASSUME NEW s \in Services, Answer(s) PROVE SharedInv'
  <2>1. Judged' /\ OneAnswer'
    BY <1>3, <1>t DEF Answer, Judged, OneAnswer
  <2>2. CountedTogether'
    BY <1>3, <1>t, SharedAnswer DEF CountedTogether
  <2> QED BY <1>t, <2>1, <2>2 DEF SharedInv
<1>4. CASE Apply
  <2>1. Judged'
    <3>1. PICK a \in answer :
            LET n == NameOf(a[1])
                st == Checked(states[n], a[2])
            IN  states' = [states EXCEPT ![n] = st] /\ probed' = probed \cup {n}
      BY <1>4 DEF Apply
    <3> DEFINE n == NameOf(a[1])
    <3>2. a[2] \in BOOLEAN /\ n \in Names
      BY <1>t, NameOfService DEF WTypeOK
    <3>3. states[n] \in [failures : 0..MaxFailures, healthy : BOOLEAN]
      BY <1>t, <3>2 DEF WTypeOK
    <3>4. /\ states'[n] = Checked(states[n], a[2])
          /\ \A m \in Names : m # n => states'[m] = states[m]
      BY <1>t, <3>1, <3>2 DEF WTypeOK
    <3>5. states'[n].healthy <=> states'[n].failures < Threshold
      BY <1>t, <3>2, <3>3, <3>4, CheckedJudged DEF Judged
    <3> QED BY <1>t, <3>1, <3>4, <3>5 DEF Judged
  <2>2. OneAnswer'
    BY <1>4 DEF Apply, OneAnswer
  <2>3. CountedTogether'
    <3>1. UNCHANGED <<cancelled, streak>>
      BY <1>4 DEF Apply
    <3>2. \A n : /\ Sharing(n)' = Sharing(n)
                 /\ StreakOf("chat", n)' = StreakOf("chat", n)
                 /\ StreakOf("tts", n)' = StreakOf("tts", n)
      BY <3>1 DEF Sharing, StreakOf
    <3>3. \A n \in Names : Booked(n)' = Booked(n)
      BY <1>4, SharedApply
    <3> QED BY <1>t, <3>1, <3>2, <3>3 DEF CountedTogether
  <2> QED BY <1>t, <2>1, <2>2, <2>3 DEF SharedInv
<1>5. CASE ProbeDone
  BY <1>0, <1>5 DEF ProbeDone
<1>6. CASE LoopTick
  BY <1>0, <1>6 DEF LoopTick
<1>7. CASE LoopDone
  BY <1>0, <1>7 DEF LoopDone
<1>8. CASE Stop
  BY <1>0, <1>8 DEF Stop
<1>9. CASE UNCHANGED wvars
  BY <1>0, <1>9 DEF wvars
<1> QED BY <1>1, <1>2, <1>3, <1>4, <1>5, <1>6, <1>7, <1>8, <1>9 DEF WNext, WStep

(* Between the shortest streak and the sum lies the verdict. *)
LEMMA SharedImplies == SharedInv => VerdictIsShared
<1> SUFFICES ASSUME SharedInv, NEW n \in Names, \A s \in Sharing(n) : ~Pending(s)
             PROVE  /\ (\A s \in Sharing(n) : streak[s] >= Threshold) => ~IsHealthy(n)
                    /\ ~cancelled /\ ~IsHealthy(n)
                         => StreakOf("chat", n) + StreakOf("tts", n) >= Threshold
  BY DEF VerdictIsShared
<1>1. Booked(n) = states[n].failures
  BY DEF Booked, Pending
<1>2. /\ states[n].healthy <=> states[n].failures < Threshold
      /\ n \notin probed => states[n].failures = 0
      /\ states[n].failures \in Nat
  BY DEF SharedInv, Judged, WTypeOK
<1>3. PICK s \in Sharing(n) : streak[s] <= states[n].failures
  BY <1>1 DEF SharedInv, CountedTogether
<1>4. ~cancelled => states[n].failures <= StreakOf("chat", n) + StreakOf("tts", n)
  BY <1>1 DEF SharedInv, CountedTogether
<1>5. /\ streak[s] \in Nat /\ Threshold \in Nat \ {0}
      /\ StreakOf("chat", n) \in Nat /\ StreakOf("tts", n) \in Nat
  <2>1. streak[s] \in 0..MaxFailures
    BY DEF SharedInv, WTypeOK, Sharing
  <2>2. StreakOf("chat", n) \in 0..MaxFailures /\ StreakOf("tts", n) \in 0..MaxFailures
    BY StreakOfType DEF SharedInv
  <2> QED BY <2>1, <2>2, WatchdogAssumption DEF Threshold
<1> QED BY <1>2, <1>3, <1>4, <1>5 DEF IsHealthy

(* The verdict about a name is between its services (watchdog.go,           *)
(* checkBackend, whose map has one entry for equal names): degraded once    *)
(* all of them have failed their last fail_threshold probes, and until Stop *)
(* only when their failures in a row add up to it.  No names need differ.   *)
THEOREM SharedVerdict == WSpec => []VerdictIsShared
BY SharedInit, SharedStep, SharedImplies, PTL DEF WSpec

(* For a service that has its name to itself both bounds are its streak:    *)
(* VerdictExact is the case without shared names.                           *)
LEMMA SharedIsExact ==
    ASSUME DistinctNames, WTypeOK, VerdictIsShared
    PROVE  VerdictIsExact
<1> SUFFICES ASSUME NEW s \in Services, ~Pending(s)
             PROVE  /\ streak[s] >= Threshold => ~IsHealthy(NameOf(s))
                    /\ ~cancelled /\ ~IsHealthy(NameOf(s)) => streak[s] >= Threshold
  BY DEF VerdictIsExact, DownIsDegraded, DegradedIsDown
<1> DEFINE n == NameOf(s)
<1>1. n \in Names /\ Sharing(n) = {s}
  BY NameOfService, NamesDistinct DEF Sharing
<1>2. streak[s] \in Nat
  BY DEF WTypeOK
<1>3. StreakOf("chat", n) + StreakOf("tts", n) = streak[s]
  <2>1. CASE s = <<"chat", n>>
    <3>1. <<"tts", n>> \notin Services
      <4> SUFFICES ASSUME <<"tts", n>> \in Services PROVE FALSE
        OBVIOUS
      <4>1. <<"tts", n>> \in Sharing(n)
        BY DEF Sharing
      <4>2. <<"tts", n>> = <<"chat", n>>
        BY <1>1, <2>1, <4>1
      <4> QED BY <4>2
    <3> QED BY <1>2, <2>1, <3>1 DEF StreakOf
  <2>2. CASE s = <<"tts", n>>
    <3>1. <<"chat", n>> \notin Services
      <4> SUFFICES ASSUME <<"chat", n>> \in Services PROVE FALSE
        OBVIOUS
      <4>1. <<"chat", n>> \in Sharing(n)
        BY DEF Sharing
      <4>2. <<"tts", n>> = <<"chat", n>>
        BY <1>1, <2>2, <4>1
      <4> QED BY <4>2
    <3> QED BY <1>2, <2>2, <3>1 DEF StreakOf
  <2> QED BY <2>1, <2>2 DEF Services
<1> QED BY <1>1, <1>3 DEF VerdictIsShared

=============================================================================
