-------------------------- MODULE ReadinessProofs --------------------------
(***************************************************************************)
(* Proofs about the health endpoints beside the watchdog, for any backends *)
(* and any number of checks that run at the same time.                     *)
(***************************************************************************)
EXTENDS Readiness, WatchdogProofs

(* The services a running check is about. *)
Scope(c) == IF hpc[c] = "ready" THEN ChatServices ELSE Services

\* What the handler knows before it has answered.
RunningInv(c) ==
    /\ reply[c] = "none"
    /\ hleft[c] \in SUBSET Scope(c)
    /\ \A w \in was[c] : w[1] \in Scope(c)
    /\ \A s \in Scope(c) : <<s, up[s]>> \in was[c]
    /\ \A s \in Scope(c) :
          s \in hleft[c] \/ <<s, TRUE>> \in was[c] \/ <<s, TRUE>> \in looked[c] \/ bad[c]
    /\ \A k, l \in looked[c] : k = l
    /\ \A l \in looked[c] : l[2] => away[c] \/ <<l[1], FALSE>> \in was[c]
    /\ bad[c] => away[c] \/ \E s \in Services : <<s, FALSE>> \in was[c]
    /\ hpc[c] = "ready" => ~bad[c]

\* What is true of its answer.
AnsweredInv(c) ==
    /\ reply[c] = "ok" => \A s \in ChatServices : <<s, TRUE>> \in was[c]
    /\ reply[c] = "ok" => \A w \in was[c] : <<w[1], TRUE>> \in was[c]
    /\ reply[c] = "unavailable" => away[c] \/ \E s \in Services : <<s, FALSE>> \in was[c]

CheckInv(c) ==
    /\ Running(c) => RunningInv(c)
    /\ ~Running(c) => hleft[c] = {} /\ looked[c] = {}
    /\ hpc[c] = "idle" => reply[c] = "none" /\ ~bad[c] /\ was[c] = {}
    /\ hpc[c] = "answered" => AnsweredInv(c)

RInv == RTypeOK /\ \A c \in Checks : CheckInv(c)

-----------------------------------------------------------------------------
(* The initial state is typed. *)
LEMMA RInitType == RInit => RTypeOK
BY WInitType DEF RInit, RTypeOK

(* A step that leaves the watchdog alone keeps its types. *)
LEMMA WatchdogKept == WTypeOK /\ UNCHANGED wvars => WTypeOK'
BY WTypeStep

(* Every step keeps the types: those of the watchdog and of the services    *)
(* are WatchdogProofs' business, Ready writes the gauge itself.             *)
LEMMA RTypeStep == RTypeOK /\ [RNext]_rvars => RTypeOK'
<1> SUFFICES ASSUME RTypeOK, [RNext]_rvars PROVE RTypeOK'
  OBVIOUS
<1> USE DEF RTypeOK
<1>1. ASSUME NEW s \in Services, ServiceToggles(s) PROVE RTypeOK'
  <2>1. WTypeOK'
    BY <1>1, WTypeStep DEF ServiceToggles, WNext
  <2>2. <<s, up'[s]>> \in Services \X BOOLEAN
    BY <2>1 DEF WTypeOK
  <2> QED BY <1>1, <2>1, <2>2 DEF ServiceToggles
<1>2. CASE Beside(Start) \/ Beside(WStep) \/ Beside(Stop)
  <2>1. WTypeOK'
    BY <1>2, WTypeStep DEF Beside, WNext
  <2> QED BY <1>2, <2>1 DEF Beside, hvars
<1>3. ASSUME NEW c \in Checks, ReadyBegins(c) \/ StatusBegins(c) PROVE RTypeOK'
  <2>1. WTypeOK'
    BY <1>3, WatchdogKept DEF ReadyBegins, StatusBegins, Begins
  <2>2. ASSUME NEW S \in SUBSET Services PROVE {<<s, up[s]>> : s \in S} \in SUBSET (Services \X BOOLEAN)
    BY DEF WTypeOK
  <2>3. ChatServices \in SUBSET Services
    BY DEF ChatServices
  <2>4. CASE ReadyBegins(c)
    BY <2>1, <2>2, <2>3, <2>4 DEF ReadyBegins, Begins
  <2>5. CASE StatusBegins(c)
    BY <2>1, <2>2, <2>5 DEF StatusBegins, Begins
  <2> QED BY <1>3, <2>4, <2>5
<1>4. ASSUME NEW c \in Checks, ClientLeaves(c) PROVE RTypeOK'
  BY <1>4, WatchdogKept DEF ClientLeaves
<1>5. ASSUME NEW c \in Checks, NEW s \in Services, Look(c, s) PROVE RTypeOK'
  <2>1. LookErr(c, s) \in BOOLEAN
    BY DEF LookErr
  <2> QED BY <1>5, <2>1, WatchdogKept DEF Look
<1>6. ASSUME NEW c \in Checks, ReadyUses(c) PROVE RTypeOK'
  <2>1. PICK l \in looked[c] :
           /\ gauge' = [gauge EXCEPT ![NameOf(l[1])] = IF l[2] THEN 0 ELSE 1]
           /\ looked' = [looked EXCEPT ![c] = {}]
           /\ IF l[2]
              THEN /\ reply' = [reply EXCEPT ![c] = "unavailable"]
                   /\ hpc' = [hpc EXCEPT ![c] = "answered"]
                   /\ hleft' = [hleft EXCEPT ![c] = {}]
              ELSE UNCHANGED <<reply, hpc, hleft>>
    BY <1>6 DEF ReadyUses
  <2>2. gauge' \in [Names -> {0, 1, NoSample}]
    BY <2>1 DEF WTypeOK
  <2>3. WTypeOK'
    BY <1>6, <2>2 DEF ReadyUses, WTypeOK
  <2>4. looked' \in [Checks -> SUBSET (Services \X BOOLEAN)]
    BY <2>1
  <2>5. /\ hpc' \in [Checks -> {"idle", "ready", "status", "answered"}]
        /\ hleft' \in [Checks -> SUBSET Services]
        /\ reply' \in [Checks -> {"none", "ok", "unavailable"}]
    BY <2>1
  <2> QED BY <1>6, <2>3, <2>4, <2>5 DEF ReadyUses
<1>7. ASSUME NEW c \in Checks, StatusUses(c) PROVE RTypeOK'
  <2>1. PICK l \in looked[c] : bad' = [bad EXCEPT ![c] = @ \/ l[2]]
    BY <1>7 DEF StatusUses
  <2>2. (bad[c] \/ l[2]) \in BOOLEAN
    OBVIOUS
  <2>3. bad' \in [Checks -> BOOLEAN]
    BY <2>1, <2>2
  <2> QED BY <1>7, <2>3, WatchdogKept DEF StatusUses
<1>8. ASSUME NEW c \in Checks, Answers(c) PROVE RTypeOK'
  BY <1>8, WatchdogKept DEF Answers, Verdict
<1>9. ASSUME NEW c \in Checks, Done(c) PROVE RTypeOK'
  BY <1>9, WatchdogKept DEF Done
<1>10. CASE UNCHANGED rvars
  BY <1>10, WatchdogKept DEF rvars, hvars
<1> QED BY <1>1, <1>2, <1>3, <1>4, <1>5, <1>6, <1>7, <1>8, <1>9, <1>10 DEF RNext, CheckStep

(* The state of the checks and of the watchdog beside them always has its   *)
(* type (health.go and health_status.go).                                   *)
THEOREM ReadinessType == RSpec => []RTypeOK
BY RInitType, RTypeStep, PTL DEF RSpec

-----------------------------------------------------------------------------
(* A check that no variable of which changes, while no service does, keeps  *)
(* its invariant.                                                           *)
LEMMA CheckKept ==
    ASSUME NEW c \in Checks, CheckInv(c),
           UNCHANGED <<up, hpc[c], hleft[c], looked[c], bad[c], away[c], reply[c], was[c]>>
    PROVE  CheckInv(c)'
BY DEF CheckInv, Running, RunningInv, AnsweredInv, Scope

(* A service that changes is entered for every check that asks it.          *)
LEMMA TogglePreserves ==
    ASSUME NEW c \in Checks, NEW s \in Services, RTypeOK, CheckInv(c), ServiceToggles(s)
    PROVE  CheckInv(c)'
<1> USE DEF CheckInv, Running
<1>1. UNCHANGED <<hpc, hleft, looked, bad, away, reply>>
  BY DEF ServiceToggles
<1>2. CASE ~Running(c)
  <2>1. was'[c] = was[c]
    BY <1>2 DEF ServiceToggles
  <2> QED BY <1>1, <1>2, <2>1 DEF AnsweredInv
<1>3. CASE Running(c)
  <2>1. RunningInv(c)
    BY <1>3
  <2>2. was[c] \subseteq was'[c]
    BY DEF ServiceToggles
  <2>3. \A w \in was'[c] : w[1] \in Scope(c)
    <3>1. TAKE w \in was'[c]
    <3>2. CASE w \in was[c]
      BY <2>1, <3>2 DEF RunningInv
    <3>3. CASE w \notin was[c]
      <4>1. s \in Asked(c) /\ w = <<s, up'[s]>>
        BY <3>3 DEF ServiceToggles
      <4>2. PICK v \in was[c] : v[1] = s
        BY <4>1 DEF Asked
      <4> QED BY <2>1, <4>1, <4>2 DEF RunningInv
    <3> QED BY <3>2, <3>3
  <2>4. \A t \in Scope(c) : <<t, up'[t]>> \in was'[c]
    <3>1. TAKE t \in Scope(c)
    <3>2. t \in Services
      BY DEF Scope, ChatServices
    <3>3. <<t, up[t]>> \in was[c]
      BY <2>1 DEF RunningInv
    <3>4. CASE t = s
      <4>1. s \in Asked(c)
        BY <3>3, <3>4 DEF Asked
      <4> QED BY <1>3, <3>4, <4>1 DEF ServiceToggles
    <3>5. CASE t # s
      <4>1. up'[t] = up[t]
        BY <3>2, <3>5 DEF ServiceToggles, Toggle, RTypeOK, WTypeOK
      <4> QED BY <2>2, <3>3, <4>1
    <3> QED BY <3>4, <3>5
  <2>5. Scope(c)' = Scope(c)
    BY <1>1 DEF Scope
  <2>6. RunningInv(c)'
    BY <1>1, <2>1, <2>2, <2>3, <2>4, <2>5 DEF RunningInv
  <2> QED BY <1>1, <1>3, <2>6
<1> QED BY <1>2, <1>3

(* A check begins with every service it is about still to be asked.         *)
LEMMA BeginsPreserves ==
    ASSUME NEW c \in Checks, RTypeOK, CheckInv(c), ReadyBegins(c) \/ StatusBegins(c)
    PROVE  CheckInv(c)'
<1> DEFINE S == Scope(c)'
<1>1. /\ hpc[c] = "idle" /\ hpc'[c] \in {"ready", "status"}
      /\ hleft'[c] = S /\ was'[c] = {<<s, up[s]>> : s \in S}
      /\ UNCHANGED <<up, looked, bad, away, reply>>
  BY DEF ReadyBegins, StatusBegins, Begins, Scope, RTypeOK, wvars
<1>2. looked[c] = {} /\ ~bad[c] /\ reply[c] = "none"
  BY <1>1 DEF CheckInv, Running
<1>3. RunningInv(c)'
  <2>1. \A w \in was'[c] : w[1] \in S
    BY <1>1
  <2>2. \A s \in S : <<s, up'[s]>> \in was'[c]
    BY <1>1
  <2> HIDE DEF S
  <2> QED BY <1>1, <1>2, <2>1, <2>2 DEF RunningInv, S
<1> QED BY <1>1, <1>3 DEF CheckInv, Running

(* A client that leaves excuses any answer from now on.                     *)
LEMMA LeavesPreserves ==
    ASSUME NEW c \in Checks, RTypeOK, CheckInv(c), ClientLeaves(c)
    PROVE  CheckInv(c)'
<1>1. away'[c] = TRUE /\ UNCHANGED <<up, hpc, hleft, looked, bad, reply, was>>
  BY DEF ClientLeaves, RTypeOK, wvars
<1> QED BY <1>1 DEF CheckInv, Running, RunningInv, AnsweredInv, Scope, ClientLeaves

(* A health call returns what its service is at that moment.                *)
LEMMA LookPreserves ==
    ASSUME NEW c \in Checks, NEW s \in Services, RTypeOK, CheckInv(c), Look(c, s)
    PROVE  CheckInv(c)'
<1>1. /\ Running(c) /\ s \in hleft[c] /\ looked[c] = {}
      /\ hleft'[c] = hleft[c] \ {s} /\ looked'[c] = {<<s, LookErr(c, s)>>}
      /\ UNCHANGED <<up, hpc, bad, away, reply, was>>
  BY DEF Look, RTypeOK, wvars
<1>2. RunningInv(c) /\ s \in Scope(c) /\ up[s] \in BOOLEAN /\ away[c] \in BOOLEAN
  BY <1>1 DEF CheckInv, RunningInv, RTypeOK, WTypeOK
<1>3. <<s, up[s]>> \in was[c]
  BY <1>2 DEF RunningInv
<1>4. \A t \in Scope(c) :
         t \in hleft'[c] \/ <<t, TRUE>> \in was[c] \/ <<t, TRUE>> \in looked'[c] \/ bad[c]
  <2>1. TAKE t \in Scope(c)
  <2>2. t \in hleft[c] \/ <<t, TRUE>> \in was[c] \/ bad[c]
    BY <1>1, <1>2 DEF RunningInv
  <2>3. t = s => <<t, TRUE>> \in was[c] \/ <<t, TRUE>> \in looked'[c]
    <3>1. CASE LookErr(c, s)
      BY <1>1, <3>1 DEF LookErr
    <3>2. CASE ~LookErr(c, s)
      BY <1>2, <1>3, <3>2 DEF LookErr
    <3> QED BY <3>1, <3>2
  <2> QED BY <1>1, <2>2, <2>3
<1>5. \A k, l \in looked'[c] : k = l
  BY <1>1
<1>6. \A l \in looked'[c] : l[2] => away[c] \/ <<l[1], FALSE>> \in was[c]
  <2>1. LookErr(c, s) => away[c] \/ <<s, FALSE>> \in was[c]
    BY <1>2, <1>3 DEF LookErr
  <2>2. \A l \in looked'[c] : l[1] = s /\ l[2] = LookErr(c, s)
    BY <1>1
  <2> QED BY <2>1, <2>2
<1>7. Scope(c)' = Scope(c)
  BY <1>1 DEF Scope
<1>8. RunningInv(c)'
  BY <1>1, <1>2, <1>4, <1>5, <1>6, <1>7 DEF RunningInv
<1> QED BY <1>1, <1>8 DEF CheckInv, Running

(* Ready's 503 rests on a failed look, and it goes on only from a good one. *)
LEMMA ReadyUsesPreserves ==
    ASSUME NEW c \in Checks, RTypeOK, CheckInv(c), ReadyUses(c)
    PROVE  CheckInv(c)'
<1>1. PICK l \in looked[c] :
         /\ looked'[c] = {}
         /\ IF l[2]
            THEN reply'[c] = "unavailable" /\ hpc'[c] = "answered" /\ hleft'[c] = {}
            ELSE UNCHANGED <<reply, hpc, hleft>>
  BY DEF ReadyUses, RTypeOK
<1>2. hpc[c] = "ready" /\ UNCHANGED <<up, bad, away, was>>
  BY DEF ReadyUses
<1>3. RunningInv(c) /\ l \in Services \X BOOLEAN
  BY <1>2 DEF CheckInv, Running, RTypeOK
<1>4. CASE l[2]
  <2>1. away[c] \/ <<l[1], FALSE>> \in was[c]
    BY <1>3, <1>4 DEF RunningInv
  <2>2. l[1] \in Services
    BY <1>3
  <2> QED BY <1>1, <1>2, <1>4, <2>1, <2>2 DEF CheckInv, Running, AnsweredInv
<1>5. CASE ~l[2]
  <2>1. \A s \in Scope(c) : <<s, TRUE>> \notin looked[c]
    <3>1. \A s \in Scope(c) : <<s, TRUE>> # l
      BY <1>5, PairSecond
    <3> QED BY <1>3, <3>1 DEF RunningInv
  <2> QED BY <1>1, <1>2, <1>3, <1>5, <2>1 DEF CheckInv, Running, RunningInv, Scope
<1> QED BY <1>4, <1>5

(* HealthStatus remembers a failed look. *)
LEMMA StatusUsesPreserves ==
    ASSUME NEW c \in Checks, RTypeOK, CheckInv(c), StatusUses(c)
    PROVE  CheckInv(c)'
<1>1. PICK l \in looked[c] : bad'[c] = (bad[c] \/ l[2])
  BY DEF StatusUses, RTypeOK
<1>2. hpc[c] = "status" /\ looked'[c] = {} /\ UNCHANGED <<up, hpc, hleft, away, reply, was>>
  BY DEF StatusUses, RTypeOK, wvars
<1>3. RunningInv(c) /\ l \in Services \X BOOLEAN
  BY <1>2 DEF CheckInv, Running, RTypeOK
<1>4. bad'[c] => away[c] \/ \E s \in Services : <<s, FALSE>> \in was[c]
  BY <1>1, <1>3 DEF RunningInv
<1>5. \A s \in Scope(c) : s \in hleft[c] \/ <<s, TRUE>> \in was[c] \/ bad'[c]
  <2>1. TAKE s \in Scope(c)
  <2>2. CASE <<s, TRUE>> \in looked[c]
    <3>1. l = <<s, TRUE>>
      BY <1>3, <2>2 DEF RunningInv
    <3> QED BY <1>1, <3>1
  <2>3. CASE <<s, TRUE>> \notin looked[c]
    BY <1>1, <1>3, <2>3 DEF RunningInv
  <2> QED BY <2>2, <2>3
<1> QED BY <1>2, <1>3, <1>4, <1>5 DEF CheckInv, Running, RunningInv, Scope

(* The answer at the end of the loop follows what the looks found. *)
LEMMA AnswersPreserves ==
    ASSUME NEW c \in Checks, RTypeOK, CheckInv(c), Answers(c)
    PROVE  CheckInv(c)'
<1>1. /\ Running(c) /\ hleft[c] = {} /\ looked[c] = {}
      /\ reply'[c] = Verdict(c) /\ hpc'[c] = "answered"
      /\ UNCHANGED <<up, hleft, looked, bad, away, was>>
  BY DEF Answers, RTypeOK, wvars
<1>2. RunningInv(c)
  BY <1>1 DEF CheckInv
<1>3. ChatServices \subseteq Scope(c)
  BY DEF Scope, ChatServices
<1>4. AnsweredInv(c)'
  BY <1>1, <1>2, <1>3 DEF AnsweredInv, RunningInv, Verdict
<1> QED BY <1>1, <1>4 DEF CheckInv, Running

(* A handler that returns leaves nothing behind. *)
LEMMA DonePreserves ==
    ASSUME NEW c \in Checks, RTypeOK, CheckInv(c), Done(c)
    PROVE  CheckInv(c)'
BY DEF Done, CheckInv, Running, RTypeOK

(* Initially no check runs. *)
LEMMA RInvInit == RInit => RInv
BY RInitType DEF RInit, RInv, CheckInv, Running

(* A check's own steps touch no other check and no service. *)
LEMMA OthersKept ==
    ASSUME NEW c \in Checks, RTypeOK, NEW d \in Checks, d # c, CheckInv(d),
           ReadyBegins(c) \/ StatusBegins(c) \/ ClientLeaves(c) \/ CheckStep(c)
    PROVE  CheckInv(d)'
<1>1. UNCHANGED <<up, hpc[d], hleft[d], looked[d], bad[d], away[d], reply[d], was[d]>>
  BY DEF ReadyBegins, StatusBegins, Begins, ClientLeaves, CheckStep, Look, ReadyUses, StatusUses,
         Answers, Done, RTypeOK, wvars
<1> QED BY <1>1, CheckKept

(* Every step keeps the invariant. *)
LEMMA RInvStep == RInv /\ [RNext]_rvars => RInv'
<1> SUFFICES ASSUME RInv, [RNext]_rvars PROVE RInv'
  OBVIOUS
<1>0. RTypeOK' /\ RTypeOK /\ \A c \in Checks : CheckInv(c)
  BY RTypeStep DEF RInv
<1> SUFFICES ASSUME NEW d \in Checks PROVE CheckInv(d)'
  BY <1>0 DEF RInv
<1>1. ASSUME NEW s \in Services, ServiceToggles(s) PROVE CheckInv(d)'
  BY <1>0, <1>1, TogglePreserves
<1>2. CASE Beside(Start) \/ Beside(WStep) \/ Beside(Stop)
  <2>1. UNCHANGED <<up, hvars>>
    BY <1>2 DEF Beside, Start, WStep, Stop, Answer, Apply, ProbeDone, LoopTick, LoopDone
  <2> QED BY <1>0, <2>1, CheckKept DEF hvars
<1>3. ASSUME NEW c \in Checks, ReadyBegins(c) \/ StatusBegins(c) PROVE CheckInv(d)'
  BY <1>0, <1>3, BeginsPreserves, OthersKept
<1>4. ASSUME NEW c \in Checks, ClientLeaves(c) PROVE CheckInv(d)'
  BY <1>0, <1>4, LeavesPreserves, OthersKept
<1>5. ASSUME NEW c \in Checks, CheckStep(c) PROVE CheckInv(d)'
  <2>1. CASE d # c
    BY <1>0, <1>5, <2>1, OthersKept
  <2>2. CASE d = c
    <3>1. ASSUME NEW s \in Services, Look(c, s) PROVE CheckInv(c)'
      BY <1>0, <3>1, LookPreserves
    <3> QED BY <1>0, <1>5, <2>2, <3>1, ReadyUsesPreserves, StatusUsesPreserves,
               AnswersPreserves, DonePreserves DEF CheckStep
  <2> QED BY <2>1, <2>2
<1>6. CASE UNCHANGED rvars
  <2>1. UNCHANGED <<up, hvars>>
    BY <1>6 DEF rvars, wvars
  <2> QED BY <1>0, <2>1, CheckKept DEF hvars
<1> QED BY <1>1, <1>2, <1>3, <1>4, <1>5, <1>6 DEF RNext

(* The invariant says what the answers mean. *)
LEMMA RInvAnswers == RInv => AnswersJustified
<1> SUFFICES ASSUME RInv, NEW c \in Checks
             PROVE  /\ reply[c] = "ok" => \A s \in ChatServices : <<s, TRUE>> \in was[c]
                    /\ reply[c] = "ok" => \A s \in Asked(c) : <<s, TRUE>> \in was[c]
                    /\ reply[c] = "unavailable" => away[c] \/ \E s \in Asked(c) : <<s, FALSE>> \in was[c]
  BY DEF AnswersJustified
<1>1. hpc[c] # "answered" => reply[c] = "none"
  BY DEF RInv, RTypeOK, CheckInv, Running, RunningInv
<1>2. hpc[c] = "answered" => AnsweredInv(c)
  BY DEF RInv, CheckInv
<1>3. \A s \in Services : <<s, FALSE>> \in was[c] => s \in Asked(c)
  BY DEF Asked
<1> QED BY <1>1, <1>2, <1>3 DEF AnsweredInv, Asked

(* A 200 of a health endpoint means that each of its backends was up, a 503 *)
(* that one was down or the client had left, at some moment of the check,   *)
(* for any number of backends and checks (health.go and health_status.go).  *)
THEOREM AnswersAreJustified == RSpec => []AnswersJustified
<1>1. RInv => AnswersJustified
  BY RInvAnswers
<1> QED BY <1>1, RInvInit, RInvStep, PTL DEF RSpec

-----------------------------------------------------------------------------
(* The verdict beside the checks. *)

(* A check of a client touches nothing of the watchdog but the gauge.       *)
LEMMA OnlyTheGauge ==
    ASSUME NEW c \in Checks, ReadyBegins(c) \/ StatusBegins(c) \/ ClientLeaves(c) \/ CheckStep(c)
    PROVE  UNCHANGED <<up, states, probed, wpc, todo, answer, cancelled, streak>>
BY DEF ReadyBegins, StatusBegins, Begins, ClientLeaves, CheckStep, Look, ReadyUses, StatusUses,
       Answers, Done, wvars

(* What the verdict rests on does not mention the gauge. *)
LEMMA GaugeBlind ==
    ASSUME SharedInv, WTypeOK', UNCHANGED <<states, probed, answer, cancelled, streak>>
    PROVE  SharedInv'
<1>1. Judged' /\ OneAnswer'
  BY DEF SharedInv, Judged, OneAnswer
<1>2. \A n : /\ Sharing(n)' = Sharing(n) /\ Booked(n)' = Booked(n)
             /\ StreakOf("chat", n)' = StreakOf("chat", n)
             /\ StreakOf("tts", n)' = StreakOf("tts", n)
  BY DEF Sharing, Booked, StreakOf
<1>3. CountedTogether'
  BY <1>2 DEF SharedInv, CountedTogether
<1> QED BY <1>1, <1>3 DEF SharedInv

(* Every step beside the watchdog keeps what its verdict rests on.          *)
LEMMA VerdictBeside == RTypeOK /\ SharedInv /\ [RNext]_rvars => SharedInv'
<1> SUFFICES ASSUME RTypeOK, SharedInv, [RNext]_rvars PROVE SharedInv'
  OBVIOUS
<1>0. WTypeOK'
  BY RTypeStep DEF RTypeOK
<1>1. ASSUME NEW s \in Services, ServiceToggles(s) PROVE SharedInv'
  BY <1>1, SharedStep DEF ServiceToggles, WNext
<1>2. CASE Beside(Start) \/ Beside(WStep) \/ Beside(Stop)
  BY <1>2, SharedStep DEF Beside, WNext
<1>3. ASSUME NEW c \in Checks, ReadyBegins(c) \/ StatusBegins(c) \/ ClientLeaves(c) \/ CheckStep(c)
      PROVE  SharedInv'
  BY <1>0, <1>3, OnlyTheGauge, GaugeBlind
<1>4. CASE UNCHANGED rvars
  BY <1>0, <1>4, GaugeBlind DEF rvars, wvars
<1> QED BY <1>1, <1>2, <1>3, <1>4 DEF RNext

(* Clients that ask for the readiness, and leave in the middle of it, never *)
(* move a verdict, although their checks write the same gauge (health.go,   *)
(* Ready; watchdog.go, checkBackend).                                       *)
THEOREM ChecksLeaveVerdicts == RSpec => []VerdictIsShared
<1>1. RInit => SharedInv
  BY SharedInit DEF RInit
<1> QED BY <1>1, RInitType, RTypeStep, VerdictBeside, SharedImplies, PTL DEF RSpec

=============================================================================
