--------------------------- MODULE UpstreamProofs ---------------------------
(***************************************************************************)
(* Proofs about the upstream side.  First a call of a backend adapter, for *)
(* any set of status lines: what the gateway says of the call is what      *)
(* happened to it.  Then the Kokoro server behind the watchdog, for any    *)
(* backends beside it and any number of calls that are given up.           *)
(***************************************************************************)
EXTENDS Upstream, Kokoro, WatchdogProofs

Running == {"connecting", "waiting", "reply", "error"}
Results == {"none", "ok", "timeout", "unavailable", "overloaded", "failed"}

\* What the history of a call says at each of its stages.
StageOK ==
    /\ pc \in {"idle", "connecting", "waiting"} => head = NoStatus
    /\ pc = "reply" => head = 200
    /\ pc = "error" => head \in Statuses \ {200}
    /\ pc \in {"idle", "reply"} => text = {}
    /\ pc # "done" => ~fired /\ ~cut /\ result = "none"

UInv == UTypeOK /\ StageOK /\ OkIsWhole /\ ClassIsTrue

(* A class, or failed, is never a success.                                  *)
LEMMA OutcomeType == \A e : Outcome(e) \in {"timeout", "unavailable", "overloaded", "failed"}
BY DEF Outcome, FromBackendError

(* What stays of an error that has the upstream's words as well.            *)
LEMMA QuotingFields ==
    ASSUME NEW e \in [deadline : BOOLEAN, netop : BOOLEAN, timeout : BOOLEAN,
                      status : {NoStatus}, text : SUBSET Marks]
    PROVE  /\ Quoting(e).deadline = e.deadline /\ Quoting(e).netop = e.netop
           /\ Quoting(e).timeout = e.timeout /\ Quoting(e).status = NoStatus
           /\ Quoting(e).text = e.text \cup text
BY DEF Quoting

(* The errors the transport and the timers make.                            *)
LEMMA ErrorFields ==
    /\ ~Plain.deadline /\ Plain.text = {}
    /\ ~ConnErr.deadline /\ ConnErr.text = {"connection"}
    /\ ~HandshakeErr.deadline /\ HandshakeErr.text = {}
    /\ \A p : ~KernelErr(p).deadline /\ KernelErr(p).text \in {{}, {"connection"}}
    /\ DialErr.deadline
    /\ \A p : TimerErr(p).deadline
    /\ {Plain, ConnErr, HandshakeErr, DialErr}
         \cup {KernelErr(p) : p \in {"connecting", "waiting", "reply", "error"}}
         \cup {TimerErr(p) : p \in {"connecting", "waiting", "reply", "error"}}
       \subseteq [deadline : BOOLEAN, netop : BOOLEAN, timeout : BOOLEAN,
                  status : {NoStatus}, text : SUBSET Marks]
<1> DEFINE Errors == [deadline : BOOLEAN, netop : BOOLEAN, timeout : BOOLEAN,
                      status : {NoStatus}, text : SUBSET Marks]
<1>1. /\ Plain = [deadline |-> FALSE, netop |-> FALSE, timeout |-> FALSE, status |-> NoStatus,
                  text |-> {}]
      /\ Plain \in Errors
  BY DEF Plain
<1>2. /\ {"timeout"} \in SUBSET Marks /\ {"connection"} \in SUBSET Marks
      /\ {"timeout", "connection"} \in SUBSET Marks
  BY DEF Marks
<1>3. \A p : Dialling(p) \in {{}, {"connection"}}
  BY DEF Dialling
<1>4. \A p : {"timeout"} \cup Dialling(p) \in SUBSET Marks
  BY <1>2, <1>3
<1>5. ~ConnErr.deadline /\ ConnErr.text = {"connection"} /\ ConnErr \in Errors
  BY <1>1, <1>2 DEF ConnErr
<1>6. ~HandshakeErr.deadline /\ HandshakeErr.text = {} /\ HandshakeErr \in Errors
  BY <1>1 DEF HandshakeErr
<1>7. \A p : /\ ~KernelErr(p).deadline /\ KernelErr(p).text \in {{}, {"connection"}}
             /\ KernelErr(p) \in Errors
  BY <1>1, <1>2, <1>3 DEF KernelErr
<1>8. DialErr.deadline /\ DialErr \in Errors
  BY <1>1, <1>2 DEF DialErr
<1>9. \A p : TimerErr(p).deadline /\ TimerErr(p) \in Errors
  BY <1>1, <1>4 DEF TimerErr
<1> HIDE DEF Errors
<1>10. ~Plain.deadline /\ Plain.text = {}
  BY <1>1
<1>11. {Plain, ConnErr, HandshakeErr, DialErr}
         \cup {KernelErr(p) : p \in {"connecting", "waiting", "reply", "error"}}
         \cup {TimerErr(p) : p \in {"connecting", "waiting", "reply", "error"}}
       \subseteq Errors
  BY <1>1, <1>5, <1>6, <1>7, <1>8, <1>9
<1> QED BY <1>5, <1>6, <1>7, <1>8, <1>9, <1>10, <1>11 DEF Errors

(* A timer of the gateway gives its class, whatever else the error says.    *)
LEMMA ClassOfTimers ==
    /\ FromBackendError(Quoting(DialErr)) = "timeout"
    /\ \A p \in {"connecting", "waiting", "reply", "error"} :
         FromBackendError(Quoting(TimerErr(p))) = "timeout"
<1>1. Quoting(DialErr).deadline
  BY ErrorFields, QuotingFields
<1>2. \A p \in {"connecting", "waiting", "reply", "error"} : Quoting(TimerErr(p)).deadline
  BY ErrorFields, QuotingFields
<1> QED BY <1>1, <1>2 DEF FromBackendError, IsClientTimeout

(* Any other error of the transport is unavailable, unless the upstream's   *)
(* own words say more.                                                      *)
LEMMA ClassOfBreaks ==
    ASSUME NEW p \in {"connecting", "waiting", "reply", "error"}, NEW e \in Breaks(p) \cup {Plain}
    PROVE  LET c == FromBackendError(Quoting(e)) IN
           /\ c = "timeout" => "timeout" \in text
           /\ c = "overloaded" => "overload" \in text
<1>1. /\ e \in [deadline : BOOLEAN, netop : BOOLEAN, timeout : BOOLEAN,
                status : {NoStatus}, text : SUBSET Marks]
      /\ ~e.deadline /\ e.text \in {{}, {"connection"}}
  BY ErrorFields DEF Breaks
<1>2. /\ ~Quoting(e).deadline /\ Quoting(e).status = NoStatus
      /\ Quoting(e).text = e.text \cup text
  BY <1>1, QuotingFields
<1>3. /\ "timeout" \in Quoting(e).text => "timeout" \in text
      /\ "overload" \in Quoting(e).text => "overload" \in text
  BY <1>1, <1>2
<1> QED BY <1>2, <1>3 DEF FromBackendError, IsClientTimeout, NoStatus

(* An error that quotes a status and the upstream's words has their class.  *)
LEMMA ClassOfStatus ==
    ASSUME NEW s, NEW marks
    PROVE  LET c == FromBackendError(StatusErr(s, marks)) IN
           /\ c = "timeout" => s = 504 \/ "timeout" \in marks
           /\ c = "overloaded" => s \in {429, 502, 503} \/ "overload" \in marks
<1>1. LET e == StatusErr(s, marks) IN ~e.deadline /\ e.status = s /\ e.text = marks
  BY DEF StatusErr, Plain
<1> QED BY <1>1 DEF FromBackendError, IsClientTimeout

(* No call has begun. *)
LEMMA UInvInit == UInit => UInv
BY DEF UInit, UInv, UTypeOK, StageOK, OkIsWhole, ClassIsTrue, TimeoutIsTimeout,
       OverloadIsOverload, TimedOut, Ops, HealthOps, NoStatus, Marks

(* A call that ends with a result that is true of it.                       *)
LEMMA EndsTrue ==
    ASSUME UInv, NEW r \in Results \ {"none"}, Ends(r),
           fired' \in BOOLEAN, cut' \in BOOLEAN,
           head' \in Statuses \cup {NoStatus}, text' \in SUBSET Marks,
           r = "ok" => head' = 200 /\ (cut' => op = "speech" /\ ~framed),
           fired' /\ head' \in {NoStatus, 200} => r \in {"timeout", "failed"},
           r = "timeout" => \/ fired' /\ head' \in {NoStatus, 200}
                            \/ head' = 504 \/ "timeout" \in text',
           r = "overloaded" => head' \in {429, 502, 503} \/ "overload" \in text'
    PROVE  UInv'
<1>1. pc' = "done" /\ result' = r /\ UNCHANGED <<limit, op, caller, framed>>
  BY DEF Ends
<1>2. UTypeOK'
  BY <1>1 DEF UInv, UTypeOK, Results
<1>3. StageOK'
  BY <1>1 DEF StageOK
<1>4. OkIsWhole' /\ ClassIsTrue'
  BY <1>1 DEF OkIsWhole, ClassIsTrue, TimeoutIsTimeout, OverloadIsOverload, TimedOut
<1> QED BY <1>2, <1>3, <1>4 DEF UInv

(* A step within a call, or between two calls, says nothing yet.            *)
LEMMA StillRunning ==
    ASSUME UTypeOK', StageOK', pc' # "done" PROVE UInv'
BY DEF UInv, StageOK, OkIsWhole, ClassIsTrue, TimeoutIsTimeout, OverloadIsOverload, TimedOut

(* A transport error, a timer or a departure ends the call with an error.   *)
LEMMA CutTrue ==
    ASSUME UInv, pc \in Running, NEW e, CutShort(Outcome(e)), fired' \in BOOLEAN,
           LET c == FromBackendError(e) IN
             /\ fired' /\ head \in {NoStatus, 200} => c = "timeout"
             /\ c = "timeout" => \/ fired' /\ head \in {NoStatus, 200}
                                 \/ head = 504 \/ "timeout" \in text
             /\ c = "overloaded" => head \in {429, 502, 503} \/ "overload" \in text
    PROVE  UInv'
<1>1. Ends(Outcome(e)) /\ cut' = TRUE /\ UNCHANGED <<head, text>>
  BY DEF CutShort
<1>2. head \in Statuses \cup {NoStatus} /\ text \in SUBSET Marks
  BY DEF UInv, UTypeOK
<1>3. Outcome(e) \in Results \ {"none", "ok"} /\ Outcome(e) \in {"failed", FromBackendError(e)}
  BY OutcomeType DEF Results, Outcome
<1> QED BY <1>1, <1>2, <1>3, EndsTrue

(* Every step keeps the promises of a call. *)
LEMMA UInvStep == UInv /\ [UNext]_uvars => UInv'
<1> SUFFICES ASSUME UInv, [UNext]_uvars PROVE UInv'
  OBVIOUS
<1>0. UTypeOK /\ StageOK
  BY DEF UInv
<1>s. NoStatus \notin Statuses /\ NoStatus # 200
  BY UpstreamAssumption DEF NoStatus
<1>x. ASSUME pc = "error"
      PROVE  /\ head \in Statuses \ {200}
             /\ LET c == FromBackendError(StatusErr(head, text)) IN
                  /\ c = "timeout" => head = 504 \/ "timeout" \in text
                  /\ c = "overloaded" => head \in {429, 502, 503} \/ "overload" \in text
  BY <1>0, <1>x, ClassOfStatus DEF StageOK
<1>1. ASSUME NEW o \in Ops, Begin(o) PROVE UInv'
  <2>1. pc = "idle" /\ pc' = "connecting" /\ op' = o /\ caller' \in {"watchdog", "request"}
        /\ UNCHANGED <<limit, head, text, framed, fired, cut, result>>
    BY <1>1 DEF Begin
  <2>2. UTypeOK' /\ StageOK'
    BY <1>0, <2>1 DEF UTypeOK, StageOK
  <2> QED BY <2>1, <2>2, StillRunning
<1>2. CASE Health \/ TTSHealth \/ ChatCompletion \/ ListModels \/ CreateEmbedding \/ Synthesize \/ Voices
  BY <1>1, <1>2 DEF Health, TTSHealth, ChatCompletion, ListModels, CreateEmbedding, Synthesize,
                   Voices, Ops
<1>3. CASE Connected
  <2>1. UTypeOK' /\ StageOK' /\ pc' # "done"
    BY <1>0, <1>3 DEF Connected, UTypeOK, StageOK
  <2> QED BY <2>1, StillRunning
<1>4. CASE TransportFails
  <2>1. PICK e \in Breaks(pc) : CutShort(Outcome(Quoting(e)))
    BY <1>4 DEF TransportFails
  <2>2. pc \in {"connecting", "waiting", "reply"} /\ fired' = FALSE
    BY <1>0, <1>4 DEF TransportFails, StageOK, UTypeOK
  <2>3. LET c == FromBackendError(Quoting(e)) IN
          /\ c = "timeout" => "timeout" \in text
          /\ c = "overloaded" => "overload" \in text
    BY <2>2, ClassOfBreaks
  <2> QED BY <2>1, <2>2, <2>3, CutTrue DEF Running
<1>5. CASE DialExpires
  <2>1. pc = "connecting" /\ fired' = TRUE /\ CutShort(Outcome(Quoting(DialErr)))
    BY <1>5 DEF DialExpires
  <2>2. head = NoStatus
    BY <1>0, <2>1 DEF StageOK
  <2> QED BY <2>1, <2>2, ClassOfTimers, CutTrue DEF Running
<1>6. ASSUME NEW s \in Statuses \cup {NoStatus}, NEW marks \in SUBSET Marks, Malformed(s, marks)
      PROVE  UInv'
  <2>1. /\ head' = s /\ text' = text \cup marks /\ cut' = TRUE /\ fired' = FALSE
        /\ Ends(Outcome(StatusErr(s, text')))
    BY <1>0, <1>6 DEF Malformed, StageOK, UTypeOK
  <2>2. text' \in SUBSET Marks
    BY <1>0, <2>1 DEF UTypeOK
  <2> DEFINE r == Outcome(StatusErr(s, text'))
  <2>3. r \in Results \ {"none", "ok"} /\ r \in {"failed", FromBackendError(StatusErr(s, text'))}
    BY OutcomeType DEF Results, Outcome
  <2>4. /\ r = "timeout" => s = 504 \/ "timeout" \in text'
        /\ r = "overloaded" => s \in {429, 502, 503} \/ "overload" \in text'
    BY <2>3, ClassOfStatus
  <2> HIDE DEF r
  <2>5. Ends(r)
    BY <2>1 DEF r
  <2> QED BY <2>1, <2>2, <2>3, <2>4, <2>5, EndsTrue
<1>7. ASSUME NEW marks \in SUBSET Marks, Redirected(marks) PROVE UInv'
  <2>1. UTypeOK' /\ StageOK' /\ pc' # "done"
    BY <1>0, <1>7 DEF Redirected, UTypeOK, StageOK
  <2> QED BY <2>1, StillRunning
<1>8. ASSUME NEW s \in Statuses, StatusArrives(s) PROVE UInv'
  <2>1. pc = "waiting" /\ head' = s /\ text' = {} /\ UNCHANGED <<limit, op, caller, fired, cut>>
    BY <1>8 DEF StatusArrives
  <2>2. ~fired /\ ~cut /\ result = "none"
    BY <1>0, <2>1 DEF StageOK
  <2>3. CASE s = 200 /\ op \in HealthOps
    <3>1. pc' = "done" /\ result' = "ok" /\ framed' = framed
      BY <1>8, <2>3 DEF StatusArrives
    <3>2. UTypeOK'
      BY <1>0, <2>1, <3>1 DEF UTypeOK
    <3> QED BY <2>1, <2>2, <2>3, <3>1, <3>2 DEF UInv, StageOK, OkIsWhole, ClassIsTrue,
                                 TimeoutIsTimeout, OverloadIsOverload, TimedOut
  <2>4. CASE s = 200 /\ op \notin HealthOps
    <3>1. pc' = "reply" /\ framed' \in BOOLEAN /\ result' = result
      BY <1>8, <2>4 DEF StatusArrives
    <3>2. UTypeOK' /\ StageOK'
      BY <1>0, <2>1, <2>2, <2>4, <3>1 DEF UTypeOK, StageOK
    <3> QED BY <3>1, <3>2, StillRunning
  <2>5. CASE s # 200
    <3>1. pc' = "error" /\ UNCHANGED <<framed, result>>
      BY <1>8, <2>5 DEF StatusArrives
    <3>2. UTypeOK' /\ StageOK'
      BY <1>0, <2>1, <2>2, <2>5, <3>1 DEF UTypeOK, StageOK
    <3> QED BY <3>1, <3>2, StillRunning
  <2> QED BY <2>3, <2>4, <2>5
<1>9. ASSUME NEW m \in Marks, ErrorText(m) PROVE UInv'
  <2>1. UTypeOK' /\ StageOK' /\ pc' # "done"
    BY <1>0, <1>9 DEF ErrorText, UTypeOK, StageOK
  <2> QED BY <2>1, StillRunning
<1>10. CASE ErrorRead
  <2>1. /\ pc = "error" /\ Ends(Outcome(StatusErr(head, text)))
        /\ ~fired' /\ fired' \in BOOLEAN /\ ~cut' /\ cut' \in BOOLEAN /\ UNCHANGED <<head, text>>
    BY <1>0, <1>10 DEF ErrorRead, StageOK, UTypeOK
  <2> DEFINE r == Outcome(StatusErr(head, text))
  <2>2. r \in Results \ {"none", "ok"} /\ r \in {"failed", FromBackendError(StatusErr(head, text))}
    BY OutcomeType DEF Results, Outcome
  <2>3. /\ r = "timeout" => head = 504 \/ "timeout" \in text
        /\ r = "overloaded" => head \in {429, 502, 503} \/ "overload" \in text
    BY <1>x, <2>1, <2>2
  <2>4. head \in Statuses \cup {NoStatus} /\ text \in SUBSET Marks
    BY <1>0 DEF UTypeOK
  <2> HIDE DEF r
  <2>5. Ends(r)
    BY <2>1 DEF r
  <2> QED BY <2>1, <2>2, <2>3, <2>4, <2>5, EndsTrue
<1>11. CASE ReplyRead
  <2>1. /\ Ends("ok") /\ fired' = FALSE /\ cut' = FALSE /\ head = 200
        /\ UNCHANGED <<head, text>>
    BY <1>0, <1>11 DEF ReplyRead, StageOK, UTypeOK
  <2>2. head \in Statuses \cup {NoStatus} /\ text \in SUBSET Marks
    BY <1>0 DEF UTypeOK
  <2> QED BY <2>1, <2>2, EndsTrue DEF Results
<1>12. CASE ClosedEarly
  <2>1. pc = "reply" /\ head = 200 /\ fired' = FALSE /\ text = {}
    BY <1>0, <1>12 DEF ClosedEarly, StageOK, UTypeOK
  <2>2. CASE op = "speech" /\ ~framed
    <3>1. Ends("ok") /\ cut' = TRUE /\ UNCHANGED <<head, text>>
      BY <1>12, <2>2 DEF ClosedEarly, CutShort
    <3>2. head \in Statuses \cup {NoStatus} /\ text \in SUBSET Marks
      BY <1>0 DEF UTypeOK
    <3> QED BY <2>1, <2>2, <3>1, <3>2, EndsTrue DEF Results
  <2>3. CASE ~(op = "speech" /\ ~framed)
    <3>1. CutShort(Outcome(Plain))
      BY <1>12, <2>3 DEF ClosedEarly
    <3>2. FromBackendError(Plain) = "unavailable"
      BY DEF Plain, FromBackendError, IsClientTimeout, IsConnectionUnavailable, NoStatus
    <3> QED BY <2>1, <3>1, <3>2, CutTrue DEF Running
  <2> QED BY <2>2, <2>3
<1>13. CASE Expires
  <2>0. pc \in Running /\ fired' = TRUE /\ CutShort(Interrupted(TimerErr(pc)))
    BY <1>13 DEF Expires, Running
  <2>1. CASE pc = "error"
    BY <1>s, <1>x, <2>0, <2>1, CutTrue DEF Interrupted
  <2>2. CASE pc # "error"
    <3>1. CutShort(Outcome(Quoting(TimerErr(pc)))) /\ head \in {NoStatus, 200}
      BY <1>0, <2>0, <2>2 DEF Interrupted, StageOK, Running
    <3>2. FromBackendError(Quoting(TimerErr(pc))) = "timeout"
      BY <2>0, ClassOfTimers DEF Running
    <3> QED BY <2>0, <3>1, <3>2, CutTrue
  <2> QED BY <2>1, <2>2
<1>14. CASE Cancelled
  <2>0. pc \in Running /\ fired' = FALSE /\ CutShort(Interrupted(Plain))
    BY <1>0, <1>14 DEF Cancelled, Running, StageOK, UTypeOK
  <2>1. CASE pc = "error"
    <3>1. CutShort(Outcome(StatusErr(head, text))) /\ ~fired' /\ fired' \in BOOLEAN
      BY <2>0, <2>1 DEF Interrupted
    <3> QED BY <1>x, <2>0, <2>1, <3>1, CutTrue
  <2>2. CASE pc # "error"
    <3>1. CutShort(Outcome(Quoting(Plain)))
      BY <2>0, <2>2 DEF Interrupted
    <3>2. LET c == FromBackendError(Quoting(Plain)) IN
            /\ c = "timeout" => "timeout" \in text
            /\ c = "overloaded" => "overload" \in text
      BY <2>0, ClassOfBreaks DEF Running
    <3> QED BY <2>0, <3>1, <3>2, CutTrue
  <2> QED BY <2>1, <2>2
<1>15. CASE Return
  <2>1. UTypeOK' /\ StageOK' /\ pc' # "done"
    BY <1>0, <1>15 DEF Return, UTypeOK, StageOK
  <2> QED BY <2>1, StillRunning
<1>16. CASE UNCHANGED uvars
  BY <1>16 DEF uvars, UInv, UTypeOK, StageOK, OkIsWhole, ClassIsTrue, TimeoutIsTimeout,
               OverloadIsOverload, TimedOut
<1> QED BY <1>2, <1>3, <1>4, <1>5, <1>6, <1>7, <1>8, <1>9, <1>10, <1>11, <1>12, <1>13, <1>14,
           <1>15, <1>16 DEF UNext

(* The promises hold of every call. *)
LEMMA UInvAlways == USpec => []UInv
BY UInvInit, UInvStep, PTL DEF USpec

(* The state of a call always has its type (ollama.go, mlx.go, tts.go).     *)
THEOREM UpstreamType == USpec => []UTypeOK
<1>1. UInv => UTypeOK
  BY DEF UInv
<1> QED BY <1>1, UInvAlways, PTL

(* No reply that was cut short is a success (the decoders, ReadAll of the   *)
(* audio in tts.go).                                                        *)
THEOREM SuccessIsWhole == USpec => []OkIsWhole
<1>1. UInv => OkIsWhole
  BY DEF UInv
<1> QED BY <1>1, UInvAlways, PTL

(* The class of an error is true of the call, although it is decided by     *)
(* words in a text that the upstream has written (classify.go).             *)
THEOREM ClassesAreTrue == USpec => []ClassIsTrue
<1>1. UInv => ClassIsTrue
  BY DEF UInv
<1> QED BY <1>1, UInvAlways, PTL

-----------------------------------------------------------------------------
(* A Kokoro server behind the watchdog, for any backends beside it. *)

Processes == [state : {"down", "starting", "serving"},
              job : {"none", "load for speech", "load for models", "speech"},
              loaded : BOOLEAN, lock : BOOLEAN,
              abandoned : 0..MaxAbandoned, failed : BOOLEAN]

LoadJobs == {"load for speech", "load for models"}

\* A process p of the script sc: nothing has happened to it before it serves,
\* it works only while it serves, it loads under the lock and only once, and
\* the lazy script keeps the lock of a load that has ended either way.
Sound(p, sc) ==
    /\ p \in Processes
    /\ p.job # "none" => p.state = "serving"
    /\ p.state # "serving" => ~p.loaded /\ ~p.lock /\ ~p.failed
    /\ p.state = "starting" => sc = Eager
    /\ p.job \in LoadJobs => sc = Lazy /\ p.lock /\ ~p.loaded /\ ~p.failed
    /\ sc = Lazy /\ (p.loaded \/ p.failed) => p.lock
    /\ p.failed => ~p.loaded

KInv == KTypeOK /\ Sound(server, script)

(* Kokoro is one of the services the watchdog probes, under its own name.   *)
LEMMA KIsService == K \in Services /\ NameOf(K) = KokoroName
BY KokoroAssumption DEF K, Services, NameOf

(* Whether a process answers its health call is a truth value.              *)
LEMMA HealthType == \A p \in Processes : HealthOK(p) \in BOOLEAN
BY DEF HealthOK, Processes

(* A process that has ended, or has just been started, is sound.            *)
LEMMA FreshSound == script \in {Lazy, Eager} => Sound(Fresh, script) /\ Sound(Down, script)
<1> SUFFICES ASSUME script \in {Lazy, Eager} PROVE Sound(Fresh, script) /\ Sound(Down, script)
  OBVIOUS
<1>1. 0 \in 0..MaxAbandoned
  BY KokoroAssumption
<1>2. Lazy # Eager
  BY DEF Lazy, Eager
<1>3. /\ Fresh.state = (IF script = Eager THEN "starting" ELSE "serving")
      /\ Fresh.job = "none" /\ ~Fresh.loaded /\ ~Fresh.lock /\ Fresh.abandoned = 0 /\ ~Fresh.failed
      /\ Fresh \in Processes
  BY <1>1 DEF Fresh, Processes
<1>4. /\ Down.state = "down"
      /\ Down.job = "none" /\ ~Down.loaded /\ ~Down.lock /\ Down.abandoned = 0 /\ ~Down.failed
      /\ Down \in Processes
  BY <1>1, <1>3 DEF Down, Processes
<1> QED BY <1>2, <1>3, <1>4 DEF Sound, LoadJobs

(* The server goes on as the sound process p, by its own step or because a  *)
(* request arrives in its socket.                                           *)
GoesOn(p) ==
    /\ Sound(p, script)
    /\ server' = p /\ script' = script
    /\ up' = [up EXCEPT ![K] = HealthOK(p)]
    /\ UNCHANGED <<states, probed, gauge, wpc, todo, answer, cancelled, streak>>

LEMMA BecomeGoesOn ==
    ASSUME NEW p, Sound(p, script), Become(p) PROVE GoesOn(p)
BY DEF Become, GoesOn

(* A server that goes on as a sound process is sound, and the watchdog's    *)
(* view of the world is typed.                                              *)
LEMMA GoesOnSound ==
    ASSUME KInv, NEW p, GoesOn(p), direct' \in 0..MaxDirect,
           call' \in {"none", "sent", "served"}, reply' \in {"none", "audio", "error", "refused"}
    PROVE  KInv'
<1>1. /\ server' = p /\ script' = script /\ Sound(p, script)
      /\ up' = [up EXCEPT ![K] = HealthOK(p)]
      /\ UNCHANGED <<states, probed, gauge, wpc, todo, answer, cancelled, streak>>
  BY DEF GoesOn
<1>2. p \in Processes /\ HealthOK(p) \in BOOLEAN
  BY <1>1, HealthType DEF Sound
<1>3. WTypeOK' /\ up'[K] = HealthOK(p)
  BY <1>1, <1>2, KIsService DEF KInv, KTypeOK, WTypeOK
<1>4. Sound(server', script')
  BY <1>1
<1>5. KTypeOK'
  <2>1. script' \in {Lazy, Eager}
    BY <1>1 DEF KInv, KTypeOK
  <2>2. server' \in Processes /\ (server'.job # "none" => server'.state = "serving")
    BY <1>4 DEF Sound
  <2>3. up'[K] <=> HealthOK(server')
    BY <1>1, <1>3
  <2> QED BY <1>3, <2>1, <2>2, <2>3 DEF KTypeOK, Processes, HealthOK
<1> QED BY <1>4, <1>5 DEF KInv

(* A step that leaves the server and its health alone.                      *)
LEMMA BesideSound ==
    ASSUME KInv, WTypeOK', up'[K] = up[K], UNCHANGED <<script, server>>,
           direct' \in 0..MaxDirect,
           call' \in {"none", "sent", "served"}, reply' \in {"none", "audio", "error", "refused"}
    PROVE  KInv'
BY DEF KInv, KTypeOK, HealthOK

(* Whoever waits gets an answer, or goes on waiting.                        *)
LEMMA RespondType ==
    ASSUME KInv, NEW r \in {"audio", "error"}, Respond(r)
    PROVE  call' \in {"none", "sent", "served"} /\ reply' \in {"none", "audio", "error", "refused"}
BY DEF KInv, KTypeOK, Respond

(* Before anything is launched. *)
LEMMA KInvInit == KInit => KInv
<1> SUFFICES ASSUME KInit PROVE KInv
  OBVIOUS
<1>1. WTypeOK /\ direct \in 0..MaxDirect
  BY WInitType, KokoroAssumption DEF KInit
<1>2. Sound(server, script)
  BY FreshSound DEF KInit
<1>3. up[K] <=> HealthOK(server)
  BY DEF KInit, Down, Fresh, HealthOK
<1>4. server \in Processes /\ (server.job # "none" => server.state = "serving")
  BY <1>2 DEF Sound
<1> QED BY <1>1, <1>2, <1>3, <1>4 DEF KInv, KTypeOK, KInit, Processes

(* What the running process may do keeps it sound, job by job.              *)
LEMMA ServerStepSound ==
    ASSUME KInv, ServerStep
    PROVE  \E p : Sound(p, script) /\ Become(p)
<1>0. Sound(server, script) /\ server \in Processes /\ script \in {Lazy, Eager} /\ Lazy # Eager
  BY DEF KInv, KTypeOK, Sound, Lazy, Eager
<1>1. CASE StartupLoads
  <2> DEFINE p == [server EXCEPT !.state = "serving", !.loaded = TRUE]
  <2>1. Sound(p, script)
    BY <1>0, <1>1 DEF StartupLoads, Sound, Processes, LoadJobs
  <2> QED BY <1>1, <2>1 DEF StartupLoads
<1>2. CASE StartupFails
  <2> DEFINE p == [server EXCEPT !.state = "serving", !.failed = TRUE]
  <2>1. Sound(p, script)
    BY <1>0, <1>2 DEF StartupFails, Sound, Processes, LoadJobs
  <2> QED BY <1>2, <2>1 DEF StartupFails
<1>3. CASE StartupRaises
  BY <1>0, <1>3, FreshSound DEF StartupRaises
<1>4. ASSUME NEW awaited \in BOOLEAN, SpeechBegins(awaited)
      PROVE  \E p : Sound(p, script) /\ Become(p)
  <2> DEFINE s == IF awaited THEN server ELSE [server EXCEPT !.abandoned = @ - 1]
  <2>1. /\ server.state = "serving" /\ server.job = "none"
        /\ awaited \/ server.abandoned > 0
    BY <1>4 DEF SpeechBegins, Idle
  <2>2. ~awaited => server.abandoned - 1 \in 0..MaxAbandoned
    <3>1. server.abandoned \in 0..MaxAbandoned
      BY <1>0 DEF Processes
    <3> QED BY <2>1, <3>1, KokoroAssumption
  <2>3. /\ s \in Processes /\ s.state = "serving" /\ s.job = "none"
        /\ s.loaded = server.loaded /\ s.lock = server.lock /\ s.failed = server.failed
    BY <1>0, <2>1, <2>2 DEF Processes
  <2>4. \/ s.loaded /\ Become([s EXCEPT !.job = "speech"])
        \/ ~s.loaded /\ script = Lazy /\ ~s.lock
             /\ Become([s EXCEPT !.job = "load for speech", !.lock = TRUE])
        \/ ~s.loaded /\ Become(s)
    BY <1>4 DEF SpeechBegins
  <2> HIDE DEF s
  <2>5. Sound(s, script)
    BY <1>0, <2>3 DEF Sound, LoadJobs
  <2>6. CASE s.loaded /\ Become([s EXCEPT !.job = "speech"])
    <3>1. Sound([s EXCEPT !.job = "speech"], script)
      BY <2>3, <2>5 DEF Sound, Processes, LoadJobs
    <3> QED BY <2>6, <3>1
  <2>7. CASE ~s.loaded /\ script = Lazy /\ ~s.lock
               /\ Become([s EXCEPT !.job = "load for speech", !.lock = TRUE])
    <3>1. Sound([s EXCEPT !.job = "load for speech", !.lock = TRUE], script)
      BY <1>0, <2>3, <2>5, <2>7 DEF Sound, Processes, LoadJobs
    <3> QED BY <2>7, <3>1
  <2> QED BY <2>4, <2>5, <2>6, <2>7
<1>5. CASE LoadSucceeds
  <2> DEFINE p == [server EXCEPT !.loaded = TRUE,
                                 !.job = IF @ = "load for speech" THEN "speech" ELSE "none"]
  <2>1. Sound(p, script)
    BY <1>0, <1>5 DEF LoadSucceeds, Loading, Sound, Processes, LoadJobs
  <2> QED BY <1>5, <2>1 DEF LoadSucceeds
<1>6. CASE LoadFails
  <2> DEFINE p == [server EXCEPT !.job = "none", !.failed = TRUE]
  <2>1. Sound(p, script)
    BY <1>0, <1>6 DEF LoadFails, Loading, Sound, Processes, LoadJobs
  <2> QED BY <1>6, <2>1 DEF LoadFails
<1>7. CASE SpeechEnds
  <2> DEFINE p == [server EXCEPT !.job = "none"]
  <2>1. Sound(p, script)
    BY <1>0, <1>7 DEF SpeechEnds, Sound, Processes, LoadJobs
  <2> QED BY <1>7, <2>1 DEF SpeechEnds
<1> QED BY <1>1, <1>2, <1>3, <1>4, <1>5, <1>6, <1>7 DEF ServerStep

(* What happens beside the server: the environment of the other services,   *)
(* and the watchdog itself.                                                 *)
Elsewhere ==
    /\ [(\E s \in Services \ {K} : Toggle(s)) \/ Start \/ WStep \/ Stop]_wvars
    /\ UNCHANGED <<script, server>>

(* A step leaves the server alone or makes a sound process of it.           *)
LEMMA ProcessSteps ==
    ASSUME KInv, [KNext]_allvars
    PROVE  Elsewhere \/ \E p : GoesOn(p)
<1>0. /\ script \in {Lazy, Eager} /\ Sound(server, script)
  BY DEF KInv, KTypeOK
<1>1. CASE Launch \/ Dies
  BY <1>0, <1>1, FreshSound, BecomeGoesOn DEF Launch, Dies
<1>2. CASE ServerStep
  BY <1>2, ServerStepSound, BecomeGoesOn
<1>3. CASE GivesUp /\ call = "sent" /\ server.state = "serving"
  <2> DEFINE p == [server EXCEPT !.abandoned = @ + 1]
  <2>1. server.abandoned < MaxAbandoned /\ Become(p)
    BY <1>3 DEF GivesUp
  <2>2. server \in Processes /\ server.abandoned \in 0..MaxAbandoned
    BY <1>0 DEF Sound, Processes
  <2>3. server.abandoned + 1 \in 0..MaxAbandoned
    BY <2>1, <2>2, KokoroAssumption
  <2>4. Sound(p, script)
    BY <1>0, <2>2, <2>3, <1>3 DEF Sound, Processes, LoadJobs
  <2> QED BY <2>1, <2>4, BecomeGoesOn
<1>4. CASE GivesUp /\ ~(call = "sent" /\ server.state = "serving")
  BY <1>4 DEF GivesUp, Elsewhere
<1>5. CASE ModelsAsked
  <2> DEFINE p == [server EXCEPT !.job = "load for models", !.lock = TRUE]
  <2>1. Sound(p, script)
    BY <1>0, <1>5 DEF ModelsAsked, Idle, Sound, Processes, LoadJobs
  <2> QED BY <1>5, <2>1, BecomeGoesOn DEF ModelsAsked
<1>9. CASE SpeechAsked
  <2> DEFINE p == [server EXCEPT !.abandoned = @ + 1]
  <2>1. /\ server.state = "serving" /\ server.abandoned < MaxAbandoned
        /\ server' = p /\ script' = script /\ UNCHANGED wvars
    BY <1>9 DEF SpeechAsked
  <2>2. server \in Processes /\ server.abandoned \in 0..MaxAbandoned
    BY <1>0 DEF Sound, Processes
  <2>3. server.abandoned + 1 \in 0..MaxAbandoned
    BY <2>1, <2>2, KokoroAssumption
  <2>4. Sound(p, script)
    BY <1>0, <2>1, <2>2, <2>3 DEF Sound, Processes, LoadJobs
  <2>5. HealthOK(p) <=> HealthOK(server)
    BY <2>2 DEF HealthOK, Processes
  <2>6. up \in [Services -> BOOLEAN] /\ K \in Services /\ up[K] = HealthOK(server)
    BY KIsService, HealthType, <2>2 DEF KInv, KTypeOK, WTypeOK
  <2>7. HealthOK(p) = up[K]
    BY <2>4, <2>2, <2>5, <2>6, HealthType DEF Sound
  <2>8. up' = [up EXCEPT ![K] = HealthOK(p)]
    BY <2>1, <2>6, <2>7 DEF wvars
  <2> QED BY <2>1, <2>4, <2>8 DEF GoesOn, wvars
<1>6. CASE Ask \/ Unreachable
  BY <1>6 DEF Ask, Unreachable, Elsewhere
<1>7. CASE \/ \E s \in Services \ {K} : Beside(Toggle(s))
           \/ Beside(Start) \/ Beside(WStep) \/ Beside(Stop)
  BY <1>7 DEF Beside, kvars, Elsewhere
<1>8. CASE UNCHANGED allvars
  BY <1>8 DEF allvars, kvars, Elsewhere
<1> QED BY <1>1, <1>2, <1>3, <1>4, <1>5, <1>6, <1>7, <1>8, <1>9 DEF KNext

(* Others ask the server itself finitely often.                             *)
LEMMA DirectSteps ==
    ASSUME KInv, [KNext]_allvars PROVE direct' \in 0..MaxDirect
<1>0. direct \in 0..MaxDirect
  BY DEF KInv, KTypeOK
<1>1. CASE direct' = direct
  BY <1>0, <1>1
<1>2. CASE SpeechAsked
  BY <1>0, <1>2, KokoroAssumption DEF SpeechAsked
<1>3. ASSUME NEW p, Become(p) PROVE direct' = direct
  BY <1>3 DEF Become
<1>4. CASE \/ Launch \/ Dies \/ StartupLoads \/ StartupFails \/ StartupRaises
           \/ LoadSucceeds \/ LoadFails \/ SpeechEnds \/ ModelsAsked
  BY <1>1, <1>3, <1>4 DEF Launch, Dies, StartupLoads, StartupFails, StartupRaises,
                          LoadSucceeds, LoadFails, SpeechEnds, ModelsAsked
<1>5. ASSUME NEW awaited \in BOOLEAN, SpeechBegins(awaited) PROVE direct' = direct
  BY <1>3, <1>5 DEF SpeechBegins
<1>6. CASE Ask \/ Unreachable \/ GivesUp
  BY <1>1, <1>3, <1>6 DEF Ask, Unreachable, GivesUp
<1>7. CASE \/ \E s \in Services \ {K} : Beside(Toggle(s))
           \/ Beside(Start) \/ Beside(WStep) \/ Beside(Stop)
           \/ UNCHANGED allvars
  BY <1>1, <1>7 DEF Beside, kvars, allvars
<1> QED BY <1>1, <1>2, <1>4, <1>5, <1>6, <1>7 DEF KNext, ServerStep

(* The gateway's request and its client's answer keep their types.          *)
LEMMA CallSteps ==
    ASSUME KInv, [KNext]_allvars
    PROVE  call' \in {"none", "sent", "served"} /\ reply' \in {"none", "audio", "error", "refused"}
<1> DEFINE Typed == /\ call' \in {"none", "sent", "served"}
                    /\ reply' \in {"none", "audio", "error", "refused"}
<1>0. /\ call \in {"none", "sent", "served"}
      /\ reply \in {"none", "audio", "error", "refused"}
  BY DEF KInv, KTypeOK
<1>1. CASE UNCHANGED <<call, reply>>
  BY <1>0, <1>1
<1>2. CASE Dies \/ LoadFails \/ SpeechEnds
  BY <1>2, RespondType DEF Dies, LoadFails, SpeechEnds
<1>3. CASE Ask \/ Unreachable \/ GivesUp
  BY <1>0, <1>3 DEF Ask, Unreachable, GivesUp
<1>4. ASSUME NEW awaited \in BOOLEAN, SpeechBegins(awaited) PROVE Typed
  BY <1>0, <1>4 DEF SpeechBegins
<1>5. CASE \/ Launch \/ StartupLoads \/ StartupFails \/ StartupRaises \/ LoadSucceeds
           \/ ModelsAsked \/ SpeechAsked
  BY <1>1, <1>5 DEF Launch, StartupLoads, StartupFails, StartupRaises, LoadSucceeds,
                    ModelsAsked, SpeechAsked
<1>6. CASE \/ \E s \in Services \ {K} : Beside(Toggle(s))
           \/ Beside(Start) \/ Beside(WStep) \/ Beside(Stop)
           \/ UNCHANGED allvars
  BY <1>1, <1>6 DEF Beside, kvars, allvars
<1> QED BY <1>2, <1>3, <1>4, <1>5, <1>6 DEF KNext, ServerStep

(* Every step of the server, of the gateway, of launchd and of the          *)
(* watchdog keeps the server sound.                                         *)
LEMMA KInvStep == KInv /\ [KNext]_allvars => KInv'
<1> SUFFICES ASSUME KInv, [KNext]_allvars PROVE KInv'
  OBVIOUS
<1>1. CASE \E p : GoesOn(p)
  BY <1>1, CallSteps, DirectSteps, GoesOnSound
<1>2. CASE Elsewhere
  <2>1. [(\E s \in Services \ {K} : Toggle(s)) \/ Start \/ WStep \/ Stop]_wvars
        /\ UNCHANGED <<script, server>>
    BY <1>2 DEF Elsewhere
  <2>2. WTypeOK'
    BY <2>1, WTypeStep DEF WNext, KInv, KTypeOK
  <2>3. CASE Start \/ WStep \/ Stop \/ UNCHANGED wvars
    <3>1. up' = up
      BY <2>3 DEF Start, WStep, Answer, Apply, ProbeDone, LoopTick, LoopDone, Stop, wvars
    <3> QED BY <2>1, <2>2, <3>1, CallSteps, DirectSteps, BesideSound
  <2>4. ASSUME NEW s \in Services \ {K}, Toggle(s) PROVE KInv'
    <3>1. up'[K] = up[K]
      BY <2>4, KIsService DEF Toggle, KInv, KTypeOK, WTypeOK
    <3> QED BY <2>1, <2>2, <3>1, CallSteps, DirectSteps, BesideSound
  <2> QED BY <2>1, <2>3, <2>4
<1> QED BY <1>1, <1>2, ProcessSteps

(* Every reachable process is sound. *)
LEMMA KInvAlways == KSpec => []KInv
BY KInvInit, KInvStep, PTL DEF KSpec

(* The state of the server and of the gateway's call has its type, and what *)
(* the watchdog can see is what a health call would get (kokoro_server.py,  *)
(* health).                                                                 *)
THEOREM KokoroType == KSpec => []KTypeOK
<1>1. KInv => KTypeOK
  BY DEF KInv
<1> QED BY <1>1, KInvAlways, PTL

(* _load_lock is set by the first load and by nothing cleared, so a load    *)
(* that failed is never tried again in the same process                     *)
(* (kokoro_server.py, _ensure_pipeline).                                    *)
THEOREM FailedLoadStays == KSpec => []FailedLoadIsFinal
<1>1. KInv => FailedLoadIsFinal
  BY DEF KInv, Sound, FailedLoadIsFinal, Loading, LoadJobs
<1> QED BY <1>1, KInvAlways, PTL

(* To the watchdog a server that goes on is a service that toggles, or one  *)
(* that does nothing.                                                       *)
LEMMA GoesOnToggles ==
    ASSUME KInv, NEW p, GoesOn(p)
    PROVE  Toggle(K) \/ UNCHANGED wvars
<1>1. /\ up' = [up EXCEPT ![K] = HealthOK(p)]
      /\ UNCHANGED <<states, probed, gauge, wpc, todo, answer, cancelled, streak>>
  BY DEF GoesOn
<1>2. up \in [Services -> BOOLEAN] /\ K \in Services /\ HealthOK(p) \in BOOLEAN
  BY KIsService, HealthType DEF KInv, KTypeOK, WTypeOK, Sound, GoesOn
<1>3. CASE HealthOK(p) = up[K]
  <2>1. up' = up
    BY <1>1, <1>2, <1>3
  <2> QED BY <1>1, <2>1 DEF wvars
<1>4. CASE HealthOK(p) = ~up[K]
  <2>1. up' = [up EXCEPT ![K] = ~@]
    BY <1>1, <1>2, <1>4
  <2> QED BY <1>1, <2>1 DEF Toggle
<1> QED BY <1>2, <1>3, <1>4

(* The server, launchd and the gateway are an environment the watchdog      *)
(* allows for.                                                              *)
LEMMA WatchdogBeside == KInv /\ [KNext]_allvars => [WNext]_wvars
<1> SUFFICES ASSUME KInv, [KNext]_allvars PROVE [WNext]_wvars
  OBVIOUS
<1>1. CASE Elsewhere
  BY <1>1 DEF WNext, Elsewhere
<1>2. CASE \E p : GoesOn(p)
  BY <1>2, GoesOnToggles, KIsService DEF WNext
<1> QED BY <1>1, <1>2, ProcessSteps

(* A Kokoro server behind the watchdog is an implementation of the watchdog *)
(* module, whose services toggle at will: what is proved there of every     *)
(* service holds of a real one, which loads, blocks and is restarted.       *)
THEOREM KokoroIsAService == KSpec => WInit /\ [][WNext]_wvars
<1>1. KInit => WInit
  BY DEF KInit
<1> QED BY <1>1, KInvAlways, WatchdogBeside, PTL DEF KSpec

(* So the verdict about it is exact too: it is degraded if and, until Stop, *)
(* only if it did not answer the last fail_threshold health calls           *)
(* (checkBackend), although it is busy rather than down in most of them.    *)
THEOREM KokoroVerdictExact ==
    ASSUME DistinctNames
    PROVE  KSpec => []VerdictIsExact
<1>1. WInit => WInv
  BY WInvInit
<1>2. WInv /\ [WNext]_wvars => WInv'
  BY DistinctNames, WInvStep
<1>3. WInv => VerdictIsExact
  BY WInvImplies DEF VerdictIsExact
<1> QED BY <1>1, <1>2, <1>3, KokoroIsAService, PTL

-----------------------------------------------------------------------------
(* The starved server. *)

\* What keeps the server unused, and what keeps it degraded.
Unused ==
    /\ script = Lazy /\ server.state = "serving"
    /\ ~server.loaded /\ ~Loading
    /\ call = "none" /\ server.abandoned = 0

DegradedFor(n) == ~IsHealthy(n) /\ \A a \in answer : a[1] = K => a[2]

(* The watchdog never takes an unused server back: each of its health calls *)
(* fails.                                                                   *)
LEMMA DegradedStays ==
    ASSUME DistinctNames, WTypeOK, ~up[K], DegradedFor(KokoroName),
           [WNext]_wvars
    PROVE  DegradedFor(KokoroName)'
<1>0. K \in Services /\ NameOf(K) = KokoroName /\ KokoroName \in Names
  BY KIsService, NameOfService
<1>1. KokoroName \in probed /\ ~states[KokoroName].healthy
  BY DEF DegradedFor, IsHealthy
<1>2. ASSUME NEW s \in Services, Answer(s) PROVE DegradedFor(KokoroName)'
  <2>1. /\ answer' = {<<s, HealthErr(s)>>} /\ UNCHANGED <<states, probed>>
    BY <1>2 DEF Answer
  <2>2. s = K => HealthErr(s)
    BY DEF HealthErr
  <2>3. \A a \in answer' : a[1] = K => a[2]
    <3> SUFFICES s = K => <<s, HealthErr(s)>>[2]
      BY <2>1
    <3> QED BY <2>2, PairSecond, Zenon
  <2> QED BY <1>1, <2>1, <2>3 DEF DegradedFor, IsHealthy
<1>3. CASE Apply
  <2>1. PICK a \in answer :
          LET n == NameOf(a[1])
              st == Checked(states[n], a[2])
          IN  /\ states' = [states EXCEPT ![n] = st]
              /\ probed' = probed \cup {n}
              /\ answer' = {}
    BY <1>3 DEF Apply
  <2>2. a[1] \in Services
    BY DEF WTypeOK
  <2>3. CASE a[1] = K
    <3>1. states'[KokoroName] = Checked(states[KokoroName], a[2])
      BY <1>0, <2>1, <2>3 DEF WTypeOK
    <3>2. Checked(states[KokoroName], a[2]) = Failed(states[KokoroName])
      BY <2>3 DEF Checked, DegradedFor
    <3>3. ~Failed(states[KokoroName]).healthy
      BY <1>1 DEF Failed
    <3> QED BY <1>1, <2>1, <3>1, <3>2, <3>3 DEF DegradedFor, IsHealthy
  <2>4. CASE a[1] # K
    <3>1. NameOf(a[1]) # KokoroName
      BY <1>0, <2>2, <2>4, NamesDistinct
    <3>2. states'[KokoroName] = states[KokoroName]
      BY <1>0, <2>1, <3>1 DEF WTypeOK
    <3> QED BY <1>1, <2>1, <3>2 DEF DegradedFor, IsHealthy
  <2> QED BY <2>3, <2>4
<1>4. CASE UNCHANGED <<states, probed, answer>>
  BY <1>4 DEF DegradedFor, IsHealthy
<1>5. ASSUME NEW s \in Services, Toggle(s) PROVE UNCHANGED <<states, probed, answer>>
  BY <1>5 DEF Toggle
<1>6. CASE Start \/ ProbeDone \/ LoopTick \/ LoopDone \/ Stop \/ UNCHANGED wvars
  BY <1>4, <1>6 DEF Start, ProbeDone, LoopTick, LoopDone, Stop, wvars
<1> QED BY <1>2, <1>3, <1>4, <1>5, <1>6 DEF WNext, WStep

(* The gateway never uses a degraded server, so only a request past the     *)
(* gateway or the end of the process changes that nobody does.              *)
LEMMA UnusedStays ==
    ASSUME KInv, Unused, ~IsHealthy(KokoroName), [KNext]_allvars
    PROVE  Unused' \/ ModelsAsked \/ SpeechAsked \/ Dies
<1>0. server \in Processes /\ Lazy # Eager
  BY DEF KInv, Sound, Lazy, Eager
<1>1. CASE UNCHANGED <<script, server, call>>
  BY <1>1 DEF Unused, Loading
<1>2. CASE \/ \E s \in Services \ {K} : Beside(Toggle(s))
           \/ Beside(Start) \/ Beside(WStep) \/ Beside(Stop)
  BY <1>1, <1>2 DEF Beside, kvars
<1>3. CASE Ask
  BY <1>1, <1>3 DEF Ask, Routed, Unused
<1>4. CASE Launch \/ Unreachable \/ GivesUp
  BY <1>4 DEF Launch, Unreachable, GivesUp, Unused
<1>5. CASE StartupLoads \/ StartupFails \/ StartupRaises \/ LoadSucceeds \/ LoadFails
  BY <1>5 DEF StartupLoads, StartupFails, StartupRaises, LoadSucceeds, LoadFails, Unused
<1>6. ASSUME NEW awaited \in BOOLEAN, SpeechBegins(awaited) PROVE FALSE
  BY <1>6 DEF SpeechBegins, Unused
<1>7. CASE SpeechEnds
  <2>1. /\ server' = [server EXCEPT !.job = "none"]
        /\ script' = script /\ call' = "none"
    BY <1>7 DEF SpeechEnds, Become, Respond, Unused
  <2> QED BY <1>0, <2>1 DEF Unused, Loading, Processes
<1>8. CASE UNCHANGED allvars
  BY <1>1, <1>8 DEF allvars, kvars
<1> QED BY <1>2, <1>3, <1>4, <1>5, <1>6, <1>7, <1>8 DEF KNext, ServerStep

(* A lazy server that is degraded before its first use stays unused: it is  *)
(* refused requests because its health check fails, and its health check    *)
(* fails because nothing was requested (kokoro_server.py, health; watchdog  *)
(* and SelectHealthyBackend on the other side).                             *)
THEOREM StarvationIsForGood ==
    ASSUME DistinctNames
    PROVE  KSpec => StarvedForGood
<1>1. Starved <=> Unused /\ DegradedFor(KokoroName)
  BY DEF Starved, Unused, DegradedFor
<1>2. ASSUME KInv, Starved, [KNext]_allvars
      PROVE  Starved' \/ ModelsAsked \/ SpeechAsked \/ Dies
  <2>1. WTypeOK /\ ~up[K]
    BY <1>1, <1>2 DEF KInv, KTypeOK, Unused, HealthOK
  <2>2. DegradedFor(KokoroName)'
    BY <1>1, <1>2, <2>1, DistinctNames, WatchdogBeside, DegradedStays
  <2>3. Unused' \/ ModelsAsked \/ SpeechAsked \/ Dies
    BY <1>1, <1>2, UnusedStays DEF DegradedFor
  <2> QED BY <2>2, <2>3 DEF Starved, Unused, DegradedFor
<1>3. KInv /\ [KNext]_allvars => [Starved => Starved' \/ ModelsAsked \/ SpeechAsked \/ Dies]_allvars
  BY <1>2
<1> QED BY <1>3, KInvAlways, PTL DEF KSpec, StarvedForGood

=============================================================================
