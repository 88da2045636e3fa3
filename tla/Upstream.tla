------------------------------ MODULE Upstream ------------------------------
(***************************************************************************)
(* One call of a backend adapter (internal/backend/{ollama,mlx,tts}.go),   *)
(* streams apart, and what the handler makes of its error                  *)
(* (apierror.FromBackendError).  The adapters differ in their URLs only.   *)
(* A call may fail at every stage: the connection, the wait for the status *)
(* line, the body of a reply, the body of an error.  Meanwhile the timer   *)
(* of the HTTP client may fire and the caller's context may end.  All the  *)
(* clients use http.DefaultTransport, which follows redirects and has a    *)
(* time-out of its own for dialling.                                       *)
(*                                                                         *)
(* FromBackendError looks at the error's type and at its text.  The text   *)
(* of an error status ends with the body the upstream sent, and net/http   *)
(* quotes what it could not read and the URL it was redirected to.         *)
(***************************************************************************)
EXTENDS Integers, FiniteSets

\* The status lines an upstream may send; 200 is success.
CONSTANT Statuses

ASSUME UpstreamAssumption == Statuses \subseteq 100..599 /\ 200 \in Statuses

NoStatus == 0

Ops == {"health", "tts health", "chat", "models", "embed", "speech", "voices"}
HealthOps == {"health", "tts health"}

\* What FromBackendError looks for in a text: words about time, about the
\* connection, about load.
Marks == {"timeout", "connection", "overload"}

VARIABLES
    limit,      \* which HTTP clients have a timeout
    op,         \* the running call
    caller,     \* whose context it has
    pc,         \* how far it is
    head,       \* history: the status, of its line or of a text that is quoted
    text,       \* history: marks in the words of the upstream an error would have
    framed,     \* the reply says where it ends: a length or chunks
    fired,      \* history: its timer, its deadline or the dialler's fired
    cut,        \* history: something ended it before the upstream had said all
    result      \* ok, the class of its error, or failed where nobody asks

uvars == <<limit, op, caller, pc, head, text, framed, fired, cut, result>>

\* The client an operation uses: a chat backend has one with a short timeout for
\* health checks and lists, a TTS backend has only one.
Client(o) ==
    IF o \in {"health", "models"} THEN "health"
    ELSE IF o \in {"tts health", "speech", "voices"} THEN "tts" ELSE "inference"

(* Main gives a health timeout that is not positive its default; the others *)
(* stay without a timeout.                                                  *)
UInit ==
    /\ limit \in [{"health", "inference", "tts"} -> BOOLEAN]
    /\ limit["health"]
    /\ op = "health"
    /\ caller = "watchdog"
    /\ pc = "idle"
    /\ head = NoStatus
    /\ text = {}
    /\ framed = TRUE
    /\ fired = FALSE
    /\ cut = FALSE
    /\ result = "none"

-----------------------------------------------------------------------------
(* Errors: does errors.Is find a deadline, is there a net.OpError, does the *)
(* net.Error say Timeout, the status in the text and the marks in it.       *)
Plain == [deadline |-> FALSE, netop |-> FALSE, timeout |-> FALSE,
          status |-> NoStatus, text |-> {}]

\* While it connects, an error's text says "dial tcp".
Dialling(p) == IF p = "connecting" THEN {"connection"} ELSE {}

\* http.Client's timer, or a deadline of the context.
TimerErr(p) == [Plain EXCEPT !.deadline = TRUE, !.timeout = TRUE,
                             !.text = {"timeout"} \cup Dialling(p)]

\* The dialler's 30 s: "dial tcp ...: i/o timeout".
DialErr == [Plain EXCEPT !.deadline = TRUE, !.netop = TRUE, !.timeout = TRUE,
                         !.text = {"timeout", "connection"}]

\* Refused, no route, no such host, reset by the peer.
ConnErr == [Plain EXCEPT !.netop = TRUE, !.text = {"connection"}]

\* The kernel gave the connection up: no answer to its packets or probes.
KernelErr(p) == [Plain EXCEPT !.netop = TRUE, !.timeout = TRUE, !.text = Dialling(p)]

\* "net/http: TLS handshake timeout", of which no test knows the words.
HandshakeErr == [Plain EXCEPT !.timeout = TRUE]

StatusErr(s, marks) == [Plain EXCEPT !.status = s, !.text = marks]

IsClientTimeout(e) == e.deadline \/ "timeout" \in e.text

IsConnectionUnavailable(e) == ~e.timeout /\ (e.netop \/ "connection" \in e.text)

\* Faulty variant: a timeout while connecting is a connection error.
ConnectionFirst(e) ==
    IF e.netop \/ "connection" \in e.text THEN "unavailable"
    ELSE IF IsClientTimeout(e) \/ e.status = 504 THEN "timeout"
    ELSE IF e.status \in {429, 502, 503} \/ "overload" \in e.text THEN "overloaded"
    ELSE "unavailable"

FromBackendError(e) ==
    IF IsClientTimeout(e) THEN "timeout"
    ELSE IF IsConnectionUnavailable(e) THEN "unavailable"
    ELSE IF e.status = 504 THEN "timeout"
    ELSE IF e.status \in {429, 502, 503} \/ "overload" \in e.text THEN "overloaded"
    ELSE "unavailable"

\* The error has the upstream's words as well: the URL of a redirect.
Quoting(e) == [e EXCEPT !.text = @ \cup text]

\* Nobody classifies the error of a health check or of a list of voices.
Outcome(e) == IF op \in HealthOps \cup {"voices"} THEN "failed" ELSE FromBackendError(e)

-----------------------------------------------------------------------------
\* The request is built and handed to the client.
Begin(o) ==
    /\ pc = "idle"
    /\ pc' = "connecting"
    /\ op' = o
    /\ caller' \in IF o \in HealthOps THEN {"watchdog", "request"} ELSE {"request"}
    /\ UNCHANGED <<limit, head, text, framed, fired, cut, result>>

Health == Begin("health")
TTSHealth == Begin("tts health")
ChatCompletion == Begin("chat")
ListModels == Begin("models")
CreateEmbedding == Begin("embed")
Synthesize == Begin("speech")
Voices == Begin("voices")

Ends(r) ==
    /\ pc' = "done"
    /\ result' = r
    /\ UNCHANGED <<limit, op, caller, framed>>

\* The call ends because of something else than what the upstream said.
CutShort(r) ==
    /\ cut' = TRUE
    /\ Ends(r)
    /\ UNCHANGED <<head, text>>

Connected ==
    /\ pc = "connecting"
    /\ pc' = "waiting"
    /\ UNCHANGED <<limit, op, caller, head, text, framed, fired, cut, result>>

\* What the transport may return at each stage.
Breaks(p) ==
    {Plain, ConnErr, KernelErr(p)} \cup (IF p = "connecting" THEN {HandshakeErr} ELSE {})

TransportFails ==
    /\ pc \in {"connecting", "waiting", "reply"}
    /\ \E e \in Breaks(pc) : CutShort(Outcome(Quoting(e)))
    /\ UNCHANGED fired

DialExpires ==
    /\ pc = "connecting"
    /\ fired' = TRUE
    /\ CutShort(Outcome(Quoting(DialErr)))

(* What comes is no reply, and the error quotes it: a malformed status line, *)
(* the refusal of a proxy, the reason of an HTTP/2 peer that goes away.  It  *)
(* may spell a status, s.                                                    *)
Malformed(s, marks) ==
    /\ pc \in {"connecting", "waiting", "reply"}
    /\ head' = s
    /\ text' = text \cup marks
    /\ cut' = TRUE
    /\ Ends(Outcome(StatusErr(s, text')))
    /\ UNCHANGED fired

(* The client follows the redirect; an error would quote its URL. *)
Redirected(marks) ==
    /\ pc = "waiting"
    /\ pc' = "connecting"
    /\ text' = marks
    /\ UNCHANGED <<limit, op, caller, head, framed, fired, cut, result>>

(* The status line: the reply of a health check is not read. *)
StatusArrives(s) ==
    /\ pc = "waiting"
    /\ head' = s
    /\ text' = {}
    /\ IF s = 200
       THEN IF op \in HealthOps
            THEN pc' = "done" /\ result' = "ok" /\ UNCHANGED framed
            ELSE pc' = "reply" /\ framed' \in BOOLEAN /\ UNCHANGED result
       ELSE pc' = "error" /\ UNCHANGED <<framed, result>>
    /\ UNCHANGED <<limit, op, caller, fired, cut>>

\* A part of an error's body; a health check discards it.
ErrorText(m) ==
    /\ pc = "error" /\ op \notin HealthOps
    /\ m \notin text
    /\ text' = text \cup {m}
    /\ UNCHANGED <<limit, op, caller, pc, head, framed, fired, cut, result>>

(* ReadAll of the error's body ends; whether by its end or by an error is *)
(* not looked at.                                                         *)
ErrorRead ==
    /\ pc = "error"
    /\ Ends(Outcome(StatusErr(head, text)))
    /\ UNCHANGED <<head, text, fired, cut>>

(* The reply is decoded, or all of the audio is read. *)
ReplyRead ==
    /\ pc = "reply"
    /\ Ends("ok")
    /\ UNCHANGED <<head, text, fired, cut>>

(* The upstream closes the connection in the middle of its reply.  A reply  *)
(* that said where it ends is an unexpected EOF, and so is half a JSON      *)
(* value; ReadAll takes the rest of the audio for all of it otherwise.      *)
ClosedEarly ==
    /\ pc = "reply"
    /\ CutShort(IF op = "speech" /\ ~framed THEN "ok" ELSE Outcome(Plain))
    /\ UNCHANGED fired

\* Faulty variant: what was read before the error counts as the reply.
InterruptedKeepsPart(e) == IF pc = "reply" THEN "ok" ELSE Outcome(Quoting(e))

\* The call is interrupted with e; in the body of an error nobody looks at it.
Interrupted(e) ==
    IF pc = "error" THEN Outcome(StatusErr(head, text)) ELSE Outcome(Quoting(e))

\* A watchdog's probe has a deadline of its own.
Timed == limit[Client(op)] \/ caller = "watchdog"

\* Faulty variant: the timeout covers the call up to the status line only.
ExpiresBeforeHead ==
    /\ pc \in {"connecting", "waiting"}
    /\ Timed
    /\ fired' = TRUE
    /\ CutShort(Interrupted(TimerErr(pc)))

(* The client's timer fires, or the deadline of the watchdog's context. *)
Expires ==
    /\ pc \in {"connecting", "waiting", "reply", "error"}
    /\ Timed
    /\ fired' = TRUE
    /\ CutShort(Interrupted(TimerErr(pc)))

(* The client of the gateway leaves, or the watchdog is stopped. *)
Cancelled ==
    /\ pc \in {"connecting", "waiting", "reply", "error"}
    /\ CutShort(Interrupted(Plain))
    /\ UNCHANGED fired

(* The handler has used the result. *)
Return ==
    /\ pc = "done"
    /\ pc' = "idle"
    /\ head' = NoStatus
    /\ text' = {}
    /\ framed' = TRUE
    /\ fired' = FALSE
    /\ cut' = FALSE
    /\ result' = "none"
    /\ UNCHANGED <<limit, op, caller>>

UNext ==
    \/ Health \/ TTSHealth
    \/ ChatCompletion \/ ListModels \/ CreateEmbedding \/ Synthesize \/ Voices
    \/ Connected \/ TransportFails \/ DialExpires
    \/ \E s \in Statuses \cup {NoStatus}, marks \in SUBSET Marks : Malformed(s, marks)
    \/ \E marks \in SUBSET Marks : Redirected(marks)
    \/ \E s \in Statuses : StatusArrives(s)
    \/ \E m \in Marks : ErrorText(m)
    \/ ErrorRead \/ ReplyRead \/ ClosedEarly
    \/ Expires \/ Cancelled
    \/ Return

(***************************************************************************)
(* A timer that runs fires.  Nothing is assumed of the upstream, and no    *)
(* caller has to leave.                                                    *)
(***************************************************************************)
UFairness == WF_uvars(Expires)

USpec == UInit /\ [][UNext]_uvars /\ UFairness

-----------------------------------------------------------------------------
(* Types of a call's state. *)
UTypeOK ==
    /\ limit \in [{"health", "inference", "tts"} -> BOOLEAN]
    /\ op \in Ops
    /\ caller \in {"watchdog", "request"}
    /\ pc \in {"idle", "connecting", "waiting", "reply", "error", "done"}
    /\ head \in Statuses \cup {NoStatus}
    /\ text \in SUBSET Marks
    /\ {framed, fired, cut} \subseteq BOOLEAN
    /\ result \in {"none", "ok", "timeout", "unavailable", "overloaded", "failed"}
    /\ pc = "reply" => op \notin HealthOps

(* A success is whole: the upstream answered 200, and no timer, departure,  *)
(* broken connection or nonsense cut the reply or the audio short.  Nobody  *)
(* can tell that of audio that ends when the connection does.               *)
OkIsWhole == result = "ok" => head = 200 /\ (cut => op = "speech" /\ ~framed)

\* A timer of the gateway ended the call before the upstream had refused it.
TimedOut == fired /\ head \in {NoStatus, 200}

(* The gateway says 504 when the timer of its client, the deadline of its   *)
(* probe or its dialler ended the call, and otherwise only when the         *)
(* upstream said so itself, by a status or in words that the error has.     *)
TimeoutIsTimeout ==
    /\ TimedOut => result \in {"timeout", "failed"}
    /\ result = "timeout" => TimedOut \/ head = 504 \/ "timeout" \in text

(* The gateway calls a backend overloaded only if the backend said so, by   *)
(* a status or in words that the error has; a backend that cannot be        *)
(* reached, that breaks off or that is silent is not overloaded.            *)
OverloadIsOverload ==
    result = "overloaded" => head \in {429, 502, 503} \/ "overload" \in text

(* The class of an error tells what happened, in both respects. *)
ClassIsTrue == TimeoutIsTimeout /\ OverloadIsOverload

(* A call with a timeout ends, whatever the upstream does: it may accept    *)
(* and say nothing, or never end the body of a reply or of an error.  Every *)
(* probe of the watchdog has one, and every health check of a chat backend; *)
(* the adapter of a TTS backend has only the one that its entry gives.      *)
TimedCallEnds ==
    /\ (pc = "connecting" /\ Timed) ~> pc = "done"
    /\ (pc = "connecting" /\ op = "health") ~> pc = "done"
    /\ (pc = "connecting" /\ caller = "watchdog") ~> pc = "done"

=============================================================================
