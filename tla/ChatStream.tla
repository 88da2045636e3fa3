----------------------------- MODULE ChatStream -----------------------------
(***************************************************************************)
(* One streaming chat completion: handleStream (internal/handler/chat.go)  *)
(* and the relay loop of the adapters (ChatCompletionStream in             *)
(* internal/backend/ollama.go and mlx.go, the same code but for names).    *)
(* The handler answers 200 first, then connects, then relays the upstream  *)
(* lines that begin with "data: " as events until [DONE], the end of the   *)
(* upstream body, an error, or the client's departure.                     *)
(*                                                                         *)
(* Lines are numbered as the upstream sends them.  The scanner hands out   *)
(* what is left in its buffer when a read fails, so a line the upstream    *)
(* did not finish is a line too: Torn.                                     *)
(***************************************************************************)
EXTENDS Integers, Sequences

CONSTANT MaxLines   \* how many lines the upstream sends at most

ASSUME ChatStreamAssumption == MaxLines \in Nat

LineKinds == {"data", "done", "other"}
Torn == 0           \* stands for the number of an unfinished data line
NoLine == -1

VARIABLES
    pc,         \* start, open, scan, send or over
    lines,      \* kinds of the lines the upstream has sent
    upEnd,      \* the upstream body is open, ended, broken, or has a line
                \* beyond the scanner's 1 MiB
    torn,       \* the broken body ends within a data line not yet scanned
    read,       \* how many lines the scanner has returned
    line,       \* the line being sent
    got,        \* the events the client got
    gone,       \* the client has left, or a write to it ran into the server's
                \* write timeout: net/http cancels the request context
    result      \* what ChatCompletionStream returned

upvars == <<lines, upEnd, torn>>
svars  == <<pc, upvars, read, line, got, gone, result>>

SInit ==
    /\ pc = "start"
    /\ lines = <<>>
    /\ upEnd = "open"
    /\ torn = FALSE
    /\ read = 0
    /\ line = NoLine
    /\ got = <<>>
    /\ gone = FALSE
    /\ result = "none"

-----------------------------------------------------------------------------
(* The upstream server and the client. *)

Connected == pc \in {"scan", "send"}

UpstreamSends(k) ==
    /\ Connected /\ upEnd = "open" /\ Len(lines) < MaxLines
    /\ lines' = Append(lines, k)
    /\ UNCHANGED <<pc, upEnd, torn, read, line, got, gone, result>>

UpstreamEnds ==
    /\ Connected /\ upEnd = "open"
    /\ upEnd' \in {"eof", "broken", "toolong"}
    /\ torn' \in {FALSE, upEnd' = "broken"}
    /\ UNCHANGED <<pc, lines, read, line, got, gone, result>>

ClientLeaves ==
    /\ pc # "over" /\ ~gone
    /\ gone' = TRUE
    /\ UNCHANGED <<pc, upvars, read, line, got, result>>

-----------------------------------------------------------------------------
(* The handler and the adapter. *)

Return(res) == pc' = "over" /\ result' = res

\* The status 200 and the event-stream headers are flushed.
Begin ==
    /\ pc = "start"
    /\ pc' = "open"
    /\ UNCHANGED <<upvars, read, line, got, gone, result>>

Connect ==
    /\ pc = "open" /\ ~gone
    /\ pc' = "scan"
    /\ UNCHANGED <<upvars, read, line, got, gone, result>>

\* The upstream refuses, answers with another status, or the client is gone.
ConnectFails ==
    /\ pc = "open"
    /\ Return("error")
    /\ UNCHANGED <<upvars, read, line, got, gone>>

\* A line that is not data is skipped.
ScanLine ==
    /\ pc = "scan" /\ read < Len(lines)
    /\ read' = read + 1
    /\ IF lines[read + 1] = "other"
       THEN UNCHANGED <<pc, line>>
       ELSE pc' = "send" /\ line' = read + 1
    /\ UNCHANGED <<upvars, got, gone, result>>

\* The unfinished line is handed out before the error.
ScanTorn ==
    /\ pc = "scan" /\ read = Len(lines) /\ torn
    /\ torn' = FALSE
    /\ pc' = "send" /\ line' = Torn
    /\ UNCHANGED <<lines, upEnd, read, got, gone, result>>

\* Faulty variant: an error of the scanner is not returned.
ScanEndsQuietly ==
    /\ pc = "scan" /\ read = Len(lines) /\ ~torn /\ upEnd # "open"
    /\ Return("ok")
    /\ UNCHANGED <<upvars, read, line, got, gone>>

ScanEnds ==
    /\ pc = "scan" /\ read = Len(lines) /\ ~torn /\ upEnd # "open"
    /\ Return(IF upEnd = "eof" THEN "ok" ELSE "error")
    /\ UNCHANGED <<upvars, read, line, got, gone>>

\* Faulty variant: the upstream request is made without the client's context.
ScanNotAborted ==
    /\ pc = "scan" /\ gone /\ upEnd # "open"
    /\ Return("error")
    /\ UNCHANGED <<upvars, read, line, got, gone>>

\* The upstream request has the client's context: reading fails when it ends.
ScanAborted ==
    /\ pc = "scan" /\ gone
    /\ Return("error")
    /\ UNCHANGED <<upvars, read, line, got, gone>>

IsDone(i) == i # Torn /\ lines[i] = "done"

\* Faulty variant: the loop goes on after [DONE].
SendNoBreak ==
    /\ pc = "send" /\ ~gone
    /\ got' = Append(got, line)
    /\ line' = NoLine
    /\ pc' = "scan"
    /\ UNCHANGED <<upvars, read, gone, result>>

\* The event is written and flushed; [DONE] ends the loop.
Send ==
    /\ pc = "send" /\ ~gone
    /\ got' = Append(got, line)
    /\ line' = NoLine
    /\ IF IsDone(line) THEN Return("ok") ELSE pc' = "scan" /\ UNCHANGED result
    /\ UNCHANGED <<upvars, read, gone>>

SendFails ==
    /\ pc = "send" /\ gone
    /\ Return("error")
    /\ UNCHANGED <<upvars, read, line, got, gone>>

-----------------------------------------------------------------------------
HandlerStep ==
    \/ Begin
    \/ Connect
    \/ ConnectFails
    \/ ScanLine
    \/ ScanTorn
    \/ ScanEnds
    \/ ScanAborted
    \/ Send
    \/ SendFails

Over == pc = "over" /\ UNCHANGED svars

SNext ==
    \/ \E k \in LineKinds : UpstreamSends(k)
    \/ UpstreamEnds
    \/ ClientLeaves
    \/ HandlerStep
    \/ Over

\* The handler's goroutine runs.  Nothing is assumed of the upstream, which
\* may be silent for ever, or of the client.
SSpec == SInit /\ [][SNext]_svars /\ WF_svars(HandlerStep)

-----------------------------------------------------------------------------
(* Types of the stream's state. *)
STypeOK ==
    /\ pc \in {"start", "open", "scan", "send", "over"}
    /\ lines \in Seq(LineKinds) /\ Len(lines) <= MaxLines
    /\ upEnd \in {"open", "eof", "broken", "toolong"}
    /\ torn \in BOOLEAN
    /\ read \in 0..Len(lines)
    /\ line \in {NoLine} \cup 0..Len(lines)
    /\ got \in Seq(0..Len(lines))
    /\ gone \in BOOLEAN
    /\ result \in {"none", "ok", "error"}

\* The events and the one still in the adapter's hand.
Relayed == IF line = NoLine THEN got ELSE Append(got, line)

\* The sequence s has every data line among the first n, once, in order, and
\* nothing else but perhaps an unfinished line at the end.
EventsOf(s, n) ==
    /\ {s[i] : i \in DOMAIN s} \ {Torn} = {i \in 1..n : lines[i] # "other"}
    /\ \A i, j \in DOMAIN s : i < j => s[i] # Torn /\ (s[i] < s[j] \/ s[j] = Torn)

(* The client's events are the upstream's: every data line scanned so far,   *)
(* in order, none lost, doubled or invented, whatever is skipped in between; *)
(* only an unfinished line may follow them.                                  *)
RelaysInOrder == EventsOf(Relayed, read)

(* Nothing follows [DONE].                                                   *)
DoneIsLast == \A i \in DOMAIN got : IsDone(got[i]) => i = Len(got) /\ pc = "over"

(* The client gets the upstream's events up to the first [DONE], and nothing *)
(* else but an unfinished line.                                              *)
EventsFaithful == RelaysInOrder /\ DoneIsLast

(* A stream that is reported as a success, and not as an error in the log,   *)
(* gave the client all the upstream had sent up to its end or its [DONE].    *)
SuccessIsComplete ==
    result = "ok" =>
        \/ got # <<>> /\ IsDone(got[Len(got)])
        \/ upEnd = "eof" /\ EventsOf(got, Len(lines)) /\ \A i \in DOMAIN got : got[i] # Torn

(* The handler ends when the client leaves, although the upstream may be     *)
(* silent, and when the upstream body ends.                                  *)
StreamEnds == gone \/ upEnd # "open" ~> pc = "over"

=============================================================================
