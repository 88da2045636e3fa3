-------------------------- MODULE ChatStreamProofs --------------------------
(***************************************************************************)
(* Proofs about one streaming chat completion, for any number of upstream  *)
(* lines: what the relay loop has given to the client is what the upstream *)
(* sent, and a success is complete.                                        *)
(***************************************************************************)
EXTENDS ChatStream, TLAPS

\* The adapter has a line in its hand exactly while it sends.
HandOK ==
    /\ pc = "send" => line # NoLine
    /\ pc \in {"start", "open", "scan"} => line = NoLine

(* A stream starts with the types of STypeOK and empty hands. *)
LEMMA STypeInit == SInit => STypeOK /\ HandOK
<1> SUFFICES ASSUME SInit PROVE STypeOK /\ HandOK
  OBVIOUS
<1>1. <<>> \in Seq(LineKinds) /\ Len(<<>>) = 0
  OBVIOUS
<1>2. lines = <<>> /\ got = <<>>
  BY DEF SInit
<1>3. lines \in Seq(LineKinds) /\ Len(lines) = 0
  BY <1>1, <1>2
<1>4. got \in Seq(0..Len(lines))
  <2>1. \A S : <<>> \in Seq(S)
    OBVIOUS
  <2> QED BY <1>2, <2>1
<1>5. /\ pc = "start" /\ upEnd = "open" /\ torn = FALSE /\ read = 0 /\ line = NoLine
      /\ gone = FALSE /\ result = "none"
  BY DEF SInit
<1>6. read \in 0..Len(lines) /\ Len(lines) <= MaxLines
  BY <1>3, <1>5, ChatStreamAssumption
<1>7. torn \in BOOLEAN /\ gone \in BOOLEAN
  BY <1>5
<1>8. HandOK
  BY <1>5 DEF HandOK
<1>9. /\ pc \in {"start", "open", "scan", "send", "over"}
      /\ upEnd \in {"open", "eof", "broken", "toolong"}
      /\ line \in {NoLine} \cup 0..Len(lines)
      /\ result \in {"none", "ok", "error"}
  BY <1>5
<1> QED BY <1>3, <1>4, <1>6, <1>7, <1>8, <1>9 DEF STypeOK

(* Every step takes a line into an empty hand or out of a full one. *)
LEMMA HandStep == STypeOK /\ HandOK /\ [SNext]_svars => HandOK'
<1> SUFFICES ASSUME STypeOK, HandOK, [SNext]_svars PROVE HandOK'
  OBVIOUS
<1>1. CASE \/ \E k \in LineKinds : UpstreamSends(k)
           \/ UpstreamEnds \/ ClientLeaves \/ Over \/ UNCHANGED svars
  BY <1>1 DEF UpstreamSends, UpstreamEnds, ClientLeaves, Over, svars, HandOK
<1>2. CASE HandlerStep
  <2>1. CASE ScanLine
    <3>1. read + 1 # NoLine
      BY DEF STypeOK, NoLine
    <3> QED BY <2>1, <3>1 DEF ScanLine, HandOK
  <2>2. CASE Begin \/ Connect \/ ConnectFails \/ ScanEnds \/ ScanAborted
    BY <2>2 DEF Begin, Connect, ConnectFails, ScanEnds, ScanAborted, Return, HandOK
  <2>3. CASE ScanTorn \/ Send \/ SendFails
    BY <2>3 DEF ScanTorn, Send, SendFails, Return, HandOK, Torn, NoLine
  <2> QED BY <1>2, <2>1, <2>2, <2>3 DEF HandlerStep
<1> QED BY <1>1, <1>2 DEF SNext

(* Every step keeps the types. *)
LEMMA STypeStep == STypeOK /\ HandOK /\ [SNext]_svars => STypeOK'
<1> SUFFICES ASSUME STypeOK, HandOK, [SNext]_svars PROVE STypeOK'
  OBVIOUS
<1> USE DEF STypeOK, upvars
<1>1. ASSUME NEW k \in LineKinds, UpstreamSends(k) PROVE STypeOK'
  <2>1. /\ Append(lines, k) \in Seq(LineKinds) /\ Len(Append(lines, k)) = Len(lines) + 1
        /\ Len(lines) + 1 <= MaxLines
    BY <1>1, ChatStreamAssumption DEF UpstreamSends
  <2>2. 0..Len(lines) \subseteq 0..(Len(lines) + 1)
    BY <2>1
  <2>3. got \in Seq(0..(Len(lines) + 1))
    BY <2>2
  <2> QED BY <1>1, <2>1, <2>2, <2>3 DEF UpstreamSends
<1>2. CASE UpstreamEnds
  BY <1>2 DEF UpstreamEnds
<1>3. CASE ClientLeaves
  BY <1>3 DEF ClientLeaves
<1>4. CASE HandlerStep
  <2>1. CASE Begin
    BY <2>1 DEF Begin
  <2>2. CASE Connect
    BY <2>2 DEF Connect
  <2>3. CASE ConnectFails
    BY <2>3 DEF ConnectFails, Return
  <2>4. CASE ScanLine
    <3>1. read + 1 \in 0..Len(lines)
      BY <2>4 DEF ScanLine
    <3> QED BY <2>4, <3>1 DEF ScanLine
  <2>5. CASE ScanTorn
    <3>1. Torn \in 0..Len(lines)
      BY DEF Torn
    <3> QED BY <2>5, <3>1 DEF ScanTorn
  <2>6. CASE ScanEnds
    BY <2>6 DEF ScanEnds, Return
  <2>7. CASE ScanAborted
    BY <2>7 DEF ScanAborted, Return
  <2>8. CASE Send
    <3>1. line \in 0..Len(lines) /\ Append(got, line) \in Seq(0..Len(lines))
      BY <2>8 DEF Send, HandOK
    <3> QED BY <2>8, <3>1 DEF Send, Return
  <2>9. CASE SendFails
    BY <2>9 DEF SendFails, Return
  <2> QED BY <1>4, <2>1, <2>2, <2>3, <2>4, <2>5, <2>6, <2>7, <2>8, <2>9 DEF HandlerStep
<1>5. CASE Over \/ UNCHANGED svars
  BY <1>5 DEF Over, svars
<1> QED BY <1>1, <1>2, <1>3, <1>4, <1>5 DEF SNext

-----------------------------------------------------------------------------
(* What was relayed. *)

\* An unfinished line comes from a broken body, and nothing comes after it.
TornOK ==
    /\ torn => upEnd = "broken"
    /\ (\E i \in DOMAIN Relayed : Relayed[i] = Torn) =>
         read = Len(lines) /\ ~torn /\ upEnd = "broken"

RelayInv == STypeOK /\ HandOK /\ TornOK /\ RelaysInOrder

(* One more line that is no data: the same events. *)
LEMMA OtherLine ==
    ASSUME NEW s, NEW n \in Nat, lines[n + 1] = "other", EventsOf(s, n)
    PROVE  EventsOf(s, n + 1)
<1>1. {i \in 1..(n + 1) : lines[i] # "other"} = {i \in 1..n : lines[i] # "other"}
  <2>1. \A i : i \in 1..(n + 1) <=> i \in 1..n \/ i = n + 1
    OBVIOUS
  <2> QED BY <2>1
<1> QED BY <1>1 DEF EventsOf

(* One more data line: one more event. *)
LEMMA DataLine ==
    ASSUME NEW s \in Seq(Nat), NEW n \in Nat, lines[n + 1] # "other", EventsOf(s, n),
           \A i \in DOMAIN s : s[i] # Torn
    PROVE  EventsOf(Append(s, n + 1), n + 1)
<1> DEFINE t == Append(s, n + 1)
           Val(u) == {u[i] : i \in DOMAIN u}
<1>1. Len(t) = Len(s) + 1 /\ DOMAIN t = 1..(Len(s) + 1) /\ t[Len(s) + 1] = n + 1
  OBVIOUS
<1>2. \A i \in DOMAIN s : t[i] = s[i] /\ i \in 1..Len(s)
  OBVIOUS
<1>3. Val(t) = Val(s) \cup {n + 1}
  BY <1>1, <1>2
<1>4. {i \in 1..(n + 1) : lines[i] # "other"} = {i \in 1..n : lines[i] # "other"} \cup {n + 1}
  <2>1. \A i : i \in 1..(n + 1) <=> i \in 1..n \/ i = n + 1
    OBVIOUS
  <2> QED BY <2>1
<1>5. Val(t) \ {Torn} = {i \in 1..(n + 1) : lines[i] # "other"}
  <2>1. Val(s) \ {Torn} = {i \in 1..n : lines[i] # "other"} /\ n + 1 # Torn
    BY DEF EventsOf, Torn
  <2> HIDE DEF Val
  <2> QED BY <1>3, <1>4, <2>1
<1>6. \A i \in DOMAIN s : s[i] \in 1..n
  BY DEF EventsOf
<1>7. ASSUME NEW i \in DOMAIN t, NEW j \in DOMAIN t, i < j
      PROVE  t[i] # Torn /\ (t[i] < t[j] \/ t[j] = Torn)
  <2>1. i \in DOMAIN s /\ t[i] = s[i] /\ s[i] \in 1..n
    BY <1>1, <1>2, <1>6, <1>7
  <2>2. CASE j \in DOMAIN s
    BY <1>2, <1>7, <2>1, <2>2 DEF EventsOf
  <2>3. CASE j = Len(s) + 1
    BY <1>1, <2>1, <2>3
  <2> QED BY <1>1, <2>1, <2>2, <2>3
<1> HIDE DEF t
<1> QED BY <1>5, <1>7 DEF EventsOf, t

(* The unfinished line may come last. *)
LEMMA TornLine ==
    ASSUME NEW s \in Seq(Nat), NEW n \in Nat, EventsOf(s, n), \A i \in DOMAIN s : s[i] # Torn
    PROVE  EventsOf(Append(s, Torn), n)
<1> DEFINE t == Append(s, Torn)
           Val(u) == {u[i] : i \in DOMAIN u}
<1>1. Len(t) = Len(s) + 1 /\ DOMAIN t = 1..(Len(s) + 1) /\ t[Len(s) + 1] = Torn
  OBVIOUS
<1>2. \A i \in DOMAIN s : t[i] = s[i] /\ i \in 1..Len(s)
  OBVIOUS
<1>3. Val(t) = Val(s) \cup {Torn}
  BY <1>1, <1>2
<1>4. Val(t) \ {Torn} = {i \in 1..n : lines[i] # "other"}
  BY <1>3 DEF EventsOf
<1>5. ASSUME NEW i \in DOMAIN t, NEW j \in DOMAIN t, i < j
      PROVE  t[i] # Torn /\ (t[i] < t[j] \/ t[j] = Torn)
  <2>1. i \in DOMAIN s /\ t[i] = s[i]
    BY <1>1, <1>2, <1>5
  <2>2. CASE j \in DOMAIN s
    BY <1>2, <1>5, <2>1, <2>2 DEF EventsOf
  <2>3. CASE j = Len(s) + 1
    BY <1>1, <2>1, <2>3
  <2> QED BY <1>1, <2>1, <2>2, <2>3
<1> HIDE DEF t
<1> QED BY <1>4, <1>5 DEF EventsOf, t

(* Nothing is relayed before the upstream is asked. *)
LEMMA RelayInit == SInit => RelayInv
<1> SUFFICES ASSUME SInit PROVE RelayInv
  OBVIOUS
<1>1. got = <<>> /\ line = NoLine /\ read = 0 /\ torn = FALSE
  BY DEF SInit
<1>2. Relayed = <<>> /\ DOMAIN Relayed = {}
  BY <1>1 DEF Relayed
<1>3. TornOK
  BY <1>1, <1>2 DEF TornOK
<1>4. RelaysInOrder
  BY <1>1, <1>2 DEF RelaysInOrder, EventsOf
<1> QED BY <1>3, <1>4, STypeInit DEF RelayInv

(* A step that relays nothing and reads nothing keeps what was relayed. *)
LEMMA SameRelayed ==
    ASSUME RelayInv, STypeOK', HandOK', Relayed' = Relayed, read' = read, Len(lines') >= Len(lines),
           \A i \in 1..Len(lines) : lines'[i] = lines[i],
           (torn \/ \E i \in DOMAIN Relayed : Relayed[i] = Torn) => UNCHANGED <<lines, upEnd>>,
           torn' => torn \/ (upEnd' = "broken" /\ ~\E i \in DOMAIN Relayed : Relayed[i] = Torn)
    PROVE  RelayInv'
<1> USE DEF RelayInv
<1>1. TornOK'
  BY DEF TornOK
<1>2. \A i \in 1..read : lines'[i] = lines[i]
  BY DEF STypeOK
<1>3. RelaysInOrder'
  BY <1>2 DEF RelaysInOrder, EventsOf
<1> QED BY <1>1, <1>3

(* The relay loop keeps the order, whatever the upstream and the client do. *)
LEMMA RelayStep == RelayInv /\ [SNext]_svars => RelayInv'
<1> SUFFICES ASSUME RelayInv, [SNext]_svars PROVE RelayInv'
  OBVIOUS
<1> USE DEF RelayInv
<1>t. STypeOK' /\ HandOK'
  BY STypeStep, HandStep
<1>0. ASSUME UNCHANGED <<read, line, got, lines, upEnd, torn>> PROVE RelayInv'
  BY <1>t, <1>0, SameRelayed DEF Relayed, STypeOK
<1>1. ASSUME NEW k \in LineKinds, UpstreamSends(k) PROVE RelayInv'
  <2>1. /\ upEnd = "open" /\ UNCHANGED <<read, line, got, torn, upEnd>>
        /\ lines' = Append(lines, k) /\ lines \in Seq(LineKinds)
    BY <1>1 DEF UpstreamSends, STypeOK
  <2>2. Len(lines') >= Len(lines) /\ \A i \in 1..Len(lines) : lines'[i] = lines[i]
    BY <2>1
  <2>3. ~torn /\ ~\E i \in DOMAIN Relayed : Relayed[i] = Torn
    BY <2>1 DEF TornOK
  <2>4. Relayed' = Relayed
    BY <2>1 DEF Relayed
  <2> QED BY <1>t, <2>1, <2>2, <2>3, <2>4, SameRelayed
<1>2. CASE UpstreamEnds
  <2>1. /\ upEnd = "open" /\ UNCHANGED <<read, line, got, lines>>
        /\ torn' => upEnd' = "broken"
    BY <1>2 DEF UpstreamEnds
  <2>2. ~torn /\ ~\E i \in DOMAIN Relayed : Relayed[i] = Torn
    BY <2>1 DEF TornOK
  <2>3. Relayed' = Relayed
    BY <2>1 DEF Relayed
  <2> QED BY <1>t, <2>1, <2>2, <2>3, SameRelayed DEF STypeOK
<1>3. CASE ClientLeaves \/ Over \/ UNCHANGED svars
  BY <1>0, <1>3 DEF ClientLeaves, Over, svars, upvars
<1>4. CASE HandlerStep
  <2>1. CASE Begin \/ Connect \/ ConnectFails \/ ScanEnds \/ ScanAborted \/ SendFails
    BY <1>0, <2>1 DEF Begin, Connect, ConnectFails, ScanEnds, ScanAborted, SendFails, upvars
  <2>2. CASE ScanLine
    <3>1. /\ line = NoLine /\ Relayed = got /\ read < Len(lines) /\ read \in Nat
          /\ read' = read + 1 /\ UNCHANGED <<lines, upEnd, torn, got>>
          /\ got \in Seq(Nat)
      <4>1. 0..Len(lines) \subseteq Nat
        OBVIOUS
      <4>2. got \in Seq(Nat)
        BY <4>1 DEF STypeOK
      <4> QED BY <2>2, <4>2 DEF ScanLine, HandOK, Relayed, STypeOK, upvars
    <3>2. \A i \in DOMAIN got : got[i] # Torn
      BY <3>1 DEF TornOK, STypeOK
    <3>3. CASE lines[read + 1] = "other"
      <4>1. Relayed' = got
        BY <2>2, <3>1, <3>3 DEF ScanLine, Relayed
      <4>2. EventsOf(got, read + 1)
        BY <3>1, <3>3, OtherLine DEF RelaysInOrder
      <4>3. RelaysInOrder'
        BY <3>1, <4>1, <4>2 DEF RelaysInOrder, EventsOf
      <4> QED BY <1>t, <3>1, <3>2, <4>1, <4>3 DEF TornOK
    <3>4. CASE lines[read + 1] # "other"
      <4>1. Relayed' = Append(got, read + 1) /\ read + 1 # Torn
        BY <2>2, <3>1, <3>4 DEF ScanLine, Relayed, NoLine, Torn
      <4>2. EventsOf(Append(got, read + 1), read + 1)
        BY <3>1, <3>2, <3>4, DataLine DEF RelaysInOrder
      <4>3. RelaysInOrder'
        BY <3>1, <4>1, <4>2 DEF RelaysInOrder, EventsOf
      <4>4. \A i \in DOMAIN Relayed' : Relayed'[i] # Torn
        BY <3>1, <3>2, <4>1
      <4> QED BY <1>t, <3>1, <4>3, <4>4 DEF TornOK
    <3> QED BY <3>3, <3>4
  <2>3. CASE ScanTorn
    <3>1. /\ line = NoLine /\ Relayed = got /\ read = Len(lines) /\ read \in Nat /\ torn
          /\ torn' = FALSE /\ line' = Torn /\ UNCHANGED <<lines, upEnd, got, read>>
          /\ got \in Seq(Nat) /\ upEnd = "broken"
      <4>1. 0..Len(lines) \subseteq Nat
        OBVIOUS
      <4>2. got \in Seq(Nat)
        BY <4>1 DEF STypeOK
      <4> QED BY <2>3, <4>2 DEF ScanTorn, HandOK, Relayed, STypeOK, TornOK
    <3>2. \A i \in DOMAIN got : got[i] # Torn
      BY <3>1 DEF TornOK
    <3>3. Relayed' = Append(got, Torn)
      BY <3>1 DEF Relayed, NoLine, Torn
    <3>4. EventsOf(Append(got, Torn), read)
      BY <3>1, <3>2, TornLine DEF RelaysInOrder
    <3>5. RelaysInOrder'
      BY <3>1, <3>3, <3>4 DEF RelaysInOrder, EventsOf
    <3> QED BY <1>t, <3>1, <3>5 DEF TornOK
  <2>4. CASE Send
    <3>1. line # NoLine /\ line' = NoLine /\ got' = Append(got, line)
          /\ UNCHANGED <<read, lines, upEnd, torn>>
      BY <2>4 DEF Send, HandOK, upvars
    <3>2. Relayed' = Relayed
      BY <3>1 DEF Relayed
    <3> QED BY <1>t, <3>1, <3>2, SameRelayed DEF STypeOK
  <2> QED BY <1>4, <2>1, <2>2, <2>3, <2>4 DEF HandlerStep
<1> QED BY <1>1, <1>2, <1>3, <1>4 DEF SNext

-----------------------------------------------------------------------------
(* [DONE] and success. *)

EndInv == RelayInv /\ DoneIsLast /\ SuccessIsComplete /\ (result = "ok" => pc = "over")

(* Events that were given to the client are lines that were read. *)
LEMMA GotWasRead ==
    ASSUME RelayInv, NEW i \in DOMAIN got
    PROVE  got[i] = Torn \/ got[i] \in 1..Len(lines)
<1>1. i \in DOMAIN Relayed /\ Relayed[i] = got[i]
  BY DEF RelayInv, STypeOK, Relayed
<1>2. got[i] \in 0..Len(lines)
  BY DEF RelayInv, STypeOK
<1> QED BY <1>2 DEF Torn

(* Before the relay begins nothing has been sent and no result is there.    *)
LEMMA EndInit == SInit => EndInv
<1> SUFFICES ASSUME SInit PROVE EndInv
  OBVIOUS
<1>1. got = <<>> /\ result = "none"
  BY DEF SInit
<1> QED BY <1>1, RelayInit DEF EndInv, DoneIsLast, SuccessIsComplete

(* The loop ends at the first [DONE], and reports a success only there and  *)
(* at the end of the body.                                                  *)
LEMMA EndStep == EndInv /\ [SNext]_svars => EndInv'
<1> SUFFICES ASSUME EndInv, [SNext]_svars PROVE EndInv'
  OBVIOUS
<1> USE DEF EndInv
<1>r. RelayInv /\ RelayInv'
  BY RelayStep
<1>1. CASE pc = "over"
  <2>1. UNCHANGED <<pc, lines, upEnd, got, result>>
    BY <1>1 DEF SNext, HandlerStep, UpstreamSends, UpstreamEnds, ClientLeaves, Begin, Connect,
                ConnectFails, ScanLine, ScanTorn, ScanEnds, ScanAborted, Send, SendFails, Over,
                svars, upvars, Connected
  <2> QED BY <1>r, <2>1 DEF DoneIsLast, SuccessIsComplete, IsDone, EventsOf
<1>2. CASE pc # "over"
  <2>0. result # "ok" /\ \A i \in DOMAIN got : ~IsDone(got[i])
    BY <1>2 DEF DoneIsLast
  <2>1. ASSUME UNCHANGED got, \A i \in 1..Len(lines) : lines'[i] = lines[i], result' # "ok"
        PROVE  EndInv'
    <3>1. \A i \in DOMAIN got' : ~IsDone(got[i])'
      BY <1>r, <2>0, <2>1, GotWasRead DEF IsDone
    <3> QED BY <1>r, <2>1, <3>1 DEF DoneIsLast, SuccessIsComplete
  <2>2. ASSUME NEW k \in LineKinds, UpstreamSends(k) PROVE EndInv'
    <3>1. \A i \in 1..Len(lines) : lines'[i] = lines[i]
      BY <2>2 DEF UpstreamSends, RelayInv, STypeOK
    <3> QED BY <2>0, <2>1, <2>2, <3>1 DEF UpstreamSends
  <2>3. CASE UpstreamEnds \/ ClientLeaves \/ Over \/ UNCHANGED svars
    BY <2>0, <2>1, <2>3 DEF UpstreamEnds, ClientLeaves, Over, svars, upvars
  <2>4. CASE \/ Begin \/ Connect \/ ConnectFails \/ ScanLine \/ ScanTorn
             \/ ScanAborted \/ SendFails
    BY <2>0, <2>1, <2>4 DEF Begin, Connect, ConnectFails, ScanLine, ScanTorn, ScanAborted,
                            SendFails, Return, upvars
  <2>5. CASE ScanEnds
    <3>1. /\ pc = "scan" /\ line = NoLine /\ read = Len(lines) /\ UNCHANGED <<lines, upEnd, got>>
          /\ result' = (IF upEnd = "eof" THEN "ok" ELSE "error") /\ pc' = "over"
      BY <2>5, <1>r DEF ScanEnds, Return, RelayInv, HandOK, upvars
    <3>2. EventsOf(got, Len(lines))
      BY <1>r, <3>1 DEF RelayInv, RelaysInOrder, Relayed
    <3>3. upEnd = "eof" => \A i \in DOMAIN got : got[i] # Torn
      BY <1>r, <3>1 DEF RelayInv, TornOK, Relayed
    <3>4. DoneIsLast'
      BY <2>0, <3>1 DEF DoneIsLast, IsDone
    <3>5. SuccessIsComplete'
      BY <3>1, <3>2, <3>3 DEF SuccessIsComplete, EventsOf
    <3> QED BY <1>r, <3>1, <3>4, <3>5
  <2>6. CASE Send
    <3>1. /\ line # NoLine /\ got' = Append(got, line) /\ UNCHANGED <<lines, upEnd>>
          /\ IF IsDone(line) THEN pc' = "over" /\ result' = "ok" ELSE UNCHANGED result
      BY <2>6, <1>r DEF Send, Return, RelayInv, HandOK, upvars
    <3>2. /\ Len(got') = Len(got) + 1 /\ got'[Len(got')] = line /\ got' # <<>>
          /\ DOMAIN got' = 1..(Len(got) + 1) /\ Len(got) \in Nat
          /\ \A i \in DOMAIN got : got'[i] = got[i]
          /\ DOMAIN got = 1..Len(got)
      BY <1>r, <3>1 DEF RelayInv, STypeOK
    <3>3. \A i \in DOMAIN got' : IsDone(got[i])' <=> got'[i] # Torn /\ lines[got'[i]] = "done"
      BY <3>1 DEF IsDone
    <3>4. ASSUME NEW i \in DOMAIN got', IsDone(got[i])' PROVE i = Len(got') /\ pc' = "over"
      <4>1. CASE i \in DOMAIN got
        BY <2>0, <3>2, <3>3, <3>4, <4>1 DEF IsDone
      <4>2. CASE i = Len(got')
        BY <3>1, <3>2, <3>3, <3>4, <4>2 DEF IsDone
      <4> QED BY <3>2, <4>1, <4>2
    <3>5. DoneIsLast'
      BY <3>4 DEF DoneIsLast
    <3>6. SuccessIsComplete' /\ (result' = "ok" => pc' = "over")
      BY <2>0, <3>1, <3>2 DEF SuccessIsComplete, IsDone
    <3> QED BY <1>r, <3>5, <3>6
  <2> QED BY <2>2, <2>3, <2>4, <2>5, <2>6 DEF SNext, HandlerStep
<1> QED BY <1>1, <1>2

(* What a relay knows about its end holds in every reachable state. *)
LEMMA EndAlways == SSpec => []EndInv
BY EndInit, EndStep, PTL DEF SSpec

(* The stream's state always has its type (handleStream, the relay loop).   *)
THEOREM StreamType == SSpec => []STypeOK
<1>1. EndInv => STypeOK
  BY DEF EndInv, RelayInv
<1> QED BY <1>1, EndAlways, PTL

(* The client's events are the upstream's data lines, each once, in order,  *)
(* up to the first [DONE] (ChatCompletionStream in ollama.go and mlx.go).   *)
THEOREM EventsAreFaithful == SSpec => []EventsFaithful
<1>1. EndInv => EventsFaithful
  BY DEF EndInv, RelayInv, EventsFaithful
<1> QED BY <1>1, EndAlways, PTL

(* A stream reported as a success gave the client all of it.                *)
THEOREM SuccessCompletes == SSpec => []SuccessIsComplete
<1>1. EndInv => SuccessIsComplete
  BY DEF EndInv
<1> QED BY <1>1, EndAlways, PTL

=============================================================================
