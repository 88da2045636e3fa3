--------------------------- MODULE PipelineProofs ---------------------------
(***************************************************************************)
(* Proofs about the middleware, for any number of concurrent requests, of  *)
(* keys and of groups of endpoints, any burst and any number of refills.   *)
(***************************************************************************)
EXTENDS Pipeline, FiniteSetTheorems, TLAPS

Contexts == [id : BOOLEAN, key : Keys \cup {NoKey}]
Modes == {"new", "call", "return", "panic", "done"}

\* What a request has of its own.
Own(q) == <<route[q], cred[q], frames[q], mode[q], wire[q], captured[q], panicked[q],
            paid[q], line[q]>>

(* The layers, by their depth. *)
LEMMA LayerDepth ==
    ASSUME PTypeOK, NEW r \in Requests, NEW m
    PROVE  /\ Depth(r) \in 0..7
           /\ Runs(r, "request_id", m) <=> mode[r] = m /\ Depth(r) = 1
           /\ Runs(r, "recover", m) <=> mode[r] = m /\ Depth(r) = 2
           /\ Runs(r, "metrics", m) <=> mode[r] = m /\ Depth(r) = 3
           /\ Runs(r, "logging", m) <=> mode[r] = m /\ Depth(r) = 4
           /\ Runs(r, "auth", m) <=> mode[r] = m /\ Depth(r) = 5
           /\ Runs(r, "ratelimit", m) <=> mode[r] = m /\ Depth(r) = 6
           /\ Runs(r, "handler", m) <=> mode[r] = m /\ Depth(r) = 7
<1>1. Len(Layers) = 7
  BY DEF Layers
<1>2. Depth(r) \in 0..7
  <2>1. frames \in [Requests -> Seq(Contexts)] /\ Depth(r) <= Len(Layers)
    BY DEF PTypeOK, Contexts
  <2>2. frames[r] \in Seq(Contexts)
    BY <2>1
  <2>3. Depth(r) \in Nat
    BY <2>2 DEF Depth
  <2> QED BY <1>1, <2>1, <2>3
<1>3. /\ Layers[1] = "request_id" /\ Layers[2] = "recover" /\ Layers[3] = "metrics"
      /\ Layers[4] = "logging" /\ Layers[5] = "auth" /\ Layers[6] = "ratelimit"
      /\ Layers[7] = "handler"
  BY DEF Layers
<1> QED BY <1>2, <1>3 DEF Runs

(* A call enters one layer more with the given context. *)
LEMMA CallEnters ==
    ASSUME PTypeOK, NEW r \in Requests, NEW ctx \in Contexts, Call(r, ctx), Depth(r) < 7
    PROVE  /\ frames' \in [Requests -> Seq(Contexts)]
           /\ Depth(r)' = Depth(r) + 1
           /\ frames'[r][Depth(r) + 1] = ctx
           /\ \A i \in 1..Depth(r) : frames'[r][i] = frames[r][i]
           /\ \A q \in Requests \ {r} : frames'[q] = frames[q]
           /\ \A q \in Requests : Depth(q)' <= Len(Layers)
<1>1. frames \in [Requests -> Seq(Contexts)] /\ \A q \in Requests : Depth(q) <= Len(Layers)
  BY DEF PTypeOK, Contexts
<1>2. frames' = [frames EXCEPT ![r] = Append(frames[r], ctx)]
  BY DEF Call
<1>3. Append(frames[r], ctx) \in Seq(Contexts)
  BY <1>1
<1>4. Len(Layers) = 7
  BY DEF Layers
<1> QED BY <1>1, <1>2, <1>3, <1>4 DEF Depth

\* The innermost layer of r ends.
Pops(r) == frames' = [frames EXCEPT ![r] = SubSeq(@, 1, Depth(r) - 1)]

(* A layer that ends gives back to its caller. *)
LEMMA LeaveReturns ==
    ASSUME PTypeOK, NEW r \in Requests, Depth(r) > 0, Pops(r)
    PROVE  /\ frames' \in [Requests -> Seq(Contexts)]
           /\ Depth(r)' = Depth(r) - 1
           /\ \A i \in 1..(Depth(r) - 1) : frames'[r][i] = frames[r][i]
           /\ \A q \in Requests \ {r} : frames'[q] = frames[q]
           /\ \A q \in Requests : Depth(q)' <= Len(Layers)
<1>1. frames \in [Requests -> Seq(Contexts)] /\ \A q \in Requests : Depth(q) <= Len(Layers)
  BY DEF PTypeOK, Contexts
<1>2. frames[r] \in Seq(Contexts) /\ Depth(r) = Len(frames[r]) /\ Depth(r) \in Nat
  BY <1>1 DEF Depth
<1>3. SubSeq(frames[r], 1, Depth(r) - 1) \in Seq(Contexts)
  BY <1>2
<1>4. Len(SubSeq(frames[r], 1, Depth(r) - 1)) = Depth(r) - 1
  BY <1>2
<1>5. \A i \in 1..(Depth(r) - 1) : SubSeq(frames[r], 1, Depth(r) - 1)[i] = frames[r][i]
  BY <1>2
<1>6. Len(Layers) = 7
  BY DEF Layers
<1> QED BY <1>1, <1>2, <1>3, <1>4, <1>5, <1>6 DEF Depth, Pops

-----------------------------------------------------------------------------
(* Types. *)

(* A written status is one of the codes. *)
LEMMA WriteType ==
    ASSUME PTypeOK, NEW r \in Requests, NEW code \in Codes, Write(r, code)
    PROVE  /\ wire' \in [Requests -> Codes \cup {NoCode, Aborted}]
           /\ captured' \in [Requests -> Codes]
           /\ UNCHANGED <<route, cred>>
BY DEF PTypeOK, Write

(* The codes that the layers write. *)
LEMMA CodesOfLayers == 200 \in Codes /\ 401 \in Codes /\ 429 \in Codes /\ 500 \in Codes
                       /\ HandlerCodes \subseteq Codes /\ NoCode \notin Codes /\ Aborted \notin Codes
BY DEF Codes, HandlerCodes, NoCode, Aborted

(* The types of the stacks of calls. *)
StackOK ==
    /\ frames \in [Requests -> Seq(Contexts)]
    /\ \A r \in Requests : Depth(r) <= Len(Layers)
    /\ mode \in [Requests -> Modes]
    /\ panicked \in [Requests -> BOOLEAN]

(* The types of everything else but inflight, which is a natural number     *)
(* because it counts.                                                       *)
RestOK ==
    /\ route \in [Requests -> Routes]
    /\ cred \in [Requests -> Keys \cup BadKeys \cup {NoKey}]
    /\ wire \in [Requests -> Codes \cup {NoCode, Aborted}]
    /\ captured \in [Requests -> Codes]
    /\ paid \in [Requests -> BOOLEAN]
    /\ line \in [Requests -> SUBSET [status : Codes, key : Keys \cup {NoKey}]]
    /\ total \in [Codes -> Nat]
    /\ budget \in [Routes -> [Keys -> 0..Burst]]
    /\ ticks \in 0..MaxTicks

(* The type invariant is these parts and the type of the gauge. *)
LEMMA TypeParts == PTypeOK <=> StackOK /\ RestOK /\ inflight \in Nat
BY DEF PTypeOK, StackOK, RestOK, Contexts, Modes

(* The context of a running layer. *)
LEMMA ContextType ==
    ASSUME PTypeOK, NEW r \in Requests, Depth(r) > 0
    PROVE  Context(r) \in Contexts
<1>1. frames[r] \in Seq(Contexts)
  BY DEF PTypeOK, Contexts
<1>2. Depth(r) \in 1..Len(frames[r])
  BY <1>1 DEF Depth
<1> QED BY <1>1, <1>2 DEF Context

(* Entering and leaving a layer keep the stacks well typed. *)
LEMMA StackSteps ==
    ASSUME PTypeOK, NEW r \in Requests
    PROVE  /\ \A ctx \in Contexts : Call(r, ctx) /\ Depth(r) < 7 => StackOK'
           /\ \A m \in Modes : Leave(r, m) /\ Depth(r) > 0 => StackOK'
<1>1. ASSUME NEW ctx \in Contexts, Call(r, ctx), Depth(r) < 7 PROVE StackOK'
  <2>1. UNCHANGED <<mode, panicked>>
    BY <1>1 DEF Call
  <2> QED BY <1>1, <2>1, CallEnters DEF StackOK, PTypeOK, Modes
<1>2. ASSUME NEW m \in Modes, Leave(r, m), Depth(r) > 0 PROVE StackOK'
  <2>1. mode' \in [Requests -> Modes] /\ UNCHANGED panicked /\ Pops(r)
    BY <1>2 DEF Leave, PTypeOK, Modes, Pops
  <2> QED BY <1>2, <2>1, LeaveReturns DEF StackOK, PTypeOK
<1> QED BY <1>1, <1>2

\* The variables of RestOK that every action may leave alone.
restvars == <<netvars, line, total, limvars>>

(* An action that leaves these variables alone keeps their types. *)
LEMMA RestKept == RestOK /\ UNCHANGED restvars => RestOK'
BY DEF RestOK, restvars, netvars, limvars

(* Every action keeps the types; the count of the gauge comes later. *)
LEMMA TypeStep == PTypeOK /\ [PNext]_pvars => StackOK' /\ RestOK'
<1> SUFFICES ASSUME PTypeOK, [PNext]_pvars PROVE StackOK' /\ RestOK'
  OBVIOUS
<1>0. StackOK /\ RestOK
  BY TypeParts
<1>1. ASSUME NEW r \in Requests, Arrive(r) PROVE StackOK' /\ RestOK'
  <2>1. EmptyContext \in Contexts /\ <<EmptyContext>> \in Seq(Contexts) /\ Len(<<EmptyContext>>) = 1
    BY DEF EmptyContext, Contexts
  <2>2. Len(Layers) = 7
    BY DEF Layers
  <2>3. /\ frames' = [frames EXCEPT ![r] = <<EmptyContext>>]
        /\ mode' = [mode EXCEPT ![r] = "call"]
        /\ UNCHANGED <<restvars, panicked>>
    BY <1>1 DEF Arrive, restvars, obsvars
  <2>4. StackOK'
    BY <1>0, <2>1, <2>2, <2>3 DEF StackOK, Depth, Modes
  <2> QED BY <1>0, <2>3, <2>4, RestKept
<1>2. ASSUME NEW r \in Requests, Inward(r) PROVE StackOK' /\ RestOK'
  <2>1. CASE RequestID(r)
    <3>1. Depth(r) = 1 /\ Context(r) \in Contexts
      BY <2>1, LayerDepth, ContextType DEF RequestID
    <3>2. [Context(r) EXCEPT !.id = TRUE] \in Contexts
      BY <3>1 DEF Contexts
    <3> QED BY <1>0, <2>1, <3>1, <3>2, StackSteps, RestKept DEF RequestID, restvars, obsvars
  <2>2. CASE PassOn(r)
    <3>1. Depth(r) \in {2, 4} /\ Context(r) \in Contexts
      BY <2>2, LayerDepth, ContextType DEF PassOn
    <3> QED BY <1>0, <2>2, <3>1, StackSteps, RestKept DEF PassOn, restvars, obsvars
  <2>3. CASE Metrics(r)
    <3>1. Depth(r) = 3 /\ Context(r) \in Contexts
      BY <2>3, LayerDepth, ContextType DEF Metrics
    <3> QED BY <1>0, <2>3, <3>1, StackSteps, RestKept DEF Metrics, restvars
  <2>4. CASE AuthPasses(r)
    <3>1. Depth(r) = 5 /\ Context(r) \in Contexts /\ cred[r] \in Keys
      BY <2>4, LayerDepth, ContextType DEF AuthPasses
    <3>2. [Context(r) EXCEPT !.key = cred[r]] \in Contexts
      BY <3>1 DEF Contexts
    <3> QED BY <1>0, <2>4, <3>1, <3>2, StackSteps, RestKept DEF AuthPasses, restvars, obsvars
  <2>5. CASE AuthRejects(r)
    <3>1. Depth(r) = 5
      BY <2>5, LayerDepth DEF AuthRejects
    <3>2. StackOK'
      BY <2>5, <3>1, StackSteps DEF AuthRejects, Modes
    <3>3. RestOK'
      BY <1>0, <2>5, WriteType, CodesOfLayers DEF AuthRejects, RestOK, obsvars, limvars
    <3> QED BY <3>2, <3>3
  <2>6. CASE LimitPasses(r)
    <3>1. Depth(r) = 6 /\ Context(r) \in Contexts
      BY <2>6, LayerDepth, ContextType DEF LimitPasses
    <3>2. StackOK'
      BY <2>6, <3>1, StackSteps DEF LimitPasses
    <3>3. budget' \in [Routes -> [Keys -> 0..Burst]] /\ paid' \in [Requests -> BOOLEAN]
      <4>1. CASE Context(r).key \in Keys
        <5> DEFINE g == route[r]
                   k == Context(r).key
        <5>1. g \in Routes /\ budget[g][k] \in 0..Burst /\ budget[g][k] > 0 /\ Burst \in Nat
          BY <1>0, <2>6, <4>1, PipelineAssumption DEF RestOK, LimitPasses
        <5>2. budget[g][k] - 1 \in 0..Burst
          BY <5>1
        <5>3. budget' = [budget EXCEPT ![g][k] = budget[g][k] - 1]
          BY <2>6, <4>1 DEF LimitPasses
        <5>4. paid' = [paid EXCEPT ![r] = TRUE]
          BY <2>6, <4>1 DEF LimitPasses
        <5> HIDE DEF g, k
        <5> QED BY <1>0, <4>1, <5>1, <5>2, <5>3, <5>4 DEF RestOK
      <4>2. CASE Context(r).key \notin Keys
        BY <1>0, <2>6, <4>2 DEF LimitPasses, RestOK
      <4> QED BY <4>1, <4>2
    <3>4. RestOK'
      BY <1>0, <2>6, <3>3 DEF LimitPasses, RestOK, netvars, obsvars
    <3> QED BY <3>2, <3>4
  <2>7. CASE LimitRejects(r)
    <3>1. Depth(r) = 6
      BY <2>7, LayerDepth DEF LimitRejects
    <3>2. StackOK'
      BY <2>7, <3>1, StackSteps DEF LimitRejects, Modes
    <3>3. RestOK'
      BY <1>0, <2>7, WriteType, CodesOfLayers DEF LimitRejects, RestOK, obsvars, limvars
    <3> QED BY <3>2, <3>3
  <2> QED BY <1>2, <2>1, <2>2, <2>3, <2>4, <2>5, <2>6, <2>7 DEF Inward
<1>3. ASSUME NEW r \in Requests, NEW code \in HandlerCodes, HandlerWrites(r, code)
      PROVE  StackOK' /\ RestOK'
  <2>1. StackOK'
    BY <1>0, <1>3 DEF HandlerWrites, StackOK, Depth
  <2>2. RestOK'
    BY <1>0, <1>3, WriteType, CodesOfLayers DEF HandlerWrites, RestOK, obsvars, limvars
  <2> QED BY <2>1, <2>2
<1>4. ASSUME NEW r \in Requests, HandlerEnds(r) PROVE StackOK' /\ RestOK'
  <2>1. CASE HandlerReturns(r)
    <3>1. Depth(r) = 7
      BY <2>1, LayerDepth DEF HandlerReturns
    <3> QED BY <1>0, <2>1, <3>1, StackSteps, RestKept DEF HandlerReturns, Modes, restvars, obsvars
  <2>2. CASE HandlerPanics(r)
    <3>1. Depth(r) = 7
      BY <2>2, LayerDepth DEF HandlerPanics
    <3>2. /\ mode' = [mode EXCEPT ![r] = "panic"] /\ panicked' = [panicked EXCEPT ![r] = TRUE]
          /\ Pops(r) /\ UNCHANGED restvars
      BY <2>2 DEF HandlerPanics, restvars, obsvars, Pops
    <3>3. mode' \in [Requests -> Modes] /\ panicked' \in [Requests -> BOOLEAN]
      BY <1>0, <3>2 DEF StackOK, Modes
    <3>4. /\ frames' \in [Requests -> Seq(Contexts)]
          /\ \A q \in Requests : Depth(q)' <= Len(Layers)
      BY <3>1, <3>2, LeaveReturns
    <3> QED BY <1>0, <3>2, <3>3, <3>4, RestKept DEF StackOK
  <2> QED BY <1>4, <2>1, <2>2 DEF HandlerEnds
<1>5. ASSUME NEW r \in Requests, Outward(r) PROVE StackOK' /\ RestOK'
  <2>1. CASE LoggingReturns(r)
    <3>1. Depth(r) = 4 /\ Context(r) \in Contexts
      BY <2>1, LayerDepth, ContextType DEF LoggingReturns
    <3>2. StackOK'
      BY <2>1, <3>1, StackSteps DEF LoggingReturns, Modes
    <3>3. [status |-> captured[r], key |-> Context(r).key] \in [status : Codes, key : Keys \cup {NoKey}]
      BY <1>0, <3>1 DEF RestOK, Contexts
    <3>4. RestOK'
      BY <1>0, <2>1, <3>3 DEF LoggingReturns, RestOK, netvars, limvars
    <3> QED BY <3>2, <3>4
  <2>2. CASE MetricsReturns(r)
    <3>1. Depth(r) = 3
      BY <2>2, LayerDepth DEF MetricsReturns
    <3>2. StackOK'
      BY <2>2, <3>1, StackSteps DEF MetricsReturns, Modes
    <3>3. total' \in [Codes -> Nat]
      <4>1. captured[r] \in Codes /\ total \in [Codes -> Nat]
        BY <1>0 DEF RestOK
      <4>2. total' = [total EXCEPT ![captured[r]] = total[captured[r]] + 1]
        BY <2>2 DEF MetricsReturns
      <4>3. total[captured[r]] + 1 \in Nat
        BY <4>1
      <4> QED BY <4>1, <4>2, <4>3
    <3>4. RestOK'
      BY <1>0, <2>2, <3>3 DEF MetricsReturns, RestOK, netvars, limvars
    <3> QED BY <3>2, <3>4
  <2>3. CASE PassBack(r)
    <3>1. Depth(r) > 0
      BY <2>3 DEF PassBack, Runs
    <3> QED BY <1>0, <2>3, <3>1, StackSteps, RestKept DEF PassBack, Modes, restvars, obsvars
  <2>4. CASE PanicPasses(r)
    <3>1. Depth(r) > 0
      BY <2>4 DEF PanicPasses, Runs
    <3> QED BY <1>0, <2>4, <3>1, StackSteps, RestKept DEF PanicPasses, Modes, restvars, obsvars
  <2>5. CASE MetricsUnwinds(r)
    <3>1. Depth(r) > 0
      BY <2>5 DEF MetricsUnwinds, Runs
    <3> QED BY <1>0, <2>5, <3>1, StackSteps, RestKept DEF MetricsUnwinds, Modes, restvars
  <2>6. CASE Recovered(r)
    <3>1. Depth(r) > 0
      BY <2>6 DEF Recovered, Runs
    <3>2. StackOK'
      BY <2>6, <3>1, StackSteps DEF Recovered, Modes
    <3>3. RestOK'
      BY <1>0, <2>6, CodesOfLayers DEF Recovered, RestOK, obsvars, limvars
    <3> QED BY <3>2, <3>3
  <2>7. CASE Finish(r)
    <3>1. StackOK'
      BY <1>0, <2>7 DEF Finish, StackOK, Depth, Modes
    <3>2. RestOK'
      BY <1>0, <2>7, CodesOfLayers DEF Finish, RestOK, obsvars, limvars
    <3> QED BY <3>1, <3>2
  <2> QED BY <1>5, <2>1, <2>2, <2>3, <2>4, <2>5, <2>6, <2>7 DEF Outward
<1>6. CASE Refill
  <2>1. StackOK'
    BY <1>0, <1>6 DEF Refill, StackOK, Depth
  <2>2. budget' \in [Routes -> [Keys -> 0..Burst]] /\ ticks' \in 0..MaxTicks
    <3>1. ASSUME NEW g \in Routes, NEW k \in Keys
          PROVE  (IF budget[g][k] < Burst THEN budget[g][k] + 1 ELSE Burst) \in 0..Burst
      BY <1>0, PipelineAssumption DEF RestOK
    <3>2. ticks' \in 0..MaxTicks
      BY <1>0, <1>6, PipelineAssumption DEF Refill, RestOK
    <3> QED BY <1>6, <3>1, <3>2 DEF Refill
  <2>3. RestOK'
    BY <1>0, <1>6, <2>2 DEF Refill, RestOK, netvars, obsvars
  <2> QED BY <2>1, <2>3
<1>7. CASE UNCHANGED pvars
  <2>1. StackOK'
    BY <1>0, <1>7 DEF pvars, StackOK, Depth
  <2> QED BY <1>0, <1>7, <2>1, RestKept DEF pvars, restvars, obsvars
<1> QED BY <1>1, <1>2, <1>3, <1>4, <1>5, <1>6, <1>7 DEF PNext

-----------------------------------------------------------------------------
(* What holds of each request by itself. *)

\* Logging has written the line of a request that did not panic.
Logged(q) == mode[q] \in {"return", "done"} /\ Depth(q) < 4 /\ ~panicked[q]

\* Metrics has counted it.
Counted(q) == mode[q] \in {"return", "done"} /\ Depth(q) < 3 /\ ~panicked[q]

\* A panic is known to the layers it unwinds and ends at Recover.
PanicOK(q) ==
    /\ mode[q] = "panic" => panicked[q]
    /\ panicked[q] => /\ mode[q] \in {"panic", "return", "done"}
                      /\ mode[q] = "return" => Depth(q) <= 1

\* Past Auth the context names the key; the handler was reached through a token.
AuthOK(q) ==
    /\ Depth(q) >= 6 => cred[q] \in Keys /\ frames[q][6].key = cred[q]
    /\ Depth(q) = 7 => paid[q]

\* Nothing is written on the way in, and the writers agree with the wire.
WrittenOK(q) ==
    /\ mode[q] = "new" => Depth(q) = 0
    /\ mode[q] = "done" => Depth(q) = 0
    /\ mode[q] = "call" => Depth(q) >= 1 /\ (Depth(q) <= 6 => wire[q] = NoCode)
    /\ mode[q] = "new" => wire[q] = NoCode
    /\ ~panicked[q] => captured[q] = Answer(q)

LineOK(q) ==
    IF Logged(q) THEN \E l : line[q] = {l} /\ l.status = Answer(q) ELSE line[q] = {}

OwnInv(q) == PanicOK(q) /\ AuthOK(q) /\ WrittenOK(q) /\ LineOK(q)

(* A step of one request does not touch the others. *)
LEMMA OthersKeep ==
    ASSUME NEW q, OwnInv(q), UNCHANGED Own(q)
    PROVE  OwnInv(q)'
BY DEF Own, OwnInv, PanicOK, AuthOK, WrittenOK, LineOK, Logged, Depth, Answer

\* The step is request r's.
Alone(r) == \A q \in Requests \ {r} : UNCHANGED Own(q)

(* No request has begun. *)
LEMMA RequestsStart == PInit => \A q \in Requests : OwnInv(q)
BY DEF PInit, OwnInv, PanicOK, AuthOK, WrittenOK, LineOK, Logged, Depth, Answer, NoCode

(* Entering a layer. *)
LEMMA EntersOwn ==
    ASSUME PTypeOK, NEW r \in Requests, OwnInv(r), NEW ctx \in Contexts, Call(r, ctx),
           mode[r] = "call", Depth(r) \in 1..6,
           UNCHANGED <<cred[r], wire[r], captured[r], line[r]>>,
           Depth(r) = 5 => cred[r] \in Keys /\ ctx.key = cred[r],
           Depth(r) = 6 => paid'[r]
    PROVE  OwnInv(r)'
<1>1. /\ Depth(r)' = Depth(r) + 1
      /\ frames'[r][Depth(r) + 1] = ctx
      /\ \A i \in 1..Depth(r) : frames'[r][i] = frames[r][i]
      /\ UNCHANGED <<mode, panicked>>
  <2>1. UNCHANGED <<mode, panicked>>
    BY DEF Call
  <2> QED BY <2>1, CallEnters
<1>2. PanicOK(r)'
  BY <1>1 DEF OwnInv, PanicOK
<1>3. AuthOK(r)'
  <2>1. CASE Depth(r) = 6
    BY <1>1, <2>1 DEF OwnInv, AuthOK
  <2>2. CASE Depth(r) = 5
    BY <1>1, <2>2 DEF OwnInv, AuthOK
  <2>3. CASE Depth(r) < 5
    BY <1>1, <2>3 DEF AuthOK
  <2> QED BY <2>1, <2>2, <2>3
<1>4. WrittenOK(r)'
  BY <1>1 DEF OwnInv, WrittenOK, Answer
<1>5. LineOK(r)'
  BY <1>1 DEF OwnInv, LineOK, Logged
<1> QED BY <1>2, <1>3, <1>4, <1>5 DEF OwnInv

(* Leaving a layer. *)
LEMMA LeavesOwn ==
    ASSUME PTypeOK, NEW r \in Requests, OwnInv(r), NEW m \in {"return", "panic"}, Leave(r, m),
           Depth(r) \in 1..7, mode[r] # "new", mode[r] # "done",
           UNCHANGED <<cred[r], paid[r]>>,
           m = "panic" => panicked[r],
           m = "return" /\ panicked[r] => Depth(r) <= 2,
           ~panicked[r] => captured'[r] = Answer(r)',
           LineOK(r)'
    PROVE  OwnInv(r)'
<1>1. /\ Depth(r)' = Depth(r) - 1
      /\ \A i \in 1..(Depth(r) - 1) : frames'[r][i] = frames[r][i]
      /\ mode'[r] = m /\ UNCHANGED panicked
  <2>1. Pops(r)
    BY DEF Leave, Pops
  <2>2. mode'[r] = m /\ UNCHANGED panicked
    BY DEF Leave, PTypeOK
  <2> QED BY <2>1, <2>2, LeaveReturns
<1>2. PanicOK(r)'
  BY <1>1 DEF OwnInv, PanicOK
<1>3. AuthOK(r)'
  BY <1>1 DEF OwnInv, AuthOK
<1>4. WrittenOK(r)'
  BY <1>1 DEF OwnInv, WrittenOK
<1> QED BY <1>2, <1>3, <1>4 DEF OwnInv

\* All the functions of requests that PTypeOK types, for EXCEPT.
LEMMA OwnFunctions ==
    ASSUME PTypeOK
    PROVE  \A f \in {route, cred, frames, mode, wire, captured, panicked, paid, line} :
              DOMAIN f = Requests
BY DEF PTypeOK

(* A step of one request need only keep that request's invariant. *)
LEMMA AloneSuffices ==
    ASSUME \A q \in Requests : OwnInv(q), NEW r \in Requests, Alone(r), OwnInv(r)'
    PROVE  \A q \in Requests : OwnInv(q)'
BY OthersKeep DEF Alone

(* The request that moves keeps its invariant, and no other request moves. *)
LEMMA InwardOwn ==
    ASSUME PTypeOK, NEW r \in Requests, OwnInv(r), Inward(r)
    PROVE  Alone(r) /\ OwnInv(r)'
<1>1. CASE RequestID(r)
  <2>1. Depth(r) = 1 /\ Context(r) \in Contexts /\ mode[r] = "call"
    BY <1>1, LayerDepth, ContextType DEF RequestID
  <2>2. [Context(r) EXCEPT !.id = TRUE] \in Contexts
    BY <2>1 DEF Contexts
  <2>3. UNCHANGED <<cred[r], wire[r], captured[r], line[r]>>
    BY <1>1 DEF RequestID, netvars, obsvars
  <2>4. OwnInv(r)'
    BY <1>1, <2>1, <2>2, <2>3, EntersOwn DEF RequestID
  <2>5. Alone(r)
    BY <1>1, OwnFunctions DEF RequestID, Call, Alone, Own, netvars, obsvars, limvars
  <2> QED BY <2>4, <2>5
<1>2. CASE PassOn(r)
  <2>1. Depth(r) \in {2, 4} /\ Context(r) \in Contexts /\ mode[r] = "call"
    BY <1>2, LayerDepth, ContextType DEF PassOn
  <2>2. UNCHANGED <<cred[r], wire[r], captured[r], line[r]>>
    BY <1>2 DEF PassOn, netvars, obsvars
  <2>3. OwnInv(r)'
    BY <1>2, <2>1, <2>2, EntersOwn DEF PassOn
  <2>4. Alone(r)
    BY <1>2, OwnFunctions DEF PassOn, Call, Alone, Own, netvars, obsvars, limvars
  <2> QED BY <2>3, <2>4
<1>3. CASE Metrics(r)
  <2>1. Depth(r) = 3 /\ Context(r) \in Contexts /\ mode[r] = "call"
    BY <1>3, LayerDepth, ContextType DEF Metrics
  <2>2. UNCHANGED <<cred[r], wire[r], captured[r], line[r]>>
    BY <1>3 DEF Metrics, netvars
  <2>3. OwnInv(r)'
    BY <1>3, <2>1, <2>2, EntersOwn DEF Metrics
  <2>4. Alone(r)
    BY <1>3, OwnFunctions DEF Metrics, Call, Alone, Own, netvars, limvars
  <2> QED BY <2>3, <2>4
<1>4. CASE AuthPasses(r)
  <2> DEFINE ctx == [Context(r) EXCEPT !.key = cred[r]]
  <2>1. Depth(r) = 5 /\ Context(r) \in Contexts /\ mode[r] = "call" /\ cred[r] \in Keys
    BY <1>4, LayerDepth, ContextType DEF AuthPasses
  <2>2. ctx \in Contexts /\ ctx.key = cred[r]
    BY <2>1 DEF Contexts
  <2>3. UNCHANGED <<cred[r], wire[r], captured[r], line[r]>>
    BY <1>4 DEF AuthPasses, netvars, obsvars
  <2>4. OwnInv(r)'
    <3>1. Call(r, ctx)
      BY <1>4 DEF AuthPasses
    <3> HIDE DEF ctx
    <3> QED BY <2>1, <2>2, <2>3, <3>1, EntersOwn
  <2>5. Alone(r)
    BY <1>4, OwnFunctions DEF AuthPasses, Call, Alone, Own, netvars, obsvars, limvars
  <2> QED BY <2>4, <2>5
<1>5. ASSUME NEW code \in Codes, Write(r, code), Leave(r, "return"),
             Depth(r) \in {5, 6}, mode[r] = "call", UNCHANGED <<obsvars, limvars>>
      PROVE  Alone(r) /\ OwnInv(r)'
  <2>1. /\ wire[r] = NoCode /\ ~panicked[r]
    BY <1>5 DEF OwnInv, WrittenOK, PanicOK
  <2>2. wire'[r] = code /\ captured'[r] = code /\ code # NoCode /\ UNCHANGED <<cred, route>>
    BY <1>5, <2>1, CodesOfLayers DEF Write, PTypeOK
  <2>3. line[r] = {} /\ UNCHANGED <<line, paid>>
    BY <1>5 DEF OwnInv, LineOK, Logged, obsvars, limvars
  <2>4. LineOK(r)'
    <3>1. Pops(r)
      BY <1>5 DEF Leave, Pops
    <3>2. Depth(r)' \in {4, 5}
      BY <1>5, <3>1, LeaveReturns
    <3> QED BY <2>3, <3>2 DEF LineOK, Logged
  <2>5. OwnInv(r)'
    <3>1. Answer(r)' = captured'[r] /\ UNCHANGED <<cred[r], paid[r]>>
      BY <2>2, <2>3 DEF Answer
    <3> QED BY <1>5, <2>1, <2>4, <3>1, LeavesOwn
  <2>6. Alone(r)
    BY <1>5, OwnFunctions DEF Write, Leave, Alone, Own, obsvars, limvars
  <2> QED BY <2>5, <2>6
<1>6. CASE AuthRejects(r)
  BY <1>5, <1>6, LayerDepth, CodesOfLayers DEF AuthRejects
<1>7. CASE LimitRejects(r)
  BY <1>5, <1>7, LayerDepth, CodesOfLayers DEF LimitRejects
<1>8. CASE LimitPasses(r)
  <2>1. Depth(r) = 6 /\ Context(r) \in Contexts /\ mode[r] = "call"
    BY <1>8, LayerDepth, ContextType DEF LimitPasses
  <2>2. UNCHANGED <<cred[r], wire[r], captured[r], line[r]>>
    BY <1>8 DEF LimitPasses, netvars, obsvars
  <2>3. Context(r).key \in Keys
    BY <2>1 DEF Context, OwnInv, AuthOK
  <2>4. paid' = [paid EXCEPT ![r] = TRUE]
    BY <1>8, <2>3 DEF LimitPasses
  <2>5. paid'[r]
    BY <2>4 DEF PTypeOK
  <2>6. OwnInv(r)'
    BY <1>8, <2>1, <2>2, <2>5, EntersOwn DEF LimitPasses
  <2>7. Alone(r)
    BY <1>8, <2>4, OwnFunctions DEF LimitPasses, Call, Alone, Own, netvars, obsvars
  <2> QED BY <2>6, <2>7
<1> QED BY <1>1, <1>2, <1>3, <1>4, <1>6, <1>7, <1>8 DEF Inward

(* The handler. *)
LEMMA HandlerOwn ==
    ASSUME PTypeOK, NEW r \in Requests, OwnInv(r),
           HandlerEnds(r) \/ \E code \in HandlerCodes : HandlerWrites(r, code)
    PROVE  Alone(r) /\ OwnInv(r)'
<1>1. CASE HandlerReturns(r)
  <2>1. Depth(r) = 7 /\ mode[r] = "call" /\ Pops(r) /\ ~panicked[r]
    BY <1>1, LayerDepth DEF HandlerReturns, Leave, Pops, OwnInv, PanicOK
  <2>2. Depth(r)' = 6
    BY <2>1, LeaveReturns
  <2>3. UNCHANGED <<netvars, obsvars, limvars>> /\ Leave(r, "return")
    BY <1>1 DEF HandlerReturns
  <2>4. LineOK(r)'
    BY <2>1, <2>2, <2>3 DEF OwnInv, LineOK, Logged, obsvars
  <2>5. OwnInv(r)'
    BY <2>1, <2>3, <2>4, LeavesOwn DEF netvars, limvars, OwnInv, WrittenOK, Answer
  <2>6. Alone(r)
    BY <2>3, OwnFunctions DEF Leave, Alone, Own, netvars, obsvars, limvars
  <2> QED BY <2>5, <2>6
<1>2. CASE HandlerPanics(r)
  <2>1. Depth(r) = 7 /\ mode[r] = "call" /\ Pops(r)
    BY <1>2, LayerDepth DEF HandlerPanics, Pops
  <2>2. /\ Depth(r)' = 6 /\ frames'[r][6] = frames[r][6]
    BY <2>1, LeaveReturns
  <2>3. /\ mode'[r] = "panic" /\ panicked'[r] = TRUE /\ UNCHANGED <<netvars, obsvars, limvars>>
    BY <1>2 DEF HandlerPanics, PTypeOK
  <2>4. OwnInv(r)'
    BY <2>1, <2>2, <2>3 DEF OwnInv, PanicOK, AuthOK, WrittenOK, LineOK, Logged, netvars,
                            obsvars, limvars
  <2>5. Alone(r)
    BY <1>2, OwnFunctions DEF HandlerPanics, Alone, Own, netvars, obsvars, limvars
  <2> QED BY <2>4, <2>5
<1>3. ASSUME NEW code \in HandlerCodes, HandlerWrites(r, code) PROVE Alone(r) /\ OwnInv(r)'
  <2>1. Depth(r) = 7 /\ mode[r] = "call" /\ wire[r] = NoCode
    BY <1>3, LayerDepth DEF HandlerWrites
  <2>2. /\ wire'[r] = code /\ captured'[r] = code /\ code # NoCode
        /\ UNCHANGED <<route, cred, obsvars, limvars, frames, mode, panicked>>
    BY <1>3, <2>1, CodesOfLayers DEF HandlerWrites, Write, PTypeOK
  <2>3. Depth(r)' = Depth(r)
    BY <2>2 DEF Depth
  <2>4. OwnInv(r)'
    BY <2>1, <2>2, <2>3 DEF OwnInv, PanicOK, AuthOK, WrittenOK, LineOK, Logged, Answer,
                            obsvars, limvars
  <2>5. Alone(r)
    BY <1>3, OwnFunctions DEF HandlerWrites, Write, Alone, Own, obsvars, limvars
  <2> QED BY <2>4, <2>5
<1> QED BY <1>1, <1>2, <1>3 DEF HandlerEnds

(* The way out. *)
LEMMA OutwardOwn ==
    ASSUME PTypeOK, NEW r \in Requests, OwnInv(r), Outward(r)
    PROVE  Alone(r) /\ OwnInv(r)'
<1>0. ASSUME NEW m \in Modes, Leave(r, m), Depth(r) > 0
      PROVE  Depth(r)' = Depth(r) - 1 /\ mode'[r] = m /\ UNCHANGED panicked
  <2>1. Pops(r) /\ mode'[r] = m /\ UNCHANGED panicked
    BY <1>0 DEF Leave, Pops, PTypeOK
  <2> QED BY <1>0, <2>1, LeaveReturns
<1>1. CASE LoggingReturns(r)
  <2>1. Depth(r) = 4 /\ mode[r] = "return" /\ Leave(r, "return")
    BY <1>1, LayerDepth DEF LoggingReturns
  <2>2. ~panicked[r] /\ line[r] = {} /\ captured[r] = Answer(r)
    BY <2>1 DEF OwnInv, PanicOK, LineOK, Logged, WrittenOK
  <2>3. UNCHANGED <<netvars, limvars>>
    BY <1>1 DEF LoggingReturns
  <2>4. line'[r] = {[status |-> captured[r], key |-> Context(r).key]}
    BY <1>1, <2>2 DEF LoggingReturns, PTypeOK
  <2>5. LineOK(r)'
    <3>1. Depth(r)' = 3 /\ mode'[r] = "return" /\ ~panicked'[r] /\ Answer(r)' = Answer(r)
      BY <1>0, <2>1, <2>2, <2>3 DEF Modes, Answer, netvars
    <3>2. [status |-> captured[r], key |-> Context(r).key].status = Answer(r)'
      BY <2>2, <3>1
    <3>3. Logged(r)'
      BY <3>1 DEF Logged
    <3>4. \E l : line'[r] = {l} /\ l.status = Answer(r)'
      BY <2>4, <3>2
    <3> QED BY <3>3, <3>4 DEF LineOK
  <2>6. OwnInv(r)'
    <3>1. UNCHANGED <<cred[r], paid[r], captured[r]>> /\ Answer(r)' = Answer(r)
      BY <2>3 DEF netvars, limvars, Answer
    <3> QED BY <2>1, <2>2, <2>5, <3>1, LeavesOwn
  <2>7. Alone(r)
    BY <1>1, OwnFunctions DEF LoggingReturns, Leave, Alone, Own, netvars, limvars
  <2> QED BY <2>6, <2>7
<1>2. ASSUME NEW d \in {1, 2, 3, 5, 6}, Depth(r) = d, mode[r] = "return", Leave(r, "return"),
             UNCHANGED <<netvars, limvars, line>>
      PROVE  Alone(r) /\ OwnInv(r)'
  <2>1. /\ UNCHANGED <<cred[r], paid[r], captured[r]>> /\ Answer(r)' = Answer(r)
        /\ Depth(r)' = d - 1 /\ mode'[r] = "return" /\ UNCHANGED panicked
    BY <1>0, <1>2 DEF netvars, limvars, Answer, Modes
  <2>2. Logged(r)' <=> Logged(r)
    BY <1>2, <2>1 DEF Logged
  <2>3. LineOK(r)'
    BY <1>2, <2>1, <2>2 DEF LineOK, OwnInv
  <2>4. panicked[r] => Depth(r) <= 1
    BY <1>2 DEF OwnInv, PanicOK
  <2>5. OwnInv(r)'
    BY <1>2, <2>1, <2>3, <2>4, LeavesOwn DEF OwnInv, WrittenOK
  <2>6. Alone(r)
    BY <1>2, OwnFunctions DEF Leave, Alone, Own, netvars, limvars
  <2> QED BY <2>5, <2>6
<1>3. CASE MetricsReturns(r)
  BY <1>2, <1>3, LayerDepth DEF MetricsReturns
<1>4. CASE PassBack(r)
  <2>1. Depth(r) \in {1, 2, 5, 6} /\ mode[r] = "return"
    BY <1>4, LayerDepth DEF PassBack
  <2> QED BY <1>2, <1>4, <2>1 DEF PassBack, obsvars
<1>5. ASSUME NEW d \in {2, 3, 4, 5, 6}, Depth(r) = d, mode[r] = "panic", NEW m \in {"return", "panic"},
             Leave(r, m), m = "return" => d = 2, UNCHANGED <<route, cred, captured, limvars, line>>,
             \A q \in Requests \ {r} : UNCHANGED wire[q]
      PROVE  Alone(r) /\ OwnInv(r)'
  <2>1. /\ UNCHANGED <<cred[r], paid[r]>> /\ panicked[r] /\ panicked'[r]
    BY <1>0, <1>5 DEF limvars, Modes, OwnInv, PanicOK
  <2>2. LineOK(r)'
    BY <1>5, <2>1 DEF OwnInv, LineOK, Logged
  <2>3. OwnInv(r)'
    BY <1>5, <2>1, <2>2, LeavesOwn
  <2>4. Alone(r)
    BY <1>5, OwnFunctions DEF Leave, Alone, Own, limvars
  <2> QED BY <2>3, <2>4
<1>6. CASE PanicPasses(r)
  <2>1. Depth(r) \in {4, 5, 6} /\ mode[r] = "panic"
    BY <1>6, LayerDepth DEF PanicPasses
  <2> QED BY <1>5, <1>6, <2>1 DEF PanicPasses, netvars, obsvars
<1>7. CASE MetricsUnwinds(r)
  BY <1>5, <1>7, LayerDepth DEF MetricsUnwinds, netvars
<1>8. CASE Recovered(r)
  <2>1. Depth(r) = 2 /\ mode[r] = "panic"
    BY <1>8, LayerDepth DEF Recovered
  <2>2. \A q \in Requests \ {r} : UNCHANGED wire[q]
    BY <1>8, OwnFunctions DEF Recovered
  <2> QED BY <1>5, <1>8, <2>1, <2>2 DEF Recovered, obsvars
<1>9. CASE Finish(r)
  <2>1. /\ Depth(r) = 0 /\ mode[r] \in {"return", "panic"} /\ mode'[r] = "done"
        /\ wire'[r] = IF mode[r] = "panic" THEN Aborted ELSE IF wire[r] = NoCode THEN 200 ELSE wire[r]
        /\ UNCHANGED <<route, cred, captured, obsvars, limvars, frames, panicked>>
    BY <1>9 DEF Finish, PTypeOK
  <2>2. Depth(r)' = Depth(r)
    BY <2>1 DEF Depth
  <2>3. ~panicked[r] => Answer(r)' = Answer(r) /\ mode[r] = "return"
    BY <2>1 DEF Answer, OwnInv, PanicOK, NoCode
  <2>4. OwnInv(r)'
    BY <2>1, <2>2, <2>3 DEF OwnInv, PanicOK, AuthOK, WrittenOK, LineOK, Logged, obsvars, limvars
  <2>5. Alone(r)
    BY <1>9, OwnFunctions DEF Finish, Alone, Own, obsvars, limvars
  <2> QED BY <2>4, <2>5
<1> QED BY <1>1, <1>3, <1>4, <1>6, <1>7, <1>8, <1>9 DEF Outward

(* Arrive, and the steps that are nobody's. *)
LEMMA ArriveOwn ==
    ASSUME PTypeOK, NEW r \in Requests, OwnInv(r), Arrive(r)
    PROVE  Alone(r) /\ OwnInv(r)'
<1>1. /\ mode[r] = "new" /\ mode'[r] = "call" /\ frames'[r] = <<EmptyContext>>
      /\ UNCHANGED <<netvars, obsvars, limvars, panicked>>
  BY DEF Arrive, PTypeOK
<1>2. Depth(r)' = 1
  BY <1>1 DEF Depth
<1>3. OwnInv(r)'
  BY <1>1, <1>2 DEF OwnInv, PanicOK, AuthOK, WrittenOK, LineOK, Logged, Answer, netvars, obsvars,
                    limvars
<1>4. Alone(r)
  BY OwnFunctions DEF Arrive, Alone, Own, netvars, obsvars, limvars
<1> QED BY <1>3, <1>4

(* Every step keeps what holds of each request by itself. *)
LEMMA OwnStep ==
    ASSUME PTypeOK, \A q \in Requests : OwnInv(q), [PNext]_pvars
    PROVE  \A q \in Requests : OwnInv(q)'
<1>1. ASSUME NEW r \in Requests,
             \/ Arrive(r) \/ Inward(r) \/ HandlerEnds(r) \/ Outward(r)
             \/ \E code \in HandlerCodes : HandlerWrites(r, code)
      PROVE  \A q \in Requests : OwnInv(q)'
  BY <1>1, AloneSuffices, ArriveOwn, InwardOwn, HandlerOwn, OutwardOwn
<1>2. CASE Refill \/ UNCHANGED pvars
  BY <1>2, OthersKeep DEF Refill, pvars, Own, netvars, obsvars, limvars
<1> QED BY <1>1, <1>2 DEF PNext

-----------------------------------------------------------------------------
(* What is counted over all requests. *)

\* The requests inside Metrics, and those it has counted under a code.
InMetrics == {q \in Requests : Inside(q, 3)}
CountedAs(c) == {q \in Requests : Counted(q) /\ Answer(q) = c}

GaugeExact == inflight = Cardinality(InMetrics)
TotalsExact == \A c \in Codes : total[c] = Cardinality(CountedAs(c))
BudgetKept == \A g \in Routes, k \in Keys : Cardinality(Granted(g, k)) + budget[g][k] <= Burst + ticks

PInv == PTypeOK /\ (\A q \in Requests : OwnInv(q)) /\ GaugeExact /\ TotalsExact /\ BudgetKept

(* Every set of requests can be counted. *)
LEMMA FiniteParts == \A S \in SUBSET Requests : IsFiniteSet(S) /\ Cardinality(S) \in Nat
BY PipelineAssumption, FS_Subset, FS_CardinalityType

(* A request that joins a counted set, or leaves it, moves its count by one. *)
LEMMA OneMore ==
    ASSUME NEW S \in SUBSET Requests, NEW r
    PROVE  /\ r \in Requests \ S => Cardinality(S \cup {r}) = Cardinality(S) + 1
           /\ r \in Requests => Cardinality(S \cup {r}) <= Cardinality(S) + 1
           /\ r \in S => Cardinality(S \ {r}) = Cardinality(S) - 1
<1>1. IsFiniteSet(S) /\ Cardinality(S) \in Nat
  BY FiniteParts
<1>2. r \notin S => Cardinality(S \cup {r}) = Cardinality(S) + 1
  BY <1>1, FS_AddElement
<1>3. r \in S => S \cup {r} = S
  OBVIOUS
<1>4. r \in S => Cardinality(S \ {r}) = Cardinality(S) - 1
  BY <1>1, FS_RemoveElement
<1> QED BY <1>1, <1>2, <1>3, <1>4

(* Before the first request nothing is counted, and the buckets are full. *)
LEMMA PInvInit == PInit => PInv
<1> SUFFICES ASSUME PInit PROVE PInv
  OBVIOUS
<1>1. StackOK
  <2>1. \A r \in Requests : frames[r] = <<>> /\ Depth(r) = 0
    BY DEF PInit, Depth
  <2>2. Len(Layers) = 7
    BY DEF Layers
  <2> QED BY <2>1, <2>2 DEF PInit, StackOK, Modes
<1>2. RestOK /\ inflight \in Nat
  BY PipelineAssumption, CodesOfLayers DEF PInit, RestOK
<1>3. InMetrics = {} /\ \A c \in Codes : CountedAs(c) = {}
  BY DEF PInit, InMetrics, CountedAs, Counted, Inside, Depth
<1>4. \A g \in Routes, k \in Keys : Granted(g, k) = {}
  BY DEF PInit, Granted
<1>5. GaugeExact /\ TotalsExact
  BY <1>3, FS_EmptySet DEF PInit, GaugeExact, TotalsExact
<1>6. BudgetKept
  <2>1. \A g \in Routes, k \in Keys : budget[g][k] = Burst /\ Cardinality(Granted(g, k)) = 0
    BY <1>4, FS_EmptySet DEF PInit
  <2> QED BY <2>1, PipelineAssumption DEF PInit, BudgetKept
<1> QED BY <1>1, <1>2, <1>5, <1>6, TypeParts, RequestsStart DEF PInv

(* A step of r that does not take it into or out of Metrics. *)
LEMMA GaugeKept ==
    ASSUME GaugeExact, NEW r \in Requests, Alone(r), UNCHANGED inflight,
           Inside(r, 3)' <=> Inside(r, 3)
    PROVE  GaugeExact'
<1>1. \A q \in Requests : Inside(q, 3)' <=> Inside(q, 3)
  BY DEF Alone, Own, Inside, Depth
<1>2. InMetrics' = InMetrics
  BY <1>1 DEF InMetrics
<1> QED BY <1>2 DEF GaugeExact

(* A step of r that Metrics does not count. *)
LEMMA TotalsKept ==
    ASSUME TotalsExact, NEW r \in Requests, Alone(r), UNCHANGED total,
           \A c \in Codes : (Counted(r) /\ Answer(r) = c)' <=> (Counted(r) /\ Answer(r) = c)
    PROVE  TotalsExact'
<1>1. ASSUME NEW c \in Codes PROVE CountedAs(c)' = CountedAs(c)
  <2>1. \A q \in Requests \ {r} : (Counted(q) /\ Answer(q) = c)' <=> (Counted(q) /\ Answer(q) = c)
    BY DEF Alone, Own, Counted, Answer, Depth
  <2> QED BY <2>1 DEF CountedAs
<1> QED BY <1>1 DEF TotalsExact

(* A step of r that takes no token. *)
LEMMA BudgetUntouched ==
    ASSUME BudgetKept, UNCHANGED <<route, cred, paid, budget, ticks>>
    PROVE  BudgetKept'
<1>1. \A g \in Routes, k \in Keys : Granted(g, k)' = Granted(g, k)
  BY DEF Granted
<1> QED BY <1>1 DEF BudgetKept

(* The way in: Metrics counts a request in, the limiter takes a token. *)
LEMMA InwardCounts ==
    ASSUME PInv, NEW r \in Requests, Inward(r)
    PROVE  GaugeExact' /\ TotalsExact' /\ BudgetKept'
<1> USE DEF PInv
<1>0. Alone(r) /\ OwnInv(r)
  BY InwardOwn
<1>1. ASSUME NEW ctx \in Contexts, Call(r, ctx), mode[r] = "call", Depth(r) \in 1..6
      PROVE  /\ Depth(r)' = Depth(r) + 1 /\ mode'[r] = "call"
             /\ UNCHANGED total => TotalsExact'
             /\ Depth(r) # 3 /\ UNCHANGED inflight => GaugeExact'
  <2>1. Depth(r)' = Depth(r) + 1
    BY <1>1, CallEnters
  <2>2. UNCHANGED <<mode, panicked>>
    BY <1>1 DEF Call
  <2>3. ASSUME UNCHANGED total PROVE TotalsExact'
    BY <1>0, <1>1, <2>2, <2>3, TotalsKept DEF Counted
  <2>4. ASSUME Depth(r) # 3, UNCHANGED inflight PROVE GaugeExact'
    <3>1. Inside(r, 3)' <=> Inside(r, 3)
      BY <1>1, <2>1, <2>2, <2>4 DEF Inside
    <3> QED BY <1>0, <2>4, <3>1, GaugeKept
  <2> QED BY <1>1, <2>1, <2>2, <2>3, <2>4
<1>2. CASE RequestID(r)
  <2> DEFINE ctx == [Context(r) EXCEPT !.id = TRUE]
  <2>1. Depth(r) = 1 /\ Context(r) \in Contexts /\ mode[r] = "call"
    BY <1>2, LayerDepth, ContextType DEF RequestID
  <2>2. ctx \in Contexts
    BY <2>1 DEF Contexts
  <2>3. Call(r, ctx) /\ UNCHANGED <<netvars, obsvars, limvars>>
    BY <1>2 DEF RequestID
  <2> HIDE DEF ctx
  <2> QED BY <1>1, <2>1, <2>2, <2>3, BudgetUntouched DEF netvars, obsvars, limvars
<1>3. CASE PassOn(r)
  <2>1. Depth(r) \in {2, 4} /\ Context(r) \in Contexts /\ mode[r] = "call"
    BY <1>3, LayerDepth, ContextType DEF PassOn
  <2> QED BY <1>1, <1>3, <2>1, BudgetUntouched DEF PassOn, netvars, obsvars, limvars
<1>4. CASE Metrics(r)
  <2>1. Depth(r) = 3 /\ Context(r) \in Contexts /\ mode[r] = "call"
    BY <1>4, LayerDepth, ContextType DEF Metrics
  <2>2. TotalsExact' /\ Depth(r)' = 4
    BY <1>1, <1>4, <2>1 DEF Metrics
  <2>3. BudgetKept'
    BY <1>4, BudgetUntouched DEF Metrics, netvars, limvars
  <2>4. InMetrics' = InMetrics \cup {r} /\ r \notin InMetrics
    <3>1. Inside(r, 3)' /\ ~Inside(r, 3)
      BY <2>1, <2>2 DEF Inside
    <3>2. \A q \in Requests \ {r} : Inside(q, 3)' <=> Inside(q, 3)
      BY <1>0 DEF Alone, Own, Inside, Depth
    <3> QED BY <3>1, <3>2 DEF InMetrics
  <2>5. Cardinality(InMetrics') = Cardinality(InMetrics) + 1
    BY <2>4, OneMore DEF InMetrics
  <2> QED BY <1>4, <2>2, <2>3, <2>5 DEF GaugeExact, Metrics
<1>5. CASE AuthPasses(r)
  <2> DEFINE ctx == [Context(r) EXCEPT !.key = cred[r]]
  <2>1. Depth(r) = 5 /\ Context(r) \in Contexts /\ mode[r] = "call" /\ cred[r] \in Keys
    BY <1>5, LayerDepth, ContextType DEF AuthPasses
  <2>2. ctx \in Contexts
    BY <2>1 DEF Contexts
  <2>3. Call(r, ctx) /\ UNCHANGED <<netvars, obsvars, limvars>>
    BY <1>5 DEF AuthPasses
  <2> HIDE DEF ctx
  <2> QED BY <1>1, <2>1, <2>2, <2>3, BudgetUntouched DEF netvars, obsvars, limvars
<1>6. ASSUME Leave(r, "return"), Depth(r) \in {5, 6}, mode[r] = "call",
             UNCHANGED <<route, cred, obsvars, limvars>>
      PROVE  GaugeExact' /\ TotalsExact' /\ BudgetKept'
  <2>1. Pops(r) /\ mode'[r] = "return"
    BY <1>6 DEF Leave, Pops, PTypeOK
  <2>2. Depth(r)' \in {4, 5}
    BY <1>6, <2>1, LeaveReturns
  <2>3. GaugeExact'
    BY <1>0, <1>6, <2>2, GaugeKept DEF Inside, obsvars
  <2>4. TotalsExact'
    BY <1>0, <1>6, <2>2, TotalsKept DEF Counted, obsvars
  <2> QED BY <1>6, <2>3, <2>4, BudgetUntouched DEF limvars
<1>7. CASE AuthRejects(r)
  BY <1>6, <1>7, LayerDepth DEF AuthRejects, Write
<1>8. CASE LimitRejects(r)
  BY <1>6, <1>8, LayerDepth DEF LimitRejects, Write
<1>9. CASE LimitPasses(r)
  <2>1. Depth(r) = 6 /\ Context(r) \in Contexts /\ mode[r] = "call"
    BY <1>9, LayerDepth, ContextType DEF LimitPasses
  <2>2. GaugeExact' /\ TotalsExact'
    BY <1>1, <1>9, <2>1 DEF LimitPasses, obsvars
  <2>3. cred[r] \in Keys /\ Context(r).key = cred[r]
    BY <1>0, <2>1 DEF Context, OwnInv, AuthOK
  <2>4. /\ budget' = [budget EXCEPT ![route[r]][cred[r]] = budget[route[r]][cred[r]] - 1]
        /\ paid' = [paid EXCEPT ![r] = TRUE] /\ UNCHANGED <<route, cred, ticks>>
    BY <1>9, <2>3 DEF LimitPasses, netvars
  <2>5. route[r] \in Routes /\ budget \in [Routes -> [Keys -> 0..Burst]]
    BY DEF PTypeOK
  <2>6. ASSUME NEW g \in Routes, NEW k \in Keys
        PROVE  Cardinality(Granted(g, k)') + budget'[g][k] <= Burst + ticks
    <3>0. /\ Cardinality(Granted(g, k)) + budget[g][k] <= Burst + ticks /\ budget[g][k] \in Nat
          /\ Granted(g, k) \in SUBSET Requests /\ Burst \in Nat /\ ticks \in Nat
          /\ Cardinality(Granted(g, k)) \in Nat
      <4>1. Granted(g, k) \in SUBSET Requests
        BY DEF Granted
      <4> QED BY <2>5, <4>1, FiniteParts, PipelineAssumption DEF BudgetKept, PTypeOK
    <3>1. CASE g = route[r] /\ k = cred[r]
      <4>1. Granted(g, k)' = Granted(g, k) \cup {r}
        BY <2>4, <3>1 DEF Granted, PTypeOK
      <4>2. Cardinality(Granted(g, k)') <= Cardinality(Granted(g, k)) + 1
        BY <3>0, <4>1, OneMore
      <4>3. budget'[g][k] = budget[g][k] - 1
        BY <2>3, <2>4, <2>5, <3>1
      <4>4. Granted(g, k) \cup {r} \in SUBSET Requests
        BY <3>0
      <4>5. Cardinality(Granted(g, k)') \in Nat
        BY <4>1, <4>4, FiniteParts
      <4> QED BY <3>0, <4>2, <4>3, <4>5
    <3>2. CASE ~(g = route[r] /\ k = cred[r])
      <4>1. Granted(g, k)' = Granted(g, k)
        BY <2>4, <3>2 DEF Granted, PTypeOK
      <4>2. budget'[g][k] = budget[g][k]
        BY <2>3, <2>4, <2>5, <3>2
      <4> QED BY <3>0, <4>1, <4>2
    <3> QED BY <3>1, <3>2
  <2>7. BudgetKept'
    BY <2>4, <2>6 DEF BudgetKept
  <2> QED BY <2>2, <2>7
<1> QED BY <1>2, <1>3, <1>4, <1>5, <1>7, <1>8, <1>9 DEF Inward

(* The handler and the arrival are counted by nobody. *)
LEMMA EndsCount ==
    ASSUME PInv, NEW r \in Requests,
           Arrive(r) \/ HandlerEnds(r) \/ \E code \in HandlerCodes : HandlerWrites(r, code)
    PROVE  GaugeExact' /\ TotalsExact' /\ BudgetKept'
<1> USE DEF PInv
<1>0. Alone(r) /\ OwnInv(r)
  BY ArriveOwn, HandlerOwn
<1>1. UNCHANGED <<route, cred, inflight, total, budget, ticks, paid>>
  BY DEF Arrive, HandlerEnds, HandlerReturns, HandlerPanics, HandlerWrites, Write, netvars,
         obsvars, limvars
<1>2. CASE Arrive(r)
  <2>1. mode[r] = "new" /\ mode'[r] = "call" /\ Depth(r) = 0 /\ Depth(r)' = 1
    BY <1>0, <1>2 DEF Arrive, PTypeOK, Depth, OwnInv, WrittenOK
  <2> QED BY <1>0, <1>1, <2>1, GaugeKept, TotalsKept, BudgetUntouched DEF Inside, Counted
<1>3. CASE HandlerEnds(r)
  <2>1. Depth(r) = 7 /\ mode[r] = "call" /\ Pops(r) /\ mode'[r] \in {"return", "panic"}
    BY <1>3, LayerDepth DEF HandlerEnds, HandlerReturns, HandlerPanics, Leave, Pops, PTypeOK
  <2>2. Depth(r)' = 6
    BY <2>1, LeaveReturns
  <2> QED BY <1>0, <1>1, <2>1, <2>2, GaugeKept, TotalsKept, BudgetUntouched DEF Inside, Counted
<1>4. ASSUME NEW code \in HandlerCodes, HandlerWrites(r, code)
      PROVE  GaugeExact' /\ TotalsExact' /\ BudgetKept'
  <2>1. Depth(r) = 7 /\ mode[r] = "call" /\ UNCHANGED <<frames, mode>>
    BY <1>4, LayerDepth DEF HandlerWrites
  <2>2. Depth(r)' = Depth(r)
    BY <2>1 DEF Depth
  <2> QED BY <1>0, <1>1, <2>1, <2>2, GaugeKept, TotalsKept, BudgetUntouched DEF Inside, Counted
<1> QED BY <1>2, <1>3, <1>4

(* The way out: Metrics counts a request out, whether it returns or panics, *)
(* and counts its answer if it returns.                                     *)
LEMMA OutwardCounts ==
    ASSUME PInv, NEW r \in Requests, Outward(r)
    PROVE  GaugeExact' /\ TotalsExact' /\ BudgetKept'
<1> USE DEF PInv
<1>0. Alone(r) /\ OwnInv(r) /\ OwnInv(r)'
  BY OutwardOwn
<1>b. BudgetKept'
  <2>1. UNCHANGED <<route, cred, paid, budget, ticks>>
    BY DEF Outward, LoggingReturns, MetricsReturns, PassBack, PanicPasses, MetricsUnwinds,
           Recovered, Finish, netvars, limvars
  <2> QED BY <2>1, BudgetUntouched
<1>1. ASSUME NEW m \in {"return", "panic"}, Leave(r, m), Depth(r) > 0
      PROVE  Depth(r)' = Depth(r) - 1 /\ mode'[r] = m /\ UNCHANGED panicked
  <2>1. Pops(r) /\ mode'[r] = m /\ UNCHANGED panicked
    BY <1>1 DEF Leave, Pops, PTypeOK
  <2> QED BY <1>1, <2>1, LeaveReturns
<1>2. ASSUME NEW m \in {"return", "panic"}, Leave(r, m), Depth(r) \in {1, 2, 4, 5, 6},
             mode[r] \in {"return", "panic"}, Depth(r) <= 3 /\ ~panicked[r] => m = mode[r],
             UNCHANGED <<inflight, total>>, ~panicked[r] => UNCHANGED wire[r]
      PROVE  GaugeExact' /\ TotalsExact'
  <2>1. Depth(r)' = Depth(r) - 1 /\ mode'[r] = m /\ UNCHANGED panicked
    BY <1>1, <1>2
  <2>2. Inside(r, 3)' <=> Inside(r, 3)
    BY <1>2, <2>1 DEF Inside
  <2>3. Counted(r)' <=> Counted(r)
    BY <1>2, <2>1 DEF Counted
  <2>4. Counted(r) => Answer(r)' = Answer(r)
    BY <1>2 DEF Counted, Answer
  <2>5. TotalsExact'
    BY <1>0, <1>2, <2>3, <2>4, TotalsKept
  <2> QED BY <1>0, <1>2, <2>2, <2>5, GaugeKept
<1>3. ASSUME NEW m \in {"return", "panic"}, Leave(r, m), Depth(r) = 3, mode[r] = m,
             inflight' = inflight - 1
      PROVE  GaugeExact'
  <2>1. Depth(r)' = 2 /\ mode'[r] = m
    BY <1>1, <1>3
  <2>2. r \in InMetrics /\ InMetrics' = InMetrics \ {r}
    <3>1. Inside(r, 3) /\ ~Inside(r, 3)'
      BY <1>3, <2>1 DEF Inside
    <3>2. \A q \in Requests \ {r} : Inside(q, 3)' <=> Inside(q, 3)
      BY <1>0 DEF Alone, Own, Inside, Depth
    <3> QED BY <3>1, <3>2 DEF InMetrics
  <2>3. Cardinality(InMetrics') = Cardinality(InMetrics) - 1
    BY <2>2, OneMore DEF InMetrics
  <2> QED BY <1>3, <2>3 DEF GaugeExact
<1>4. CASE LoggingReturns(r)
  <2>1. Depth(r) = 4 /\ mode[r] = "return"
    BY <1>4, LayerDepth DEF LoggingReturns
  <2> QED BY <1>2, <1>4, <1>b, <2>1 DEF LoggingReturns, netvars
<1>5. CASE MetricsReturns(r)
  <2>1. Depth(r) = 3 /\ mode[r] = "return" /\ Leave(r, "return") /\ inflight' = inflight - 1
    BY <1>5, LayerDepth DEF MetricsReturns
  <2>2. GaugeExact'
    BY <1>3, <2>1
  <2>3. /\ Depth(r)' = 2 /\ mode'[r] = "return" /\ ~panicked[r] /\ ~panicked'[r]
        /\ captured[r] = Answer(r)
    BY <1>0, <1>1, <2>1 DEF OwnInv, PanicOK, WrittenOK
  <2>4. ASSUME NEW c \in Codes PROVE total'[c] = Cardinality(CountedAs(c)')
    <3>0. total[c] = Cardinality(CountedAs(c)) /\ CountedAs(c) \in SUBSET Requests
      BY DEF TotalsExact, CountedAs
    <3>1. total' = [total EXCEPT ![captured[r]] = total[captured[r]] + 1] /\ total \in [Codes -> Nat]
      BY <1>5 DEF MetricsReturns, PTypeOK
    <3>2. \A q \in Requests \ {r} : (Counted(q) /\ Answer(q) = c)' <=> (Counted(q) /\ Answer(q) = c)
      BY <1>0 DEF Alone, Own, Counted, Answer, Depth
    <3>3. ~Counted(r) /\ Counted(r)' /\ Answer(r)' = captured[r]
      BY <1>5, <2>1, <2>3 DEF Counted, Answer, MetricsReturns, netvars
    <3>4. CASE c = captured[r]
      <4>1. r \notin CountedAs(c) /\ CountedAs(c)' = CountedAs(c) \cup {r}
        BY <3>2, <3>3, <3>4 DEF CountedAs
      <4> QED BY <3>0, <3>1, <3>4, <4>1, OneMore
    <3>5. CASE c # captured[r]
      <4>1. CountedAs(c)' = CountedAs(c)
        BY <3>2, <3>3, <3>5 DEF CountedAs
      <4> QED BY <3>0, <3>1, <3>5, <4>1
    <3> QED BY <3>4, <3>5
  <2> QED BY <1>b, <2>2, <2>4 DEF TotalsExact
<1>6. CASE PassBack(r)
  <2>1. Depth(r) \in {1, 2, 5, 6} /\ mode[r] = "return"
    BY <1>6, LayerDepth DEF PassBack
  <2> QED BY <1>2, <1>6, <1>b, <2>1 DEF PassBack, netvars, obsvars
<1>7. CASE PanicPasses(r)
  <2>1. Depth(r) \in {4, 5, 6} /\ mode[r] = "panic"
    BY <1>7, LayerDepth DEF PanicPasses
  <2> QED BY <1>2, <1>7, <1>b, <2>1 DEF PanicPasses, netvars, obsvars
<1>8. CASE MetricsUnwinds(r)
  <2>1. Depth(r) = 3 /\ mode[r] = "panic" /\ Leave(r, "panic") /\ inflight' = inflight - 1
    BY <1>8, LayerDepth DEF MetricsUnwinds
  <2>2. panicked[r] /\ panicked'[r]
    BY <1>0, <1>1, <2>1 DEF OwnInv, PanicOK
  <2>3. TotalsExact'
    BY <1>0, <1>8, <2>2, TotalsKept DEF MetricsUnwinds, Counted
  <2> QED BY <1>3, <1>b, <2>1, <2>3
<1>9. CASE Recovered(r)
  <2>1. Depth(r) = 2 /\ mode[r] = "panic" /\ panicked[r]
    BY <1>0, <1>9, LayerDepth DEF Recovered, OwnInv, PanicOK
  <2> QED BY <1>2, <1>9, <1>b, <2>1 DEF Recovered, obsvars
<1>10. CASE Finish(r)
  <2>1. /\ Depth(r) = 0 /\ mode[r] \in {"return", "panic"} /\ mode'[r] = "done"
        /\ UNCHANGED <<inflight, total, frames, panicked>>
        /\ wire'[r] = IF mode[r] = "panic" THEN Aborted ELSE IF wire[r] = NoCode THEN 200 ELSE wire[r]
    BY <1>10 DEF Finish, PTypeOK, obsvars
  <2>2. Depth(r)' = 0
    BY <2>1 DEF Depth
  <2>3. GaugeExact'
    BY <1>0, <2>1, <2>2, GaugeKept DEF Inside
  <2>4. Counted(r)' <=> Counted(r)
    BY <1>0, <2>1, <2>2 DEF Counted, OwnInv, PanicOK
  <2>5. Counted(r) => Answer(r)' = Answer(r)
    BY <1>0, <2>1 DEF Counted, Answer, OwnInv, PanicOK, NoCode
  <2>6. TotalsExact'
    BY <1>0, <2>1, <2>4, <2>5, TotalsKept
  <2> QED BY <1>b, <2>3, <2>6
<1> QED BY <1>4, <1>5, <1>6, <1>7, <1>8, <1>9, <1>10 DEF Outward

(* A refill gives each bucket at most one token. *)
LEMMA RefillCounts ==
    ASSUME PInv, Refill \/ UNCHANGED pvars
    PROVE  GaugeExact' /\ TotalsExact' /\ BudgetKept'
<1> USE DEF PInv
<1>1. UNCHANGED <<frames, mode, panicked, wire, inflight, total, route, cred, paid>>
  BY DEF Refill, pvars, netvars, obsvars, limvars
<1>2. InMetrics' = InMetrics /\ \A c \in Codes : CountedAs(c)' = CountedAs(c)
  BY <1>1 DEF InMetrics, CountedAs, Inside, Counted, Answer, Depth
<1>3. GaugeExact' /\ TotalsExact'
  BY <1>1, <1>2 DEF GaugeExact, TotalsExact
<1>4. CASE Refill
  <2>1. ASSUME NEW g \in Routes, NEW k \in Keys
        PROVE  Cardinality(Granted(g, k)') + budget'[g][k] <= Burst + ticks'
    <3>1. Granted(g, k)' = Granted(g, k) /\ Cardinality(Granted(g, k)) \in Nat
      <4>1. Granted(g, k) \in SUBSET Requests
        BY DEF Granted
      <4> QED BY <1>1, <4>1, FiniteParts DEF Granted
    <3>2. budget'[g][k] = IF budget[g][k] < Burst THEN budget[g][k] + 1 ELSE Burst
      BY <1>4 DEF Refill
    <3>3. ticks' = ticks + 1 /\ budget[g][k] \in 0..Burst /\ ticks \in Nat /\ Burst \in Nat
      BY <1>4, PipelineAssumption DEF Refill, PTypeOK
    <3>4. Cardinality(Granted(g, k)) + budget[g][k] <= Burst + ticks
      BY DEF BudgetKept
    <3> QED BY <3>1, <3>2, <3>3, <3>4
  <2> QED BY <1>3, <2>1 DEF BudgetKept
<1>5. CASE UNCHANGED pvars
  BY <1>3, <1>5, BudgetUntouched DEF pvars, netvars, limvars
<1> QED BY <1>4, <1>5

(* All of the invariant is kept by every step. *)
LEMMA PInvStep == PInv /\ [PNext]_pvars => PInv'
<1> SUFFICES ASSUME PInv, [PNext]_pvars PROVE PInv'
  OBVIOUS
<1>1. GaugeExact' /\ TotalsExact' /\ BudgetKept'
  BY InwardCounts, EndsCount, OutwardCounts, RefillCounts DEF PNext
<1>2. inflight' \in Nat
  <2>1. InMetrics' \in SUBSET Requests
    BY DEF InMetrics
  <2> QED BY <1>1, <2>1, FiniteParts DEF GaugeExact
<1>3. StackOK' /\ RestOK'
  BY TypeStep DEF PInv
<1>4. PTypeOK'
  BY <1>2, <1>3 DEF PTypeOK, StackOK, RestOK, Contexts, Modes
<1>5. \A q \in Requests : OwnInv(q)'
  BY OwnStep DEF PInv
<1> QED BY <1>1, <1>4, <1>5 DEF PInv

(* The invariant holds in every reachable state. *)
LEMMA PInvAlways == PSpec => []PInv
BY PInvInit, PInvStep, PTL DEF PSpec

-----------------------------------------------------------------------------
(* What the middleware promises. *)

(* The types; in particular requests_in_flight never goes below zero        *)
(* (internal/middleware).                                                   *)
THEOREM PipelineType == PSpec => []PTypeOK
<1>1. PInv => PTypeOK
  BY DEF PInv
<1> QED BY <1>1, PInvAlways, PTL

(* The in-flight gauge counts the requests inside Metrics, also while       *)
(* panics unwind (middleware.Metrics, the deferred Dec).                    *)
THEOREM GaugeIsExact == PSpec => []InFlightGauge
<1>1. PInv => InFlightGauge
  BY DEF PInv, GaugeExact, InMetrics, InFlightGauge
<1> QED BY <1>1, PInvAlways, PTL

(* One line and one count per request whose handler did not panic, with the *)
(* status the client got; no line says anything else, and no more is        *)
(* counted than panicked requests could account for (middleware.Logging,    *)
(* middleware.Metrics).                                                     *)
THEOREM ObservationsAreTrue == PSpec => []ObservedAsAnswered
<1>1. ASSUME PInv PROVE ObservedAsAnswered
  <2>1. ASSUME NEW r \in Requests
        PROVE  /\ \A l, m \in line[r] : l = m /\ l.status = Answer(r)
               /\ r \in Left(4) /\ ~panicked[r] => line[r] # {}
    <3>1. LineOK(r) /\ PanicOK(r)
      BY <1>1 DEF PInv, OwnInv
    <3>2. r \in Left(4) /\ ~panicked[r] => Logged(r)
      BY <3>1 DEF Left, PanicOK, Logged
    <3> QED BY <3>1, <3>2 DEF LineOK
  <2>2. ASSUME NEW c \in Codes
        PROVE  LET answered == {r \in Left(3) : ~panicked[r] /\ Answer(r) = c}
               IN  /\ total[c] >= Cardinality(answered)
                   /\ total[c] <= Cardinality(answered \cup {r \in Left(3) : panicked[r]})
    <3> DEFINE answered == {r \in Left(3) : ~panicked[r] /\ Answer(r) = c}
               more == answered \cup {r \in Left(3) : panicked[r]}
    <3>1. \A r \in Requests : PanicOK(r)
      BY <1>1 DEF PInv, OwnInv
    <3>2. \A r \in Requests : r \in Left(3) /\ ~panicked[r] <=> Counted(r)
      BY <3>1 DEF Left, PanicOK, Counted
    <3>3. answered = CountedAs(c)
      BY <3>2 DEF CountedAs, Left
    <3>4. total[c] = Cardinality(answered)
      BY <1>1, <3>3 DEF PInv, TotalsExact
    <3>5. IsFiniteSet(more)
      <4>1. more \in SUBSET Requests
        BY DEF Left
      <4> QED BY <4>1, FS_Subset, PipelineAssumption
    <3>6. answered \in SUBSET more
      OBVIOUS
    <3>7. /\ Cardinality(answered) \in Nat
          /\ Cardinality(answered) <= Cardinality(more)
      <4> HIDE DEF answered, more
      <4> QED BY <3>5, <3>6, FS_Subset, FS_CardinalityType
    <3> QED BY <3>4, <3>7
  <2> QED BY <2>1, <2>2 DEF ObservedAsAnswered
<1> QED BY <1>1, PInvAlways, PTL

(* No handler runs for a request without a stored key and without a token:  *)
(* Auth is outside RateLimit in both chains (server.go, main.go).           *)
THEOREM HandlerIsPaid == PSpec => []HandlerPaid
<1>1. ASSUME PInv PROVE HandlerPaid
  <2>1. Len(Layers) = 7
    BY DEF Layers
  <2>2. ASSUME NEW r \in Requests, Depth(r) = Len(Layers) PROVE cred[r] \in Keys /\ paid[r]
    BY <1>1, <2>1, <2>2 DEF PInv, OwnInv, AuthOK
  <2> QED BY <2>2 DEF HandlerPaid
<1> QED BY <1>1, PInvAlways, PTL

(* In each group of endpoints a key gets no more than its burst and the     *)
(* refills, however many requests compete for it (middleware.RateLimit).    *)
THEOREM KeyBudgetKept == PSpec => []KeyBudget
<1>1. ASSUME PInv PROVE KeyBudget
  <2>1. ASSUME NEW g \in Routes, NEW k \in Keys PROVE Cardinality(Granted(g, k)) <= Burst + ticks
    <3>1. Granted(g, k) \in SUBSET Requests
      BY DEF Granted
    <3>2. Cardinality(Granted(g, k)) + budget[g][k] <= Burst + ticks /\ budget[g][k] \in Nat
          /\ Burst \in Nat /\ ticks \in Nat /\ Cardinality(Granted(g, k)) \in Nat
      BY <1>1, <3>1, FiniteParts, PipelineAssumption DEF PInv, BudgetKept, PTypeOK
    <3> QED BY <3>2
  <2> QED BY <2>1 DEF KeyBudget
<1> QED BY <1>1, PInvAlways, PTL

=============================================================================
