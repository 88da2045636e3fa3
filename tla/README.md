# A TLA+ model of inferencia

inferencia is a gateway in front of local inference servers: it authenticates and
rate-limits OpenAI-style requests, chooses a healthy backend (Ollama, MLX, or a
text-to-speech server), relays the call and reports metrics. The interesting state is
small and shared: the watchdog's verdicts, the balancers' in-flight counts, the rate
limiter's buckets, the response of each request. All of it is touched by one goroutine
per request, by the watchdog's goroutine, by the limiter's cleanup goroutine and by
`main`, and almost every operation is a sequence of short critical sections rather than
one. That is what these modules model, check with TLC, and in part prove with TLAPS.

Model-check a module with `tlc -config X.cfg M`, prove one with `tlapm M.tla`.
`PROJECT.json` lists the runs, the source lines of every definition, the hazards and
the theorems.

## 1. Inventory

| component | source | state | operations | talks to |
|---|---|---|---|---|
| watchdog | `internal/watchdog` | per name: failures, verdict; the `backend_healthy` gauge | `Start`, the probe loop, `checkBackend`, `IsHealthy`, `Stop` | calls every backend's `Health`; read by both selectors |
| load balancer | `internal/backend/loadbalancer.go` | in-flight count per name, round-robin counter | `Select`, `Acquire`, `Release` | one in the chat registry, one in the speech router |
| chat registry | `internal/backend/backend.go` | backends, primary | `Register`, `PrimaryHealthy`, `ReleaseBackend` | watchdog, balancer |
| handlers | `internal/handler/{chat,embeddings,models}.go` | per request | validate, select, call, release, answer | registry, adapters |
| stream relay | `handler/chat.go`, `backend/{ollama,mlx}.go` | position in the upstream body, events sent | connect, scan, send, return | upstream, client |
| speech router and handler | `internal/router`, `handler/audio.go` | backends by capability, balancer, two counters | register, score, pick, synthesize, release | watchdog, TTS adapter |
| rate limiter | `middleware/ratelimit.go` | buckets by key | `Allow`, `cleanup`, `Stop` | the pipeline |
| middleware pipeline | `internal/middleware`, `server/server.go` | call stack per request, metrics, log | RequestID, Recover, Metrics, Logging, Auth, RateLimit | key store, limiter, handlers |
| configuration | `internal/config`, `internal/auth/keystore.go` | the settings and the keys | defaults, file, environment, validation, key loading | `main`, once |
| life cycle | `cmd/inferencia/main.go`, `server.Shutdown` | phase, shutdown context | configure, register, start watchdog, listen, signal, drain, exit | everything |
| adapters and errors | `backend/{ollama,mlx,tts,httpclient}.go`, `internal/apierror` | per call | `Health`, `ChatCompletion`, `ListModels`, `CreateEmbedding`, `Synthesize`, `Voices`; `FromBackendError` | upstream servers; called by handlers and watchdog |
| health endpoints | `handler/{health,health_status}.go` | the same gauge | `Ready`, `HealthStatus` | call every backend's `Health` |
| Kokoro server | `deploy/tts-servers` (two scripts, a launchd job) | the loaded model, `_load_lock`, what the event loop is at | start, load, health, speech, models | the watchdog and the TTS adapter |
| docs, logging and tracing set-up | `handler/docs.go`, `internal/{openapi,logging,observability}` | none | constant documents, formatting of records | |

What makes each part correct, and what makes it hard:

* **Watchdog.** The verdict on a backend is "its last `fail_threshold` probes failed",
  no sooner and no later. Hard: the health call runs outside the lock and is booked
  later; `Stop` cancels a probe that is then booked as a failure; chat and TTS backends
  share one map keyed by name; `select` may prefer the ticker although the context is
  done.
* **Selection (chat and speech).** A request goes to a backend that was seen healthy, is
  refused only when none was, and the in-flight count is exact on every way out. Hard:
  one `IsHealthy` call per backend while verdicts change, `Select` and `Acquire` as two
  critical sections, errors, panics, clients that leave.
* **Rate limiter.** It is a token bucket, whatever the lazy refill and the deletion of
  idle buckets do, and its headers tell the truth. Hard: fractions of tokens, the cap,
  the cleanup racing with requests, slow configurations.
* **Pipeline.** Only authenticated, paid requests reach the handler; everyone gets an
  answer; gauge, counter and log agree with the answer. Hard: the order of the layers,
  panics that skip what is not deferred, answers written before a panic.
* **Stream relay.** Events arrive in order, once, and nothing follows `[DONE]`; a
  reported success is complete; the handler ends. Hard: the 200 is sent before the
  upstream is connected, the upstream breaks within a line, or is silent for ever.
* **Health endpoints.** A reply says what the backends were during the check, and the
  gauge they share with the watchdog does not stay wrong. Hard: backends asked one after
  the other, a result written after the watchdog has changed its verdict, a client that
  leaves and makes the call of a live backend fail.
* **Life cycle.** No traffic before the first verdicts; after the signal the process
  drains or gives up after 15 s, and always exits. Hard: endless streams, requests that
  arrive while the tracer is flushed or the process drains, a listener that fails and a
  ticker that panics with requests under way.
* **Adapters and errors.** A success is a whole reply; the class of an error says what
  happened; a call with a timeout ends. Hard: a failure may come at every stage, part of
  the error's text is the upstream's, the class depends on words and on the order of tests,
  the transport has timers of its own.
* **Configuration.** What listens has the settings and the entries somebody wrote, and
  they satisfy what the other parts rely on. Hard: three sources that overlap, equal names,
  settings nobody validates and whose effect shows in another goroutine.
* **Kokoro server.** A loaded model is used, again and again; a failed one is kept away
  from. Hard: health calls fail while the event loop works; a flag that a failed load
  leaves set; a health check that waits for the first request and a gateway that waits for
  the health check.

## 2. Modules

| module | models | instantiates |
|---|---|---|
| `Watchdog` | the watchdog | |
| `LoadBalancer` | one balancer, as actions on `active` and `rr` | |
| `Gateway` | life cycle, chat registry, concurrent requests | EXTENDS `Watchdog`, INSTANCE `LoadBalancer` |
| `TokenBucket` | abstract specification: an eager, never forgetting token bucket | |
| `RateLimiter` | the lazy limiter with its cleanup | INSTANCE `TokenBucket` (refinement) |
| `Readiness` | the health endpoints beside the watchdog | EXTENDS `Watchdog` |
| `Pipeline` | the middleware chain | |
| `ChatStream` | one streaming completion | |
| `Speech` | speech router and handler | INSTANCE `LoadBalancer` |
| `Upstream` | one call of an adapter, and the class of its error | |
| `Kokoro` | a Kokoro server behind watchdog and router | EXTENDS `Watchdog` |
| `Config` | configuration and key loading, as operators | |
| `Boot` | `main` from the configuration to a listening process | EXTENDS `Config` |
| `MCGateway`, `MCSpeech`, `MCBoot` | constants, symmetry and constraint for TLC | |
| `WatchdogProofs`, `SpeechProofs`, `PipelineProofs`, `ChatStreamProofs` | theorems about the module of that name | EXTENDS it |
| `GatewayProofs`, `ReadinessProofs` | theorems about the module of that name | EXTENDS it and `WatchdogProofs` |
| `UpstreamProofs` | theorems about the upstream side: `Upstream` and `Kokoro` | EXTENDS both and `WatchdogProofs` |
| `BootProofs` | theorems about what has no request in it: `Boot` with `Config`, and the limiter's buckets | EXTENDS `Boot`, `RateLimiter` |

Definitions marked "Faulty variant" are used by no specification. Each is a plausible
bug in the definition that follows it, kept to show that the property it is paired with
in `PROJECT.json` notices.

### Watchdog
`states` is the map in the struct (`probed` are its keys), `gauge` the Prometheus gauge.
A probe is `Answer` (the HTTP call returns; it fails if the service is down or the
context is cancelled) followed by `Apply` (the critical section of `checkBackend`: entry,
count, verdict, gauge). `Start` runs its round in the caller; `LoopTick` and `LoopDone`
are the two cases of the `select`. `streak` is a history variable: how many probes in a
row really found the service down. `MaxFailures` caps the counters; it is at least the
threshold, so saturation never changes a verdict. Nothing requires names to differ:
`Services` are pairs of a kind and a name, `states` is keyed by the name alone.

### Gateway
`phase` is where `main` is. A request is `Arrive`/`Reject` (body validation), one `Scan`
per `IsHealthy` call of `healthyOrderLocked` (the primary first, the others in map
order), `Refuse` or `SelectBackend`, `AcquireBackend`, `CallReturns`, the deferred
`ReleaseBackend`, and `Reply`. The registry's lock is a read lock here and excludes only
`Register`, which happens before any request, so it does not appear. A stream's status is
already 200 when its call begins. `seen` is a history: which backends were healthy and
which degraded at some moment of the selection that runs. The watchdog's actions are
embedded with the process as their guard; `VerdictApplied` extends the histories. After
`Exit` nothing runs. Two more ways lead out of the process, with requests under way or
not: `ListenFails` (`main` exits whenever `ListenAndServe` fails before `Shutdown` is
called) and `TickerPanics` (the watchdog's goroutine, at an interval that is not positive;
`ticks` says whether it is). Requests arrive until the end of the drain, because a
connection accepted before `Shutdown` may still deliver one.

### Readiness
A check asks one service at a time: `Look` (its health call returns; it fails if the
service is down or the client has left) and `ReadyUses` or `StatusUses` (the handler uses
the result). `Ready` writes the gauge of `Watchdog` and stops at the first failure;
`HealthStatus` asks all and writes nothing. The lists of models and voices a healthy
service adds are payload. `was` is a history: what each service was at some moment of the
check.

### RateLimiter and TokenBucket
Time is a tick counter and tokens are counted in units of which `Token` make one, so that
fractions are exact integers; the code's `float64` rounding is not modelled. `Fill` is
the refill `Allow` computes; `AllowGrants`/`AllowDenies` are its two outcomes with the
answer the middleware gives. The ticker's channel holds one tick (`due`). `win` is an
observer that may start counting the grants of a key at any moment. `TokenBucket` has a
level per key, refilled at every tick, and never deletes anything; `RateLimiter` maps its
level to `Fill(k)` at the present time.

### Pipeline
`Chain` nests handlers, so a request is a stack: `frames[r]` holds the context every
entered layer was called with, `mode` says whether the innermost layer is called,
returned to, or unwound by a panic. Only deferred calls act on the way of a panic.
`wire` is the status on the connection (the first one written), `captured` the status in
the writers of Metrics and Logging, which keep the first one too. The groups of endpoints (`Routes`: the OpenAI-style
API, and the speech endpoint) have a limiter each. Buckets are whole tokens here; the
fractions are in `RateLimiter`.

### ChatStream
`lines` is what the upstream has sent, by kind (`data: …`, `data: [DONE]`, other);
`upEnd` how its body ended, `torn` whether it broke within a data line. Ollama and MLX
have the same loop. `gone` stands for the cancelled request context.

### Speech
The watchdog appears by its verdicts only, which change at any moment (a superset of
what `Watchdog` does). Names appear by how they relate (`Extends`: one begins with the
other), because that is all scoring looks at. `BackendsByCapability` lists in map order,
so `Scan` takes the backends in any order. `sick` is the history of the selection. An
entry may have no adapter (`Adapterless`): the handler then counts a decision and answers
503 (`DispatchNowhere`). `main` registers no such entry, since `NewTTSHTTP` always returns
an adapter. A call may panic (`SynthesizePanics`): the deferred release runs, no outcome
is counted, and the Recover layer answers 500.

### Upstream
A call goes from connecting to waiting for the status line to reading the reply, or the
body of an error. `TransportFails`, `Malformed` (net/http quotes what it could not read),
`Expires` (the client's timer or the watchdog's deadline) and `Cancelled` may come at every
stage. The clients use `http.DefaultTransport`: it dials for at most 30 s (`DialExpires`),
may give up a TLS handshake, and follows redirects, whose URL a later error quotes
(`Redirected`). `ClosedEarly` is an upstream that closes in the middle of its reply:
`framed` says whether the reply said where it ends; if it did not, `io.ReadAll` takes half
the audio for all of it. `cut` and `fired` are histories: something ended the call before
the upstream had said all, and it was one of the gateway's timers. An error is a record of what
`FromBackendError` looks at: is there a deadline, a `net.OpError`, does it say `Timeout`,
which status and which of the words (`Marks`) are in its text. The body of an error, a
malformed reply and a redirect's URL are the upstream's, so any of the words may be in
them. `limit` says which HTTP clients have a
timeout: `main` gives the health client of a chat backend a default; the inference client
and the one client of a TTS backend have what the entry says, which may be nothing.

### Config and Boot
`Load` is a function: `FromFile`, `ApplyEnvOverrides`, `Valid`. Each of the settings a
check depends on has a value in the file and in the environment, or `Unset`; a value of
the environment may be `Garbage`, which does not parse. Numbers are whole numbers; the
rate, a floating point setting, may also be `NaN` or `Infinity`, which both YAML and
`strconv.ParseFloat` accept. Names, types and URLs are members of
`Texts`, of which `Empty` is the zero value; `ConfigAssumption` says that the names the code
has literals for are among them, `BootAssumption` that what an operator writes has the type of its
setting (anything else does not unmarshal). `Boot` lets an operator edit
either while the process is down, starts it, and follows `main` up to `Listen`; `Gateway`
goes on from there. The watchdog's goroutine is a process of its own, because
`time.NewTicker` panics there.

### Kokoro
`server` is the process: not running, starting, or serving; one job at a time, because
loading and synthesis block the event loop; `lock` is `_load_lock`. `script` chooses
between the script that loads before it listens and the one that loads at its first
request. The service's `up` in `Watchdog` is no longer free: a health call succeeds if the
event loop is idle and the model loaded. `call` is the gateway's request; `abandoned`
counts requests nobody at the gateway waits for that the server will still read: those the
gateway gave up, and those that others send to the server itself (`SpeechAsked`, at most
`MaxDirect` times; `ModelsAsked` for `/v1/models`).

## 3. Runs

| run | bounds | what it shows |
|---|---|---|
| `watchdog` | a chat and a TTS backend of one name, a chat backend with its own, threshold 3 | the verdict on a name lies between the shortest streak and the sum of the streaks, which for one service is exactness; names whose services settle are followed; `Stop` ends the loop |
| `readiness` | 2 chat backends, threshold 1, one check at a time | replies justified by what the backends were during the check; the shared gauge heals; every check is answered |
| `gateway` | 2 backends, 2 requests, up to the signal | exact in-flight counts, `Select` always has one backend to return, justified picks and refusals, no traffic before the first round |
| `gateway_shutdown` | 1 backend, 2 requests of kinds models and stream, whole life, crashes included | after a signal the process ends; every request but an endless stream is answered, unless the process crashes or the 15 s are over |
| `rate_limiter` | 2 keys, burst 2, half a token per tick, 7 ticks | window bound, honest headers, bounded idle buckets, refinement of `TokenBucket` |
| `pipeline` | 2 requests, 2 groups of endpoints, a good and a bad key, burst 1, 1 refill | gauge is exact; counter and log agree with the answers of requests that did not panic; handler only for paid requests; budgets kept; everyone is answered |
| `pipeline_log` (violation) | 2 requests with a key, one of which panics | a panicked request has no line and no count, and the line of the other does not name its key |
| `chat_stream` | up to 4 lines | order, completeness, end |
| `speech` | 3 backends (two names extend the third, one of them without an adapter), 2 requests | the model decides, refusals are justified, counters and in-flight counts agree |
| `upstream` | 7 status lines, every stage, with and without timeouts | a success is whole, the class is true, a call with a timeout ends |
| `kokoro` | one chat backend and one Kokoro server of either script, threshold 2, one request in the server's socket that the gateway does not wait for, one speech request from somebody else | the verdict is exact for distinct names; a failed load is final and degrades for good, a loaded server is routed to again and again, every call ends, a starved server stays starved |
| `boot` | every pair of edits out of about 70, 3 key files, restarts in between | what listens meets the other modules' assumptions, registries as configured, an interval of zero ends the process |

Why the bounds are enough. Two requests give every pair of interleaved selections, and
the properties about requests mention one or two of them. Two chat backends give a
choice, a tie, a primary and another, and one healthy beside one degraded; two groups of
endpoints and two requests of one key are a key that meets one limiter twice, or both; the speech run
needs a third to have a tie in the prefix tier while the exact match exists. Threshold 2
is the first at which an isolated failure must not degrade, which is why `kokoro` has it; the gateway uses 1, which
makes verdicts change as often as possible. Threshold 3 is the first at which two services
under one name can add up to a degradation in more than one way. The limiter's seven ticks are long enough for
a bucket to empty, become stale (after 4), be cleaned and be used again. Four upstream
lines hold an event, a skipped line, `[DONE]` and something after it. A single call of an
adapter has no neighbour it shares anything with. One abandoned request is enough to be
read between any two steps of an awaited one, and threshold 2 lets a health call fail
while Kokoro speaks without degrading it at once. Two edits give every pair of a file and
a variable that overlap, and every value on either side of a check. The
health checks run with threshold 1, so that the verdict, and with it the gauge, changes
as often as it can between two writes of a readiness check, and with two chat backends,
the fewest for which "all" and "the first that fails" differ. For the safety
properties the theorems below remove the bounds. In `gateway` a constraint stops
the exploration at the signal: the traffic after it is explored by `gateway_shutdown`.

Type invariants are theorems (section 4) and in no run.

Deadlock is checked except in the pipeline runs, whose requests are served once and then
are done. `Gateway` and `ChatStream` have an explicit stuttering step after the end. Two
runs use symmetry (backends and requests, or requests); they check invariants only.

### Fairness
* Watchdog: a health call has a deadline (the adapters' health client and the cancelled
  context), a critical section ends, the ticker fires: weak fairness. Go's `select`
  chooses at random among ready cases, so a cancelled loop cannot take the ticker for
  ever: strong fairness of `LoopDone`.
* Gateway: goroutines run; the 15 s timer fires; an upstream call returns because the
  adapter's HTTP client has a timeout, provided the configured `timeout` is positive. A
  stream's client has none, so no fairness is assumed for the end of a stream. Nothing
  forces a request, a signal or a change of a service.
* Readiness: the watchdog as above; a check goes on because health calls have the
  adapter's timeout (`health_timeout`, five seconds by default, for a chat backend;
  the `timeout` of a TTS entry, which is assumed to be there). No check is forced.
* Upstream: a timer that runs fires. Nothing is assumed of the upstream.
* Kokoro: the watchdog as above; launchd restarts a process that ended (`KeepAlive`); a
  load and a synthesis end; the gateway's TTS client has a timeout (30 s when the entry
  comes from the environment); clients of the gateway keep asking for speech. Nobody has
  to ask the server itself, for models or for speech, and no process has to die.
  `RoutingFollowsLoad` further assumes that only the gateway occupies the server with
  speech: others do so at most `MaxDirect` times, because somebody who kept it speaking
  could make every health call fail and keep it degraded.
* Boot: `main` and the watchdog's goroutine run. Nobody has to edit, start or stop.
* Pipeline: the goroutine of a request runs and the handler ends.
* ChatStream: the handler's goroutine runs; nothing is assumed of upstream and client.
* RateLimiter and Speech: safety only.

### Where code and documents part
`pipeline_log` states sentences of the repository and shows a behaviour of the code that
breaks them; `PROJECT.json` quotes them. Its property, `SomePromiseKept`, is the weakest
there is: at least one of three promises holds. A single counterexample therefore refutes
all three:

* every request has a canonical log line (`docs/METRICS_AND_LOGGING.md:86`,
  `logging.go:9`): Logging has no deferred call, so the request of a panicked handler has
  none;
* Metrics "records Prometheus metrics for every request" (`metrics.go:119`): it does not
  count such a request either;
* the line includes the masked key (`server.go:28`): Logging is outside Auth and reads the
  context of its own request, which never has the key.

`ObservedAsAnswered` is what remains true; it promises nothing of panicked requests beyond
that they leave nothing false.

Further divergences were noticed while modelling, and the properties that pass are stated
so as to be true beside them:

* `requests_per_second` "must be positive" (`config.go:305`), but the test is `<= 0` on a
  `float64`, which NaN passes, and a limiter whose tokens are NaN never denies
  (`ratelimit.go:93-96`). `ListeningSound` says that the rate is positive unless the
  operator has written NaN. `RateLimiter` assumes a rate that is a number.
* "Environment variables (INFERENCIA_*) override file values" (`config.example.yaml:6`,
  and `config.go:3`), but those with the URL of a TTS backend only add an entry that the
  file does not have: with a `kokoro` entry in the file, `INFERENCIA_KOKORO_URL` (line 9 of
  the example) has no effect (`config.go:208`). `TTSFromSources` says that nothing is lost
  or invented and that no variable adds a name twice, and not which of the two wins.
* `PrimaryHealthy` promises least connections (`backend.go:145`), but `Select` and
  `Acquire` are two steps, so two requests may choose the same idle backend while another
  one is idle too. The counts stay exact (`InFlightExact`).
* The cleanup deletes a bucket ten minutes after its last request (`ratelimit.go:119`)
  even if it is not full again by then, which gives the key tokens. `WindowBound` and the
  refinement hold, and are proved, if `RefillCoversIdle`: 600 · `requests_per_second` is
  at least `burst`.
* `Retry-After` is always 1, too little below one request per second (`HeadersHonest` is
  proved from one request per second up).
* Requests are "rate-limited per API key" (`docs/AGENT_ONBOARDING.md:456`): per key and
  group of endpoints, because `main` builds a second limiter for the speech endpoint.
* `bufio.Scanner` returns an unfinished last line before it reports the read error
  (`ollama.go:120`), so the client may get half an event, although `openapi.yaml:354` says
  what an event looks like. It is the last one, and the relay does not report success.
* A stream whose upstream fails ends with a 200 and without `[DONE]`.
* The dialler's 30 s end a call long before the default 300 s of a chat client, and are a
  504. A TLS handshake that times out has none of the words `isClientTimeout` knows and
  says `Timeout`, so it is a backend that is unavailable. Words of a malformed reply or of a
  redirect's URL decide the class like those of an error's body.
* Audio without a length or chunks that ends early is a success (`tts.go:95`), because
  nobody can tell; `OkIsWhole` excepts it.
* A routing decision whose call panics, or whose entry has no adapter, has no outcome in
  the metric (`audio.go:85-95`); `DecisionsAccounted` says that these are the only ones.
* The readiness check writes 0 into `inferencia_backend_healthy` for a live backend when
  its own client leaves, and may write 1 over a fresher 0, until the next probe
  (`GaugeHeals` is what remains true).
* A chat and a TTS backend under one name share a failure count, so the one that is down
  may never be degraded; `VerdictIsShared` is what remains true.
* A request can be refused although at every moment some backend was healthy, because
  verdicts are read one by one. The speech router's round robin counts positions in a list
  whose order is random.
* The lazy Kokoro script is "loaded on first request" (`kokoro_server.py:78`), but it is
  not healthy before, and three failed probes after its start the gateway sends it no
  request: `StarvedForGood` shows that only a request to the server itself, for
  `/v1/models` (which the script's own message asks for) or for speech, or a restart helps. After a failed load it answers that
  Kokoro "is still loading" for ever (`FailedLoadIsFinal`).
* An `interval` that is not positive passes validation and ends the process in the
  watchdog's goroutine (`CrashWasAsked`); a `request_timeout` that is not positive makes
  every probe fail at once. A variable that does not parse is said to be replaced by the
  "default" (`config.go:250`); it really leaves the file's value.
* A TTS entry of the file without a `timeout` has none, not even for health checks, while
  `main` gives a chat backend's health client five seconds.

## 4. Proofs

All theorems hold for every value of the constants within the named assumptions of the
modules (finite sets, positive bounds: what constructors, validation and types enforce).
Where a theorem needs names that differ it says so itself (`ASSUME DistinctNames`).
Each module's type invariant is a theorem.

* **Watchdog.** `WatchdogType`; `VerdictExact`: if chat and TTS names are distinct,
  `DownIsDegraded` and `DegradedIsDown` always hold. Neither is inductive: between
  `Answer` and `Apply` the count lags the streak. `WInv` adds that the verdict follows
  from the failure count (`Judged`), that at most one answer is pending (`OneAnswer`), and
  that the count with the pending answer booked is the streak, or at least the streak
  once `Stop` made probes fail (`Counted`). Distinct names are needed: under a shared name
  TLC finds the service that is up resetting the count of the one that is down, so that
  `DownIsDegraded` fails. `SharedVerdict` is what holds without that hypothesis, for names
  shared in any way: a name is degraded once all its services have failed their last
  `fail_threshold` probes, and until `Stop` only if their failures in a row add up to it.
  Its invariant `SharedInv` replaces `Counted` by `CountedTogether`: the count with the
  pending answer booked lies between the shortest streak of the name's services and their
  sum. `SharedIsExact` shows that for a service with a name of its own the two bounds
  meet, so nothing is lost against `VerdictIsExact`.
* **Gateway.** `GatewayType`; `InFlightCounted` needs `PickInv` (a request has a pick
  exactly from selection to release), which makes every acquire and release change the
  set of holders by one; `ProbedFirst` needs `BootInv`, the order of `main` and the first
  round; `SelectionJustified` needs `ViewInv`: the history covers the present verdicts,
  every candidate found, and every backend already looked at when none was found (with
  `StatusInv`: a refusal is the only way to "unavailable"). `GatewayVerdictExact` carries the watchdog's theorem
  into the process, because every step of the process is a step of the watchdog or leaves
  it alone (`WatchdogInside`); `GatewayIsAWatchdog` states that as an implementation of the
  watchdog's specification, fairness apart, and `GatewayVerdictShared` carries the other
  theorem over. `SelectionAlwaysDefined`: whatever loads and counter are, `Select` has
  exactly one position to return. The actions choose it with `\E`, so without this a
  selection could be stuck without anybody noticing; ENABLED is out of the prover's
  reach, and the theorem takes its place. It rests on two lemmas about finite sets of
  naturals: for every `k` below its size a set has an element with `k` members before it
  (`NthExists`, the end of the least prefix with more than `k`), and no two (`NthUnique`).
* **RateLimiter.** `RateLimiterType` (with `TimeInv`, nothing is dated in the future);
  `WindowBounded`, if `RefillCoversIdle` (an idle bucket is full before it is stale), by
  `BudgetInv`: grants in the window plus what could be granted now stay within burst plus
  refill; `RemainingIsHonest`; `HeadersAreHonest`, if `SecondRefillsToken`, by
  `DatedInv`; `IdleIsBounded`, by `IdleInv`: a bucket is past its age by no more than
  the running cleaning period has lasted; `LimiterIsTokenBucket`, the refinement, if
  `RefillCoversIdle`.
* **Speech.** `SpeechInFlightCounted` and `DecisionsAreAccounted` rest on `AccountInv`: a
  request has a pick exactly from selection to release, and every counter is the number of
  requests at the places that belong to it, those without an outcome among them.
  `ModelDecidesAlways` rests on `SelectInv`:
  the history of a selection covers the present verdicts, and every backend is still to be
  looked at, was found, or was degraded during the selection.
* **Pipeline.** `PInv` says of every request what its place in the stack implies
  (`OwnInv`: which status is written, whether its line is there, that below Auth its key is
  in the context) and of the shared counters that they are cardinalities of sets of
  requests; a step moves one request, so at most one of these sets changes, by one.
  `GaugeIsExact`, `ObservationsAreTrue`, `HandlerIsPaid` and `KeyBudgetKept` follow.
* **ChatStream.** `EventsAreFaithful` and `SuccessCompletes`, by `RelayInv` (what the relay
  holds in its hand is the line after the last one it is done with; only the last event
  may be torn) and `EndInv` (what it knows when it has ended).
* **Upstream.** `SuccessIsWhole` and `ClassesAreTrue`, by `StageOK`: what the history of a
  call is at each stage. `ClassOfTimers`, `ClassOfBreaks` and `ClassOfStatus` compute the
  class of each kind of error there is, whatever words of the upstream it quotes; the
  order of the tests in `FromBackendError` matters for the time-outs while connecting.
* **Readiness.** `AnswersAreJustified`, by `CheckInv`: the history of a running check has
  the present state of every service it is about; every such service is still to be asked,
  was seen up, or made the verdict bad; and a bad verdict has a reason.
  `ChecksLeaveVerdicts`: the checks write the watchdog's gauge and never a verdict, so
  `VerdictIsShared` holds beside them.
* **Boot.** `BInv` says what each phase of `main` has established: the configuration is
  `Load` of what is written, and valid (`LoadedInv`); keys are there (`KeysInv`); the chat
  registry holds, for the entries registered so far, the last one of each name
  (`RegisteredUpTo`, which grows by one entry per step), and the TTS registry all of them
  (`RegistryInv`); a ticker is new only after the watchdog's start (`TickerInv`); and only
  a bad interval ends in a crash (`CrashInv`). `BootType`, `ListeningIsSound`,
  `RegistriesFaithful` and `CrashesWereAsked` follow for lists of entries of any length and
  any texts. The lemmas between follow `Load` setting by setting: what the file, then the
  environment, makes of each, and that the variables only append entries with new names.
* **Kokoro.** `KokoroType` and `FailedLoadStays` need `Sound`: which states of the
  process, its job, the lock and the model go together for each of the scripts.
  `KokoroIsAService`: Kokoro behind the gateway implements the watchdog's specification,
  fairness apart; every change of its health is one of the watchdog's `Toggle` or
  nothing. From that, `KokoroVerdictExact`, and with it
  `StarvationIsForGood`, the action property `StarvedForGood`, for every bound on the
  requests of others: a starved server has only
  failed answers pending, its health call keeps failing, and the gateway refuses
  requests. Both assume distinct names, since a healthy namesake would bring the server
  back.

Model-checked only: liveness (`VerdictFollows`, `StopEnds`, `ShutdownEnds`,
`RequestAnswered`, `AlwaysAnswered`, `StreamEnds`, `TimedCallEnds`, `GaugeHeals`,
`CheckAnswered`, `RoutingFollowsLoad`, `CallEnds`, `ListeningIsWatched`), because it
depends on fairness, which is out of the prover's reach. Every safety property of a
passing run is a theorem.

## 5. Not modelled, and the plan

Not modelled: floating-point rounding of buckets; the wording and layout of logs, errors
and OpenAPI documents (`handler/docs.go`, `internal/openapi`); the set-up of logging and
tracing (`internal/logging`, `internal/observability`), which formats and exports records
and decides nothing; histograms and label values; JSON encoding; the contents of
completions, embeddings and audio; the other TTS servers, whose code is not in the
repository.

The order of work was: watchdog, balancer and gateway (the shared state every request
depends on), the limiter with its abstract specification, the pipeline around the
handlers, the stream relay, the speech endpoint, the health endpoints, the adapters with
their errors, the configuration and start-up, the Kokoro server behind the watchdog; then
proofs of the safety properties, module by module. What could follow:

1. The speech endpoint inside the process: `Speech` takes verdicts that change at any
   moment; composed with `Gateway` it would share the watchdog and the shutdown.
2. What `SelectionDefined` says of the chat registry's `Select`, for the speech router,
   whose list of names has an order of its own in every call.
3. The other half of `Stop`: what exactly may be degraded while requests drain.
