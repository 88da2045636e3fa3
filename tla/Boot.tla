-------------------------------- MODULE Boot --------------------------------
(***************************************************************************)
(* From the configuration to a process that listens (cmd/inferencia/main.go *)
(* up to ListenAndServe).  An operator edits the file, the environment and  *)
(* the key file while the process is not running, and starts it; what the   *)
(* other modules take as constants (names, threshold, rate, burst) is what  *)
(* this one ends with.  The watchdog's loop is a goroutine of its own: its  *)
(* time.NewTicker panics at an interval that is not positive, whatever main *)
(* has done by then.                                                        *)
(***************************************************************************)
EXTENDS Config, FiniteSets

CONSTANTS
    FileEdits,  \* <<setting, value>>: what the operator may write in the file
    EnvEdits,   \* <<variable, value>>
    KeyFiles,   \* contents of the key file, Unset when there is none
    MaxEdits    \* bound: edits away from an empty file and environment

\* A file with a value of another type does not parse; a variable is a text, of
\* which the model keeps the number it stands for.
ASSUME BootAssumption ==
    /\ \A e \in FileEdits :
        /\ e[1] \in FileSettings
        /\ e[1] \in Numeric => e[2] \in Values(e[1])
        /\ e[1] = "backends" => e[2] \in Seq(BackendEntry)
        /\ e[1] = "tts_backends" => e[2] \in Seq(TTSEntry)
    /\ \A e \in EnvEdits :
        /\ e[1] \in EnvSettings
        /\ e[1] \in Numeric => e[2] \in Values(e[1]) \cup {Garbage}
        /\ e[1] \in EnvTTSNames \cup {"backend_url"} => e[2] \in Texts
    /\ MaxEdits \in Nat

VARIABLES
    file, env,  \* what the operator has written
    parses,     \* can the file be read and parsed
    onDisk,     \* the keys in the key file
    edits,      \* how many edits were made
    phase,      \* where main is
    cfg,        \* the configuration, once loaded
    keys,       \* the key store
    reg,        \* chat registry: name -> the configured entry that serves it
    primary,    \* its primary, Empty if none
    ttsReg,     \* speech router: name -> the configured entry that serves it
    ticker      \* the watchdog's goroutine: none, new, running, or over

inputs == <<file, env, parses, onDisk, edits>>
memory == <<cfg, keys, reg, primary, ttsReg>>
bvars == <<inputs, phase, memory, ticker>>

Nothing == [n \in {} |-> 0]

Put(f, n, v) == [m \in DOMAIN f \cup {n} |-> IF m = n THEN v ELSE f[m]]

BInit ==
    /\ file = [k \in FileSettings |-> Unset]
    /\ env = [k \in EnvSettings |-> Unset]
    /\ parses = TRUE
    /\ onDisk \in KeyFiles
    /\ edits = 0
    /\ phase = "off"
    /\ cfg = Defaults
    /\ keys = {}
    /\ reg = Nothing /\ primary = Empty /\ ttsReg = Nothing
    /\ ticker = "none"

Running == phase \notin {"off", "exited", "crashed"}

-----------------------------------------------------------------------------
\* The operator edits what the next start will read.
Edit ==
    /\ ~Running /\ edits < MaxEdits
    /\ edits' = edits + 1
    /\ phase' = "off"
    /\ \/ \E e \in FileEdits : file' = [file EXCEPT ![e[1]] = e[2]] /\ UNCHANGED <<env, parses>>
       \/ \E e \in EnvEdits : env' = [env EXCEPT ![e[1]] = e[2]] /\ UNCHANGED <<file, parses>>
       \/ parses' = ~parses /\ UNCHANGED <<file, env>>
    /\ UNCHANGED <<onDisk, memory, ticker>>

\* The process is started: nothing of an earlier one is left.
Launch ==
    /\ ~Running
    /\ phase' = "launched"
    /\ cfg' = Defaults /\ keys' = {}
    /\ reg' = Nothing /\ primary' = Empty /\ ttsReg' = Nothing
    /\ ticker' = "none"
    /\ UNCHANGED inputs

\* os.Exit, also under a goroutine that runs.
Exits == phase' = "exited" /\ ticker' = "over"

LoadConfig ==
    /\ phase = "launched"
    /\ LET loaded == Load(file, env)
       IN  IF parses /\ loaded.valid
           THEN phase' = "configured" /\ cfg' = loaded.cfg /\ UNCHANGED ticker
           ELSE Exits /\ UNCHANGED cfg
    /\ UNCHANGED <<inputs, keys, reg, primary, ttsReg>>

LoadKeys ==
    /\ phase = "configured"
    /\ keys' = KeysOf(env, cfg["keys_file"], onDisk)
    /\ IF keys' = {} THEN Exits ELSE phase' = "registering" /\ UNCHANGED ticker
    /\ UNCHANGED <<inputs, cfg, reg, primary, ttsReg>>

\* Register of the chat registry with the i-th entry of the configuration.
Registered(i) ==
    /\ reg' = Put(reg, cfg["backends"][i].name, i)
    /\ primary' = IF primary = Empty THEN cfg["backends"][i].name ELSE primary

(* The loop over the backends: an unknown type ends the process. *)
RegisterBackends ==
    /\ phase = "registering"
    /\ LET done == {i \in DOMAIN cfg["backends"] : \E n \in DOMAIN reg : i <= reg[n]}
           i == Cardinality(done) + 1
       IN  IF i > Len(cfg["backends"])
           THEN phase' = "registered" /\ UNCHANGED <<reg, primary, ticker>>
           ELSE IF cfg["backends"][i].type \in {"mlx", "ollama"}
           THEN Registered(i) /\ UNCHANGED <<phase, ticker>>
           ELSE Exits /\ UNCHANGED <<reg, primary>>
    /\ UNCHANGED <<inputs, cfg, keys, ttsReg>>

\* The last entry of each name, as after one Register per entry.
LastEntries(list) ==
    [n \in {list[i].name : i \in DOMAIN list} |->
        CHOOSE i \in DOMAIN list :
            list[i].name = n /\ \A j \in DOMAIN list : list[j].name = n => j <= i]

(* The loop over the TTS backends cannot fail. *)
RegisterTTS ==
    /\ phase = "registered"
    /\ ttsReg' = LastEntries(cfg["tts_backends"])
    /\ phase' = "wired"
    /\ UNCHANGED <<inputs, cfg, keys, reg, primary, ticker>>

(* wd.Start: the first round, then the goroutine. *)
StartWatchdog ==
    /\ phase = "wired"
    /\ phase' = "watching"
    /\ ticker' = "new"
    /\ UNCHANGED <<inputs, memory>>

\* Faulty variant: the goroutine ends quietly.
TickerQuiet ==
    /\ ticker = "new"
    /\ ticker' = IF cfg["interval"] > 0 THEN "running" ELSE "over"
    /\ UNCHANGED <<inputs, phase, memory>>

(* time.NewTicker: a panic that nobody recovers ends the process. *)
Ticker ==
    /\ ticker = "new"
    /\ IF cfg["interval"] > 0
       THEN ticker' = "running" /\ UNCHANGED phase
       ELSE ticker' = "over" /\ phase' = "crashed"
    /\ UNCHANGED <<inputs, memory>>

(* The tracer is set up if it is enabled, and may fail (TracerFails). *)
Listen ==
    /\ phase = "watching"
    /\ phase' = "listening"
    /\ UNCHANGED <<inputs, memory, ticker>>

TracerFails ==
    /\ phase = "watching" /\ cfg["otel_enabled"]
    /\ Exits
    /\ UNCHANGED <<inputs, memory>>

(* ListenAndServe fails, or a signal ends the process (in order once it
   listens, see Gateway; at once before). *)
Ends ==
    /\ Running
    /\ Exits
    /\ UNCHANGED <<inputs, memory>>

MainStep ==
    LoadConfig \/ LoadKeys \/ RegisterBackends \/ RegisterTTS \/ StartWatchdog \/ Listen

BNext == Edit \/ Launch \/ MainStep \/ Ticker \/ TracerFails \/ Ends

(* Main and the watchdog's goroutine run; nobody has to launch or end it. *)
BFairness == WF_bvars(MainStep) /\ WF_bvars(Ticker)

BSpec == BInit /\ [][BNext]_bvars /\ BFairness

-----------------------------------------------------------------------------
Backends == cfg["backends"]
TTS == cfg["tts_backends"]

(* Types; the registries hold entries of the configuration under their names. *)
BTypeOK ==
    /\ DOMAIN file = FileSettings /\ DOMAIN env = EnvSettings
    /\ edits \in 0..MaxEdits
    /\ phase \in {"off", "launched", "configured", "registering", "registered", "wired",
                  "watching", "listening", "exited", "crashed"}
    /\ DOMAIN cfg = FileSettings
    /\ \A n \in DOMAIN reg : reg[n] \in DOMAIN Backends /\ Backends[reg[n]].name = n
    /\ \A n \in DOMAIN ttsReg : ttsReg[n] \in DOMAIN TTS /\ TTS[ttsReg[n]].name = n
    /\ primary \in DOMAIN reg \cup {Empty}
    /\ ticker \in {"none", "new", "running", "over"}

Asked(k, v) == v \in {file[k], env[k]}

RPS == cfg["requests_per_second"]

Positive(rate) == rate = Infinity \/ (rate \in Int /\ rate > 0)

(* What listens has what the other modules assume (WatchdogAssumption,        *)
(* GatewayAssumption, a key store that is not empty, a port, a burst),        *)
(* whichever of the file and the environment a value came from.  The rate is  *)
(* positive too, or the operator has written NaN: validate lets it pass,      *)
(* although it says that the rate "must be positive" (config.go:305).         *)
ListeningSound ==
    phase = "listening" =>
        /\ cfg["port"] \in 1..MaxPort
        /\ DOMAIN reg # {} /\ primary \in DOMAIN reg
        /\ \A n \in DOMAIN reg : n # Empty /\ Backends[reg[n]].type \in {"mlx", "ollama"}
        /\ cfg["burst"] >= 1
        /\ Positive(RPS) \/ (RPS = NaN /\ Asked("requests_per_second", NaN))
        /\ keys # {}
        /\ cfg["otel_enabled"] => cfg["otel_endpoint"] # Empty

(* The first configured backend is the primary, and every name is served by   *)
(* the last entry that has it: of equal names the earlier entries are lost,   *)
(* no other entry is.                                                         *)
RegisteredAsConfigured ==
    phase = "listening" =>
        /\ primary = Backends[1].name
        /\ \A i \in DOMAIN Backends :
            (\A j \in DOMAIN Backends : j > i => Backends[j].name # Backends[i].name)
                => reg[Backends[i].name] = i

FileTTS == IF file["tts_backends"] = Unset THEN <<>> ELSE file["tts_backends"]

(* No TTS backend of the file or of a variable is lost, every registered one  *)
(* is as one of the two has it, and a variable does not add a second entry of *)
(* a name ("prevent duplicates when env vars overlap with YAML                *)
(* configuration", config.go:272).  That the file's entry wins is not said:   *)
(* config.example.yaml:6 has it that the environment overrides the file.      *)
TTSFromSources ==
    phase = "listening" =>
        /\ \A i \in DOMAIN FileTTS : FileTTS[i].name \in DOMAIN ttsReg
        /\ \A n \in EnvTTSNames : env[n] # Unset => n \in DOMAIN ttsReg
        /\ \A n \in DOMAIN ttsReg :
            \/ \E i \in DOMAIN FileTTS : FileTTS[i] = TTS[ttsReg[n]]
            \/ n \in EnvTTSNames /\ env[n] # Unset /\ TTS[ttsReg[n]].url = Trim(env[n])
        /\ \A i, j \in DOMAIN TTS :
            i < j /\ TTS[i].name = TTS[j].name => j \in DOMAIN FileTTS

(* Both registries hold what the configuration says. *)
RegistriesAsConfigured == RegisteredAsConfigured /\ TTSFromSources

(* The watchdog's goroutine takes the process down only if an interval that   *)
(* is not positive was written somewhere: no default, and no variable that    *)
(* does not parse, does it.                                                   *)
CrashWasAsked ==
    phase = "crashed" => cfg["interval"] <= 0 /\ Asked("interval", cfg["interval"])

(* A process that goes on listening has a watchdog whose loop runs: an        *)
(* interval that validation lets through ends the process, it does not leave  *)
(* it with the verdicts of the first round.                                   *)
ListeningIsWatched == phase = "listening" ~> (ticker = "running" \/ ~Running)

=============================================================================
