------------------------------- MODULE Config -------------------------------
(***************************************************************************)
(* How the configuration comes about (internal/config/config.go,           *)
(* internal/auth/keystore.go): defaults, then the YAML file, then the      *)
(* environment, then validation; and which API keys are loaded.  All of it *)
(* is a function of the file and the environment, so this module has       *)
(* operators only; Boot runs them.                                         *)
(*                                                                         *)
(* Settings no check depends on (host, the server's timeouts, the service  *)
(* name) are left out.  Durations are whole numbers, of any sign.          *)
(***************************************************************************)
EXTENDS Integers, Sequences

CONSTANTS
    Unset,      \* the setting is not in the file, or the variable is empty
    Garbage,    \* the variable does not parse as the number it should be
    NaN,        \* what a floating point setting holds beside numbers: not a number,
    Infinity,   \* and more than any
    Texts       \* names, types and URLs that are written somewhere

Empty == ""     \* the zero value of a text

MaxPort == 65535

Numeric == {"port", "requests_per_second", "burst",
            "interval", "fail_threshold", "request_timeout"}

\* The rate is a floating point number, of which the model keeps the whole ones.
Values(k) == IF k = "requests_per_second" THEN Int \cup {NaN, Infinity} ELSE Int

Words == {"level", "format", "cloud_format"}

BackendEntry == [name : Texts, type : Texts, url : Texts]
TTSEntry == [name : Texts, url : Texts]

\* A list of a file replaces the default list: its entries have no defaults.
FileSettings ==
    Numeric \cup Words \cup {"otel_enabled", "otel_endpoint", "backends", "tts_backends", "keys_file"}

\* The variables that add a TTS backend, in the order they are looked at.
EnvTTS == <<"kokoro", "chatterbox", "misotts", "elevenlabs">>
EnvTTSNames == {EnvTTS[i] : i \in DOMAIN EnvTTS}

EnvSettings ==
    Numeric \cup Words \cup {"otel_enabled", "otel_endpoint", "backend_url", "keys_file", "api_keys"}
        \cup EnvTTSNames

ASSUME ConfigAssumption ==
    /\ EnvTTSNames \cup {Empty, "ollama", "local"} \subseteq Texts
    /\ NaN \notin Int

Defaults == [
    port |-> 8080, requests_per_second |-> 10, burst |-> 20,
    interval |-> 30, fail_threshold |-> 3, request_timeout |-> 5,
    level |-> "info", format |-> "json", cloud_format |-> Empty,
    otel_enabled |-> FALSE, otel_endpoint |-> Empty,
    backends |-> <<[name |-> "ollama", type |-> "ollama", url |-> "local"]>>,
    tts_backends |-> <<>>,
    keys_file |-> "keys.txt"]

\* yaml.Unmarshal into the defaults.
FromFile(file) ==
    [k \in FileSettings |-> IF file[k] = Unset THEN Defaults[k] ELSE file[k]]

\* strings.ToLower, for the words the model writes in capitals.
ToLower(w) ==
    CASE w = "WARN" -> "warn" [] w = "TEXT" -> "text" [] w = "GCP" -> "gcp" [] OTHER -> w

\* Faulty variant: the result of the failed conversion is assigned all the same.
NumberGarbageIsZero(cfg, env, k) ==
    IF env[k] = Unset THEN cfg[k] ELSE IF env[k] = Garbage THEN 0 ELSE env[k]

\* A number of the environment counts if it parses, as the words for NaN and for
\* infinity do as a rate; the threshold must be positive too.
Number(cfg, env, k) ==
    IF env[k] \in {Unset, Garbage} THEN cfg[k]
    ELSE IF k = "fail_threshold" /\ env[k] <= 0 THEN cfg[k]
    ELSE env[k]

\* strings.TrimSpace, for the one blank word of the model.
Trim(w) == IF w = " " THEN Empty ELSE w

Given(cfg, env, k) == IF env[k] = Unset THEN cfg[k] ELSE env[k]

\* The first backend's URL may come from the environment.
WithURL(list, url) ==
    IF url = Unset \/ list = <<>> THEN list ELSE [list EXCEPT ![1].url = Trim(url)]

TTSBackendExists(list, name) == \E i \in DOMAIN list : list[i].name = name

\* Faulty variant: the variable's backend is appended whatever the file says.
AddFromEnvTwice(list, env, n) ==
    IF env[n] = Unset THEN list ELSE Append(list, [name |-> n, url |-> Trim(env[n])])

\* A variable adds its backend unless one of that name is there.
AddFromEnv(list, env, n) ==
    IF env[n] = Unset \/ TTSBackendExists(list, n) THEN list
    ELSE Append(list, [name |-> n, url |-> Trim(env[n])])

WithEnvTTS(list, env) ==
    LET Added(l, i) == AddFromEnv(l, env, EnvTTS[i])
    IN  Added(Added(Added(Added(list, 1), 2), 3), 4)

ApplyEnvOverrides(cfg, env) ==
    [k \in FileSettings |->
        CASE k \in Numeric -> Number(cfg, env, k)
          [] k \in {"level", "format"} -> IF env[k] = Unset THEN cfg[k] ELSE ToLower(env[k])
          [] k = "cloud_format" -> IF env[k] = Unset THEN cfg[k] ELSE ToLower(Trim(env[k]))
          [] k = "otel_endpoint" -> IF env[k] = Unset THEN cfg[k] ELSE Trim(env[k])
          [] k = "backends" -> WithURL(cfg[k], env["backend_url"])
          [] k = "tts_backends" -> WithEnvTTS(cfg[k], env)
          [] OTHER -> Given(cfg, env, k)]

\* The test for a rate that is not positive; no comparison with NaN is true.
AtMostZero(rate) == rate \in Int /\ rate <= 0

\* validate.  TTS backends and the watchdog's settings are not looked at.
Valid(cfg) ==
    /\ cfg["port"] \in 1..MaxPort
    /\ cfg["backends"] # <<>>
    /\ \A i \in DOMAIN cfg["backends"] :
        LET b == cfg["backends"][i] IN b.name # Empty /\ b.type # Empty /\ b.url # Empty
    /\ ~AtMostZero(cfg["requests_per_second"])
    /\ cfg["burst"] >= 1
    /\ cfg["level"] \in {"debug", "info", "warn", "error"}
    /\ cfg["format"] \in {"json", "text"}
    /\ cfg["cloud_format"] \in {Empty, "gcp", "gcp_with_resource"}
    /\ cfg["otel_enabled"] => cfg["otel_endpoint"] # Empty

\* Faulty variant: the file is validated before the environment is applied.
LoadValidatesFile(file, env) ==
    [cfg |-> ApplyEnvOverrides(FromFile(file), env), valid |-> Valid(FromFile(file))]

\* Load, of a file that can be read and parsed.
Load(file, env) ==
    LET cfg == ApplyEnvOverrides(FromFile(file), env)
    IN  [cfg |-> cfg, valid |-> Valid(cfg)]

\* NewKeyStore: the keys of the environment, or else those of the file (Unset
\* if it cannot be read); no keys is an error.
KeysOf(env, path, onDisk) ==
    IF env["api_keys"] # Unset THEN env["api_keys"]
    ELSE IF path = Empty \/ onDisk = Unset THEN {}
    ELSE onDisk

=============================================================================
