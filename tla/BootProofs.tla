----------------------------- MODULE BootProofs -----------------------------
(***************************************************************************)
(* Proofs about start-up, for any file, environment and key file; and      *)
(* about the rate limiter that start-up configures, for any number of      *)
(* keys, any burst, rate, age and cleanup interval.                        *)
(***************************************************************************)
EXTENDS Boot, RateLimiter, FiniteSetTheorems, SequenceTheorems, WellFoundedInduction, TLAPS

-----------------------------------------------------------------------------
(* Lists of entries. *)

(* Of finitely many places in a list there is a last.                       *)
LEMMA LastOfSome ==
    ASSUME NEW N \in Nat, NEW S, S \subseteq 1..N, S # {}
    PROVE  \E m \in S : \A j \in S : j <= m
<1> DEFINE T == {N - i : i \in S}
<1>1. \A i \in S : N - i \in Nat
  OBVIOUS
<1>2. T \subseteq Nat /\ T # {}
  BY <1>1
<1>3. PICK t \in T : \A y \in T : ~(<<y, t>> \in OpToRel(<, Nat))
  BY <1>2, WFMin, NatLessThanWellFounded
<1>4. \A y \in T : ~(y < t)
  BY <1>2, <1>3 DEF OpToRel
<1>5. PICK m \in S : t = N - m
  OBVIOUS
<1>6. ASSUME NEW j \in S PROVE j <= m
  <2>1. N - j \in T /\ ~(N - j < N - m)
    BY <1>4, <1>5
  <2> QED BY <2>1
<1> QED BY <1>6

(* Registering a list leaves every name with the last entry that has it     *)
(* (router.Registry, Register).                                             *)
LEMMA LastEntriesFacts ==
    ASSUME NEW S, NEW list \in Seq(S), NEW i \in DOMAIN list
    PROVE  LET n == list[i].name
               e == LastEntries(list)[n]
           IN  /\ n \in DOMAIN LastEntries(list)
               /\ e \in DOMAIN list /\ list[e].name = n
               /\ \A j \in DOMAIN list : list[j].name = n => j <= e
<1> DEFINE n == list[i].name
           With == {j \in DOMAIN list : list[j].name = n}
<1>1. DOMAIN list = 1..Len(list) /\ Len(list) \in Nat
  OBVIOUS
<1>2. PICK m \in With : \A j \in With : j <= m
  BY <1>1, LastOfSome
<1>3. \E e \in DOMAIN list : list[e].name = n /\ \A j \in DOMAIN list : list[j].name = n => j <= e
  BY <1>2
<1>4. n \in {list[j].name : j \in DOMAIN list}
  OBVIOUS
<1>5. LastEntries(list)[n] = CHOOSE e \in DOMAIN list :
          list[e].name = n /\ \A j \in DOMAIN list : list[j].name = n => j <= e
  BY <1>4 DEF LastEntries
<1> QED BY <1>3, <1>4, <1>5 DEF LastEntries

(* The list b is a, perhaps with entries of the environment after it, whose *)
(* names a does not have.                                                   *)
Grown(a, b, e) ==
    /\ b \in Seq(TTSEntry)
    /\ Len(a) <= Len(b)
    /\ \A i \in 1..Len(a) : b[i] = a[i]
    /\ \A i \in (Len(a) + 1)..Len(b) :
        /\ b[i].name \in EnvTTSNames
        /\ e[b[i].name] # Unset
        /\ b[i].url = Trim(e[b[i].name])
        /\ \A j \in 1..Len(b) : j < i => b[j].name # b[i].name

(* A list that grows keeps its names. *)
LEMMA GrownKeeps ==
    ASSUME NEW a \in Seq(TTSEntry), NEW b, NEW e, Grown(a, b, e), NEW n, TTSBackendExists(a, n)
    PROVE  TTSBackendExists(b, n)
<1>1. PICK i \in 1..Len(a) : a[i].name = n
  BY DEF TTSBackendExists
<1>2. i \in DOMAIN b /\ b[i] = a[i]
  BY DEF Grown
<1> QED BY <1>1, <1>2 DEF TTSBackendExists

(* Growing twice is growing. *)
LEMMA GrownTwice ==
    ASSUME NEW a \in Seq(TTSEntry), NEW b, NEW c, NEW e, Grown(a, b, e), Grown(b, c, e)
    PROVE  Grown(a, c, e)
<1>1. Len(a) <= Len(c) /\ \A i \in 1..Len(a) : c[i] = a[i]
  BY DEF Grown
<1>2. ASSUME NEW i \in (Len(a) + 1)..Len(c)
      PROVE  /\ c[i].name \in EnvTTSNames /\ e[c[i].name] # Unset
             /\ c[i].url = Trim(e[c[i].name])
             /\ \A j \in 1..Len(c) : j < i => c[j].name # c[i].name
  <2>1. CASE i <= Len(b)
    <3>1. i \in 1..Len(b) /\ i \in (Len(a) + 1)..Len(b)
      BY <2>1 DEF Grown
    <3>2. c[i] = b[i]
      BY <3>1 DEF Grown
    <3>3. /\ b[i].name \in EnvTTSNames /\ e[b[i].name] # Unset
          /\ b[i].url = Trim(e[b[i].name])
          /\ \A j \in 1..Len(b) : j < i => b[j].name # b[i].name
      BY <3>1 DEF Grown
    <3>4. ASSUME NEW j \in 1..Len(c), j < i PROVE c[j].name # c[i].name
      <4>1. j \in 1..Len(b)
        BY <3>1, <3>4 DEF Grown
      <4>2. c[j] = b[j]
        BY <4>1 DEF Grown
      <4> QED BY <3>2, <3>3, <3>4, <4>1, <4>2
    <3> QED BY <3>2, <3>3, <3>4
  <2>2. CASE i > Len(b)
    <3>1. i \in (Len(b) + 1)..Len(c)
      BY <2>2 DEF Grown
    <3> QED BY <3>1 DEF Grown
  <2> QED BY <2>1, <2>2 DEF Grown
<1> QED BY <1>1, <1>2 DEF Grown

(* The variables that add a backend. *)
LEMMA EnvTTSAre ==
    /\ EnvTTSNames = {EnvTTS[1], EnvTTS[2], EnvTTS[3], EnvTTS[4]}
    /\ EnvTTSNames = {"kokoro", "chatterbox", "misotts", "elevenlabs"}
<1>1. DOMAIN EnvTTS = {1, 2, 3, 4}
  BY DEF EnvTTS
<1>2. EnvTTS[1] = "kokoro" /\ EnvTTS[2] = "chatterbox" /\ EnvTTS[3] = "misotts" /\ EnvTTS[4] = "elevenlabs"
  BY DEF EnvTTS
<1>3. EnvTTSNames = {EnvTTS[1], EnvTTS[2], EnvTTS[3], EnvTTS[4]}
  BY <1>1 DEF EnvTTSNames
<1> QED BY <1>2, <1>3

(* One variable of the environment. *)
LEMMA AddFromEnvFacts ==
    ASSUME NEW a \in Seq(TTSEntry), NEW n \in EnvTTSNames, NEW e,
           e[n] \in Texts \cup {Unset}
    PROVE  /\ Grown(a, AddFromEnv(a, e, n), e)
           /\ e[n] # Unset => TTSBackendExists(AddFromEnv(a, e, n), n)
<1> DEFINE b == AddFromEnv(a, e, n)
           new == [name |-> n, url |-> Trim(e[n])]
<1>1. CASE e[n] = Unset \/ TTSBackendExists(a, n)
  BY <1>1 DEF AddFromEnv, Grown
<1>2. CASE ~(e[n] = Unset \/ TTSBackendExists(a, n))
  <2>1. b = Append(a, new)
    BY <1>2 DEF AddFromEnv
  <2>2. new \in TTSEntry
    <3>1. n \in Texts
      BY ConfigAssumption
    <3>2. Trim(e[n]) \in Texts
      BY <1>2, ConfigAssumption DEF Trim
    <3> QED BY <3>1, <3>2 DEF TTSEntry
  <2>3. b \in Seq(TTSEntry) /\ Len(b) = Len(a) + 1
    BY <2>1, <2>2
  <2>4. /\ \A i \in 1..Len(a) : b[i] = a[i]
        /\ b[Len(a) + 1] = new
    BY <2>1, <2>2
  <2>5. new.name = n /\ new.url = Trim(e[n])
    OBVIOUS
  <2> HIDE DEF b, new
  <2>6. \A i \in (Len(a) + 1)..Len(b) : b[i] = new
    BY <2>3, <2>4
  <2>7. TTSBackendExists(b, n)
    BY <2>3, <2>4, <2>5 DEF TTSBackendExists
  <2>8. \A j \in 1..Len(a) : b[j].name # n
    BY <1>2, <2>4 DEF TTSBackendExists
  <2>9. ASSUME NEW i \in (Len(a) + 1)..Len(b)
        PROVE  /\ b[i].name \in EnvTTSNames /\ e[b[i].name] # Unset
               /\ b[i].url = Trim(e[b[i].name])
               /\ \A j \in 1..Len(b) : j < i => b[j].name # b[i].name
    <3>1. b[i].name = n /\ b[i].url = Trim(e[n])
      BY <2>5, <2>6
    <3>2. \A j \in 1..Len(b) : j < i => j \in 1..Len(a)
      BY <2>3
    <3> QED BY <1>2, <2>8, <3>1, <3>2
  <2>10. Grown(a, b, e)
    BY <2>3, <2>4, <2>9 DEF Grown
  <2> QED BY <2>7, <2>10 DEF b
<1> QED BY <1>1, <1>2

(* The four variables: each adds its backend unless one of that name is     *)
(* there, and no other entry changes (config.go, applyEnvOverrides).        *)
LEMMA WithEnvTTSFacts ==
    ASSUME NEW a \in Seq(TTSEntry), NEW e, \A n \in EnvTTSNames : e[n] \in Texts \cup {Unset}
    PROVE  /\ Grown(a, WithEnvTTS(a, e), e)
           /\ \A n \in EnvTTSNames : e[n] # Unset => TTSBackendExists(WithEnvTTS(a, e), n)
<1> DEFINE l1 == AddFromEnv(a, e, EnvTTS[1])
           l2 == AddFromEnv(l1, e, EnvTTS[2])
           l3 == AddFromEnv(l2, e, EnvTTS[3])
           l4 == AddFromEnv(l3, e, EnvTTS[4])
<1>1. WithEnvTTS(a, e) = l4
  BY DEF WithEnvTTS
<1>2. EnvTTSNames = {EnvTTS[1], EnvTTS[2], EnvTTS[3], EnvTTS[4]}
  BY EnvTTSAre
<1>3. Grown(a, l1, e) /\ (e[EnvTTS[1]] # Unset => TTSBackendExists(l1, EnvTTS[1]))
  BY <1>2, AddFromEnvFacts
<1>4. l1 \in Seq(TTSEntry)
  BY <1>3 DEF Grown
<1> HIDE DEF l1
<1>5. Grown(l1, l2, e) /\ (e[EnvTTS[2]] # Unset => TTSBackendExists(l2, EnvTTS[2]))
  BY <1>2, <1>4, AddFromEnvFacts
<1>6. l2 \in Seq(TTSEntry)
  BY <1>5 DEF Grown
<1> HIDE DEF l2
<1>7. Grown(l2, l3, e) /\ (e[EnvTTS[3]] # Unset => TTSBackendExists(l3, EnvTTS[3]))
  BY <1>2, <1>6, AddFromEnvFacts
<1>8. l3 \in Seq(TTSEntry)
  BY <1>7 DEF Grown
<1> HIDE DEF l3
<1>9. Grown(l3, l4, e) /\ (e[EnvTTS[4]] # Unset => TTSBackendExists(l4, EnvTTS[4]))
  BY <1>2, <1>8, AddFromEnvFacts
<1> HIDE DEF l4
<1>10. Grown(l2, l4, e)
  BY <1>6, <1>7, <1>9, GrownTwice
<1>11. Grown(l1, l4, e)
  BY <1>4, <1>5, <1>10, GrownTwice
<1>12. Grown(a, l4, e)
  BY <1>3, <1>11, GrownTwice
<1>13. \A n \in EnvTTSNames : e[n] # Unset => TTSBackendExists(l4, n)
  BY <1>2, <1>3, <1>4, <1>5, <1>6, <1>7, <1>8, <1>9, <1>10, <1>11, GrownKeeps
<1> QED BY <1>1, <1>12, <1>13

-----------------------------------------------------------------------------
(* The invariant of start-up: which step has left what.                     *)

\* Main has got past Load, past the keys, past the chat backends, past the
\* speech router.
Loaded == {"configured", "registering", "registered", "wired", "watching", "listening"}
Keyed == Loaded \ {"configured"}
Complete == Keyed \ {"registering"}
Wired == Complete \ {"registered"}

Numbers(k) == Values(k) \cup {Unset}

\* What the operator may have written.
InputInv ==
    /\ \A k \in Numeric : file[k] \in Numbers(k) /\ env[k] \in Numbers(k) \cup {Garbage}
    /\ file["backends"] \in Seq(BackendEntry) \cup {Unset}
    /\ file["tts_backends"] \in Seq(TTSEntry) \cup {Unset}
    /\ \A n \in EnvTTSNames \cup {"backend_url"} : env[n] \in Texts \cup {Unset}

\* The lists, the interval and the rate of any configuration.
ConfigTyped(c) ==
    /\ DOMAIN c = FileSettings
    /\ c["backends"] \in Seq(BackendEntry)
    /\ c["tts_backends"] \in Seq(TTSEntry)
    /\ c["interval"] \in Int
    /\ c["requests_per_second"] \in Int \cup {NaN, Infinity}

\* A process has the configuration its operator wrote, until it has ended and
\* the operator writes again.
LoadedInv ==
    /\ ConfigTyped(cfg)
    /\ phase \in Loaded \cup {"crashed"} => cfg = Load(file, env).cfg /\ Valid(cfg)

KeysInv == phase \in Keyed => keys # {}

\* The first m entries are registered.
RegisteredUpTo(m) ==
    /\ DOMAIN reg = {Backends[i].name : i \in 1..m}
    /\ \A n \in DOMAIN reg :
        /\ reg[n] \in 1..m /\ Backends[reg[n]].name = n
        /\ \A j \in 1..m : Backends[j].name = n => j <= reg[n]
    /\ \A i \in 1..m : Backends[i].type \in {"mlx", "ollama"}
    /\ primary = IF m = 0 THEN Empty ELSE Backends[1].name

RegistryInv ==
    /\ phase \in {"launched", "configured"} => reg = Nothing /\ primary = Empty /\ ttsReg = Nothing
    /\ phase = "registering" => \E m \in 0..Len(Backends) : RegisteredUpTo(m)
    /\ phase \in Complete => RegisteredUpTo(Len(Backends))
    /\ phase \in Wired => ttsReg = LastEntries(TTS)

TickerInv == ticker = "new" => phase \in {"watching", "listening"}

CrashInv == phase = "crashed" => cfg["interval"] <= 0

BInv ==
    BTypeOK /\ InputInv /\ LoadedInv /\ KeysInv /\ RegistryInv /\ TickerInv /\ CrashInv

-----------------------------------------------------------------------------
(* What Load makes of the file and the environment. *)

(* Every setting, from the file or from the defaults. *)
LEMMA FileOrDefault ==
    \A k \in FileSettings : FromFile(file)[k] = IF file[k] = Unset THEN Defaults[k] ELSE file[k]
BY DEF FromFile

(* The defaults have the types of a file's values. *)
LEMMA DefaultsTyped == ConfigTyped(Defaults)
<1>1. DOMAIN Defaults = FileSettings
  BY DEF Defaults, FileSettings, Numeric, Words
<1>2. /\ Defaults["interval"] = 30
      /\ Defaults["backends"] = <<[name |-> "ollama", type |-> "ollama", url |-> "local"]>>
      /\ Defaults["tts_backends"] = <<>>
      /\ Defaults["requests_per_second"] = 10
  BY DEF Defaults
<1>3. [name |-> "ollama", type |-> "ollama", url |-> "local"] \in BackendEntry
  BY ConfigAssumption DEF BackendEntry
<1> QED BY <1>1, <1>2, <1>3 DEF ConfigTyped

(* The parts of a loaded configuration: the interval is a default or was    *)
(* written, the chat backends are those of the file, or the default, with   *)
(* perhaps another URL, and the TTS backends are those of the file and the  *)
(* environment's additions.                                                 *)
LEMMA LoadParts ==
    LET c == Load(file, env).cfg IN
    /\ DOMAIN c = FileSettings
    /\ c["interval"] = Number(FromFile(file), env, "interval")
    /\ c["requests_per_second"] = Number(FromFile(file), env, "requests_per_second")
    /\ c["backends"] = WithURL(FromFile(file)["backends"], env["backend_url"])
    /\ c["tts_backends"] = WithEnvTTS(FromFile(file)["tts_backends"], env)
    /\ Load(file, env).valid <=> Valid(c)
<1> DEFINE c == ApplyEnvOverrides(FromFile(file), env)
<1>1. Load(file, env).cfg = c /\ Load(file, env).valid = Valid(c)
  BY DEF Load
<1>2. DOMAIN c = FileSettings
  BY DEF ApplyEnvOverrides
<1>3. "interval" \in FileSettings /\ "backends" \in FileSettings /\ "tts_backends" \in FileSettings
  BY DEF FileSettings, Numeric
<1>4. {"interval", "requests_per_second"} \subseteq Numeric \cap FileSettings
  BY DEF Numeric, FileSettings
<1>5. /\ "backends" \notin Numeric \cup {"level", "format", "cloud_format", "otel_endpoint"}
      /\ "tts_backends" \notin
            Numeric \cup {"level", "format", "cloud_format", "otel_endpoint", "backends"}
  BY DEF Numeric
<1>6. /\ c["interval"] = Number(FromFile(file), env, "interval")
      /\ c["requests_per_second"] = Number(FromFile(file), env, "requests_per_second")
  BY <1>4 DEF ApplyEnvOverrides
<1>7. c["backends"] = WithURL(FromFile(file)["backends"], env["backend_url"])
  BY <1>3, <1>5 DEF ApplyEnvOverrides
<1>8. c["tts_backends"] = WithEnvTTS(FromFile(file)["tts_backends"], env)
  BY <1>3, <1>5 DEF ApplyEnvOverrides
<1> QED BY <1>1, <1>2, <1>6, <1>7, <1>8

(* A loaded configuration has the types of one. *)
LEMMA LoadTyped ==
    ASSUME InputInv
    PROVE  ConfigTyped(Load(file, env).cfg)
<1>1. "interval" \in FileSettings /\ "backends" \in FileSettings /\ "tts_backends" \in FileSettings
      /\ "interval" \in Numeric /\ "requests_per_second" \in Numeric
      /\ "requests_per_second" \in FileSettings /\ "interval" # "requests_per_second"
  BY DEF FileSettings, Numeric
<1> DEFINE c == Load(file, env).cfg
           f == FromFile(file)
<1>2. /\ f["interval"] \in Int
      /\ f["requests_per_second"] \in Int \cup {NaN, Infinity}
      /\ f["backends"] \in Seq(BackendEntry)
      /\ f["tts_backends"] \in Seq(TTSEntry)
  BY <1>1, FileOrDefault, DefaultsTyped DEF InputInv, Numbers, Values, ConfigTyped
<1> HIDE DEF f
<1>3. c["interval"] \in Int
  <2>1. env["interval"] \in Int \cup {Unset, Garbage}
    BY <1>1 DEF InputInv, Numbers, Values
  <2> QED BY <1>2, <2>1, LoadParts DEF f, Number
<1>6. c["requests_per_second"] \in Int \cup {NaN, Infinity}
  <2>1. env["requests_per_second"] \in Int \cup {NaN, Infinity, Unset, Garbage}
    BY <1>1 DEF InputInv, Numbers, Values
  <2>2. \/ c["requests_per_second"] = f["requests_per_second"]
        \/ /\ env["requests_per_second"] \notin {Unset, Garbage}
           /\ c["requests_per_second"] = env["requests_per_second"]
    BY LoadParts DEF f, Number
  <2> QED BY <1>2, <2>1, <2>2
<1>4. c["tts_backends"] \in Seq(TTSEntry)
  BY <1>2, LoadParts, WithEnvTTSFacts DEF f, Grown, InputInv
<1>5. c["backends"] \in Seq(BackendEntry)
  <2> DEFINE list == f["backends"]
             url == env["backend_url"]
  <2>1. c["backends"] = WithURL(list, url)
    BY LoadParts DEF f
  <2>2. CASE url = Unset \/ list = <<>>
    BY <1>2, <2>1, <2>2 DEF WithURL
  <2>3. CASE ~(url = Unset \/ list = <<>>)
    <3>1. Trim(url) \in Texts
      BY <2>3, ConfigAssumption DEF InputInv, Trim
    <3> DEFINE e == [list[1] EXCEPT !.url = Trim(url)]
    <3>2. list \in Seq(BackendEntry) /\ 1 \in 1..Len(list)
      BY <1>2, <2>3
    <3>3. list[1] \in BackendEntry
      BY <3>2
    <3>4. e \in BackendEntry
      BY <3>1, <3>3 DEF BackendEntry
    <3>5. WithURL(list, url) = [list EXCEPT ![1] = e]
      BY <2>3 DEF WithURL
    <3> HIDE DEF e, list
    <3> QED BY <2>1, <3>2, <3>4, <3>5, ExceptSeq
  <2> QED BY <2>2, <2>3
<1> QED BY <1>3, <1>4, <1>5, <1>6, LoadParts DEF ConfigTyped

-----------------------------------------------------------------------------
(* The invariant holds at every step. *)

(* What the operator edits stays of a type that can be written. *)
LEMMA EditTyped ==
    ASSUME BTypeOK, InputInv, Edit
    PROVE  InputInv' /\ DOMAIN file' = FileSettings /\ DOMAIN env' = EnvSettings
<1>0. DOMAIN file = FileSettings /\ DOMAIN env = EnvSettings
  BY DEF BTypeOK
<1>1. ASSUME NEW e \in FileEdits, file' = [file EXCEPT ![e[1]] = e[2]], env' = env
      PROVE  InputInv' /\ DOMAIN file' = FileSettings /\ DOMAIN env' = EnvSettings
  <2>1. \A k \in FileSettings : file'[k] = IF k = e[1] THEN e[2] ELSE file[k]
    BY <1>0, <1>1
  <2>2. /\ e[1] \in Numeric => e[2] \in Values(e[1])
        /\ e[1] = "backends" => e[2] \in Seq(BackendEntry)
        /\ e[1] = "tts_backends" => e[2] \in Seq(TTSEntry)
    BY BootAssumption
  <2>3. Numeric \cup {"backends", "tts_backends"} \subseteq FileSettings
    BY DEF FileSettings
  <2>4. \A k \in Numeric : file'[k] \in Numbers(k)
    BY <2>1, <2>2, <2>3 DEF InputInv, Numbers
  <2>5. /\ file'["backends"] \in Seq(BackendEntry) \cup {Unset}
        /\ file'["tts_backends"] \in Seq(TTSEntry) \cup {Unset}
    BY <2>1, <2>2, <2>3 DEF InputInv
  <2> QED BY <1>0, <1>1, <2>4, <2>5 DEF InputInv
<1>2. ASSUME NEW e \in EnvEdits, env' = [env EXCEPT ![e[1]] = e[2]], file' = file
      PROVE  InputInv' /\ DOMAIN file' = FileSettings /\ DOMAIN env' = EnvSettings
  <2>1. \A k \in EnvSettings : env'[k] = IF k = e[1] THEN e[2] ELSE env[k]
    BY <1>0, <1>2
  <2>2. /\ e[1] \in Numeric => e[2] \in Values(e[1]) \cup {Garbage}
        /\ e[1] \in EnvTTSNames \cup {"backend_url"} => e[2] \in Texts
    BY BootAssumption
  <2>3. Numeric \cup EnvTTSNames \cup {"backend_url"} \subseteq EnvSettings
    BY DEF EnvSettings
  <2>4. \A k \in Numeric : env'[k] \in Numbers(k) \cup {Garbage}
    BY <2>1, <2>2, <2>3 DEF InputInv, Numbers
  <2>5. \A n \in EnvTTSNames \cup {"backend_url"} : env'[n] \in Texts \cup {Unset}
    BY <2>1, <2>2, <2>3 DEF InputInv
  <2> QED BY <1>0, <1>2, <2>4, <2>5 DEF InputInv
<1>3. CASE file' = file /\ env' = env
  BY <1>0, <1>3 DEF InputInv
<1> QED BY <1>1, <1>2, <1>3 DEF Edit

(* Nothing is written, nothing runs. *)
LEMMA BInvInit == BInit => BInv
<1> SUFFICES ASSUME BInit PROVE BInv
  OBVIOUS
<1>1. /\ DOMAIN file = FileSettings /\ \A k \in FileSettings : file[k] = Unset
      /\ DOMAIN env = EnvSettings /\ \A k \in EnvSettings : env[k] = Unset
      /\ edits = 0 /\ phase = "off" /\ cfg = Defaults
      /\ reg = Nothing /\ primary = Empty /\ ttsReg = Nothing /\ ticker = "none"
  BY DEF BInit
<1>2. DOMAIN Nothing = {}
  BY DEF Nothing
<1>3. BTypeOK
  <2>1. 0 \in 0..MaxEdits
    BY BootAssumption
  <2> QED BY <1>1, <1>2, <2>1, DefaultsTyped DEF BTypeOK, ConfigTyped
<1>4. InputInv
  BY <1>1 DEF InputInv, Numbers, FileSettings, EnvSettings
<1>5. LoadedInv /\ KeysInv /\ RegistryInv /\ TickerInv /\ CrashInv
  BY <1>1, DefaultsTyped DEF LoadedInv, KeysInv, RegistryInv, TickerInv, CrashInv, Loaded, Keyed, Complete, Wired
<1> QED BY <1>3, <1>4, <1>5 DEF BInv

(* The loop of RegisterBackends stops at the entry after the last that is   *)
(* registered, which is how far it has come.                                *)
LEMMA LoopPosition ==
    ASSUME NEW m \in 0..Len(Backends), RegisteredUpTo(m), Backends \in Seq(BackendEntry)
    PROVE  Cardinality({i \in DOMAIN Backends : \E n \in DOMAIN reg : i <= reg[n]}) = m
<1> DEFINE Done == {i \in DOMAIN Backends : \E n \in DOMAIN reg : i <= reg[n]}
<1>1. DOMAIN Backends = 1..Len(Backends) /\ Len(Backends) \in Nat /\ m \in Nat
  OBVIOUS
<1>2. Done \subseteq 1..m
  <2> SUFFICES ASSUME NEW i \in DOMAIN Backends, NEW n \in DOMAIN reg, i <= reg[n] PROVE i \in 1..m
    OBVIOUS
  <2>1. reg[n] \in 1..m
    BY DEF RegisteredUpTo
  <2> QED BY <1>1, <2>1
<1>3. ASSUME NEW i \in 1..m PROVE i \in Done
  <2> DEFINE n == Backends[m].name
  <2>1. m \in 1..m
    BY <1>3
  <2>2. n \in DOMAIN reg /\ m <= reg[n] /\ reg[n] \in 1..m
    BY <2>1 DEF RegisteredUpTo
  <2> QED BY <1>1, <2>2
<1>4. Done = 1..m
  BY <1>2, <1>3
<1>5. Cardinality(1..m) = m
  BY FS_Interval
<1> QED BY <1>4, <1>5

(* One more entry is registered: it takes its name over from an earlier one *)
(* (registry.go, Register).                                                 *)
LEMMA RegisteredStep ==
    ASSUME NEW m \in 0..Len(Backends), RegisteredUpTo(m), Backends \in Seq(BackendEntry),
           m + 1 <= Len(Backends), Backends[m + 1].type \in {"mlx", "ollama"},
           \A i \in DOMAIN Backends : Backends[i].name # Empty,
           Registered(m + 1), cfg' = cfg
    PROVE  RegisteredUpTo(m + 1)'
<1> DEFINE n == Backends[m + 1].name
<1>0. /\ DOMAIN Backends = 1..Len(Backends) /\ Len(Backends) \in Nat /\ m \in Nat
      /\ m + 1 \in DOMAIN Backends
  <2>1. DOMAIN Backends = 1..Len(Backends)
    OBVIOUS
  <2>2. Len(Backends) \in Nat
    OBVIOUS
  <2>3. m \in Nat
    BY <2>2
  <2> QED BY <2>1, <2>2, <2>3
<1>1. /\ DOMAIN reg' = DOMAIN reg \cup {n}
      /\ \A x \in DOMAIN reg' : reg'[x] = IF x = n THEN m + 1 ELSE reg[x]
      /\ primary' = IF primary = Empty THEN n ELSE primary
  BY DEF Registered, Put, Backends
<1>2. Backends' = Backends
  BY DEF Backends
<1>3. 1..(m + 1) = (1..m) \cup {m + 1}
  BY <1>0
<1>4. DOMAIN reg' = {Backends[i].name : i \in 1..(m + 1)}
  BY <1>1, <1>3 DEF RegisteredUpTo
<1>5. ASSUME NEW x \in DOMAIN reg'
      PROVE  /\ reg'[x] \in 1..(m + 1) /\ Backends[reg'[x]].name = x
             /\ \A j \in 1..(m + 1) : Backends[j].name = x => j <= reg'[x]
  <2>1. CASE x = n
    BY <1>0, <1>1, <1>3, <2>1
  <2>2. CASE x # n
    <3>1. x \in DOMAIN reg /\ reg'[x] = reg[x]
      BY <1>1, <2>2
    <3> QED BY <1>0, <1>3, <2>2, <3>1 DEF RegisteredUpTo
  <2> QED BY <2>1, <2>2
<1>6. \A i \in 1..(m + 1) : Backends[i].type \in {"mlx", "ollama"}
  BY <1>3 DEF RegisteredUpTo
<1>7. primary' = Backends[1].name
  <2>1. CASE m = 0
    BY <1>1, <2>1 DEF RegisteredUpTo
  <2>2. CASE m # 0
    <3>1. primary = Backends[1].name /\ 1 \in DOMAIN Backends
      BY <1>0, <2>2 DEF RegisteredUpTo
    <3> QED BY <1>1, <3>1
  <2> QED BY <2>1, <2>2
<1> QED BY <1>0, <1>2, <1>3, <1>4, <1>5, <1>6, <1>7 DEF RegisteredUpTo

\* The phases that BTypeOK lists, and the ticker's.
Phases == {"off", "launched", "exited", "crashed"} \cup Loaded
Tickers == {"none", "new", "running", "over"}

(* The registries and the primary are those of the same configuration.      *)
LEMMA SameRegistered ==
    ASSUME UNCHANGED <<cfg, reg, primary>>, NEW m
    PROVE  RegisteredUpTo(m)' = RegisteredUpTo(m)
BY DEF RegisteredUpTo, Backends

(* A step that only goes on, or ends the process.                           *)
LEMMA PhaseStep ==
    ASSUME BInv, UNCHANGED <<inputs, memory>>, ticker' \in Tickers,
           \/ phase' \in {phase, "exited"}
           \/ phase \in {"wired", "watching"} /\ phase' \in {"watching", "listening"}
           \/ phase \in Loaded /\ phase' = "crashed" /\ cfg["interval"] <= 0,
           ticker' = "new" => phase' \in {"watching", "listening"}
    PROVE  BInv'
<1>0. /\ UNCHANGED <<file, env, parses, onDisk, edits>>
      /\ UNCHANGED <<cfg, keys, reg, primary, ttsReg>>
  BY DEF inputs, memory
<1>1. BTypeOK /\ InputInv /\ LoadedInv /\ KeysInv /\ RegistryInv
  BY DEF BInv
<1>2. BTypeOK'
  <2>1. phase' \in Phases /\ ticker' \in Tickers
    BY <1>1 DEF BTypeOK, Phases, Loaded
  <2> QED BY <1>0, <1>1, <2>1 DEF BTypeOK, Phases, Loaded, Tickers, Backends, TTS
<1>3. InputInv'
  BY <1>0, <1>1 DEF InputInv
<1>4. LoadedInv'
  BY <1>0, <1>1 DEF LoadedInv, Loaded
<1>5. KeysInv'
  BY <1>0, <1>1 DEF KeysInv, Keyed, Loaded
<1>6. RegistryInv'
  <2>1. Backends' = Backends /\ TTS' = TTS /\ \A m : RegisteredUpTo(m)' = RegisteredUpTo(m)
    BY <1>0, SameRegistered DEF Backends, TTS
  <2>2. phase' = "registering" => \E m \in 0..Len(Backends) : RegisteredUpTo(m)
    BY <1>1 DEF RegistryInv
  <2>3. phase' \in Complete => RegisteredUpTo(Len(Backends))
    BY <1>1 DEF RegistryInv, Complete, Keyed, Loaded
  <2>4. phase' \in Wired => ttsReg = LastEntries(TTS)
    BY <1>1 DEF RegistryInv, Wired, Complete, Keyed, Loaded
  <2>5. phase' \in {"launched", "configured"} => phase' = phase
    OBVIOUS
  <2> QED BY <1>0, <1>1, <2>1, <2>2, <2>3, <2>4, <2>5 DEF RegistryInv, Wired, Complete, Keyed, Loaded
<1>7. TickerInv' /\ CrashInv'
  <2>1. CrashInv
    BY DEF BInv
  <2> QED BY <1>0, <2>1 DEF TickerInv, CrashInv, Loaded
<1> QED BY <1>2, <1>3, <1>4, <1>5, <1>6, <1>7 DEF BInv

(* The operator edits, or starts the process. *)
LEMMA OperatorStep ==
    ASSUME BInv, Edit \/ Launch
    PROVE  BInv'
<1>0. BTypeOK /\ InputInv /\ LoadedInv /\ TickerInv /\ phase \notin Loaded
  BY DEF BInv, Edit, Launch, Running, Loaded, BTypeOK
<1>1. CASE Edit
  <2>1. /\ edits' \in 0..MaxEdits /\ phase' = "off"
        /\ UNCHANGED <<onDisk, cfg, keys, reg, primary, ttsReg, ticker>>
    <3>1. edits \in 0..MaxEdits /\ edits < MaxEdits /\ edits' = edits + 1
      BY <1>0, <1>1 DEF BTypeOK, Edit
    <3> QED BY <1>1, <3>1, BootAssumption DEF Edit, memory
  <2>2. InputInv' /\ DOMAIN file' = FileSettings /\ DOMAIN env' = EnvSettings
    BY <1>0, <1>1, EditTyped
  <2>3. BTypeOK'
    BY <1>0, <2>1, <2>2 DEF BTypeOK, Backends, TTS
  <2>4. LoadedInv' /\ KeysInv' /\ RegistryInv' /\ TickerInv' /\ CrashInv'
    <3>1. ticker # "new"
      BY <1>0 DEF TickerInv, Loaded
    <3> QED BY <1>0, <2>1, <3>1 DEF LoadedInv, KeysInv, RegistryInv, TickerInv, CrashInv, Keyed, Complete, Wired, Loaded
  <2> QED BY <2>2, <2>3, <2>4 DEF BInv
<1>2. CASE Launch
  <2>1. /\ phase' = "launched" /\ cfg' = Defaults /\ reg' = Nothing /\ primary' = Empty
        /\ ttsReg' = Nothing /\ ticker' = "none"
        /\ UNCHANGED <<file, env, parses, onDisk, edits>>
    BY <1>2 DEF Launch, inputs
  <2>2. DOMAIN Nothing = {}
    BY DEF Nothing
  <2>3. BTypeOK'
    BY <1>0, <2>1, <2>2, DefaultsTyped DEF BTypeOK, ConfigTyped
  <2>4. InputInv'
    BY <1>0, <2>1 DEF InputInv
  <2>5. LoadedInv' /\ KeysInv' /\ RegistryInv' /\ TickerInv' /\ CrashInv'
    BY <2>1, DefaultsTyped DEF LoadedInv, KeysInv, RegistryInv, TickerInv, CrashInv, Keyed, Complete, Wired, Loaded
  <2> QED BY <2>3, <2>4, <2>5 DEF BInv
<1> QED BY <1>1, <1>2

(* Load and NewKeyStore. *)
LEMMA LoadStep ==
    ASSUME BInv, LoadConfig \/ LoadKeys
    PROVE  BInv'
<1>0. BTypeOK /\ InputInv /\ LoadedInv /\ RegistryInv /\ TickerInv
  BY DEF BInv
<1>1. CASE LoadConfig /\ phase' = "configured"
  <2>1. /\ phase = "launched" /\ phase' = "configured"
        /\ cfg' = Load(file, env).cfg /\ Load(file, env).valid
        /\ UNCHANGED <<file, env, parses, onDisk, edits, keys, reg, primary, ttsReg, ticker>>
    BY <1>1 DEF LoadConfig, Exits, inputs
  <2>2. ConfigTyped(cfg') /\ Valid(cfg')
    BY <1>0, <2>1, LoadTyped, LoadParts
  <2>3. reg = Nothing /\ primary = Empty /\ ttsReg = Nothing /\ DOMAIN Nothing = {}
    BY <1>0, <2>1 DEF RegistryInv, Nothing
  <2>4. BTypeOK'
    BY <1>0, <2>1, <2>2, <2>3 DEF BTypeOK, ConfigTyped
  <2>5. InputInv'
    BY <1>0, <2>1 DEF InputInv
  <2>6. LoadedInv' /\ KeysInv' /\ RegistryInv' /\ TickerInv' /\ CrashInv'
    BY <1>0, <2>1, <2>2, <2>3 DEF LoadedInv, KeysInv, RegistryInv, TickerInv, CrashInv, Keyed, Complete, Wired, Loaded
  <2> QED BY <2>4, <2>5, <2>6 DEF BInv
<1>2. CASE LoadConfig /\ phase' # "configured"
  <2>1. phase' = "exited" /\ ticker' = "over" /\ UNCHANGED <<inputs, memory>>
    BY <1>2 DEF LoadConfig, Exits, memory
  <2> QED BY <2>1, PhaseStep DEF Tickers
<1>3. CASE LoadKeys
  <2>1. /\ phase = "configured"
        /\ \/ phase' = "exited" /\ ticker' = "over"
           \/ phase' = "registering" /\ keys' # {} /\ ticker' = ticker
        /\ UNCHANGED <<file, env, parses, onDisk, edits, cfg, reg, primary, ttsReg>>
    BY <1>3 DEF LoadKeys, Exits, inputs
  <2>2. BTypeOK'
    BY <1>0, <2>1 DEF BTypeOK, Backends, TTS
  <2>3. InputInv' /\ LoadedInv' /\ KeysInv' /\ TickerInv' /\ CrashInv'
    BY <1>0, <2>1 DEF InputInv, LoadedInv, KeysInv, TickerInv, CrashInv, Keyed, Loaded
  <2>4. reg = Nothing /\ primary = Empty /\ ttsReg = Nothing /\ DOMAIN Nothing = {}
    BY <1>0, <2>1 DEF RegistryInv, Nothing
  <2>5. Backends \in Seq(BackendEntry) /\ Backends' = Backends
    BY <1>0, <2>1 DEF LoadedInv, ConfigTyped, Backends
  <2>6. 0 \in 0..Len(Backends)
    <3>1. Len(Backends) \in Nat
      BY <2>5
    <3> QED BY <3>1
  <2>7. RegisteredUpTo(0)
    BY <2>4 DEF RegisteredUpTo
  <2>8. RegisteredUpTo(0)'
    BY <2>1, <2>7, SameRegistered
  <2>9. RegistryInv'
    BY <2>1, <2>5, <2>6, <2>8 DEF RegistryInv, Complete, Wired, Keyed, Loaded
  <2> QED BY <2>2, <2>3, <2>9 DEF BInv
<1> QED BY <1>1, <1>2, <1>3

(* What validate has made sure of (config.go), part by part.                *)
LEMMA ValidParts ==
    ASSUME Valid(cfg)
    PROVE  /\ cfg["port"] \in 1..MaxPort
           /\ Backends # <<>>
           /\ \A i \in DOMAIN Backends : Backends[i].name # Empty
           /\ ~AtMostZero(RPS)
           /\ cfg["burst"] >= 1
           /\ cfg["otel_enabled"] => cfg["otel_endpoint"] # Empty
BY DEF Valid, Backends, RPS

(* The loop over the chat backends: one entry, the end of the list, or an   *)
(* unknown type (main.go).                                                  *)
LEMMA RegisterBackendsStep ==
    ASSUME BInv, RegisterBackends
    PROVE  BInv'
<1>0. /\ BTypeOK /\ InputInv /\ LoadedInv /\ KeysInv /\ RegistryInv /\ TickerInv
      /\ phase = "registering"
  BY DEF BInv, RegisterBackends
<1>1. /\ Backends \in Seq(BackendEntry) /\ Valid(cfg)
      /\ \A i \in DOMAIN Backends : Backends[i].name # Empty
  BY <1>0, ValidParts DEF LoadedInv, ConfigTyped, Loaded, Backends
<1>2. PICK m \in 0..Len(Backends) : RegisteredUpTo(m)
  BY <1>0 DEF RegistryInv
<1>3. Cardinality({i \in DOMAIN Backends : \E n \in DOMAIN reg : i <= reg[n]}) = m
  BY <1>1, <1>2, LoopPosition
<1>4. Len(Backends) \in Nat /\ m \in Nat
  <2>1. Len(Backends) \in Nat
    BY <1>1
  <2> QED BY <2>1
<1>5. /\ UNCHANGED <<file, env, parses, onDisk, edits, cfg, keys, ttsReg>>
      /\ IF m + 1 > Len(Backends)
         THEN phase' = "registered" /\ UNCHANGED <<reg, primary, ticker>>
         ELSE IF Backends[m + 1].type \in {"mlx", "ollama"}
         THEN Registered(m + 1) /\ UNCHANGED <<phase, ticker>>
         ELSE Exits /\ UNCHANGED <<reg, primary>>
  BY <1>3 DEF RegisterBackends, Backends, inputs
<1>6. phase' # "exited" => InputInv' /\ LoadedInv' /\ KeysInv' /\ TickerInv' /\ CrashInv'
  <2>1. phase' = "exited" \/ (phase' \in {"registering", "registered"} /\ ticker' = ticker)
    BY <1>0, <1>5 DEF Exits
  <2>2. phase' # "exited" => InputInv'
    BY <1>0, <1>5 DEF InputInv
  <2> QED BY <1>0, <1>5, <2>1, <2>2 DEF LoadedInv, KeysInv, TickerInv, CrashInv, Keyed, Loaded
<1>7. Backends' = Backends /\ TTS' = TTS
  BY <1>5 DEF Backends, TTS
<1>8. CASE m + 1 > Len(Backends)
  <2>1. m = Len(Backends) /\ phase' = "registered" /\ UNCHANGED <<reg, primary, ticker>>
    BY <1>4, <1>5, <1>8
  <2>2. BTypeOK'
    BY <1>0, <1>5, <1>7, <2>1 DEF BTypeOK
  <2>3. RegisteredUpTo(m)'
    BY <1>2, <1>5, <2>1, SameRegistered
  <2>4. RegistryInv'
    BY <1>7, <2>1, <2>3 DEF RegistryInv, Wired, Complete
  <2> QED BY <1>6, <2>1, <2>2, <2>4 DEF BInv
<1>9. CASE m + 1 <= Len(Backends) /\ Backends[m + 1].type \in {"mlx", "ollama"}
  <2>1. Registered(m + 1) /\ UNCHANGED <<phase, ticker>>
    BY <1>4, <1>5, <1>9
  <2>2. RegisteredUpTo(m + 1)'
    BY <1>1, <1>2, <1>5, <1>9, <2>1, RegisteredStep
  <2>3. m + 1 \in 0..Len(Backends) /\ DOMAIN Backends = 1..Len(Backends)
    BY <1>1, <1>4, <1>9
  <2>4. \A n \in DOMAIN reg' : reg'[n] \in DOMAIN Backends /\ Backends[reg'[n]].name = n
    <3>1. \A n \in DOMAIN reg' : reg'[n] \in 1..(m + 1) /\ Backends'[reg'[n]].name = n
      BY <2>2 DEF RegisteredUpTo
    <3> QED BY <1>4, <1>7, <2>3, <3>1
  <2>5. primary' \in DOMAIN reg' \cup {Empty}
    <3>1. primary' = Backends'[1].name /\ DOMAIN reg' = {Backends'[i].name : i \in 1..(m + 1)}
      <4>1. m + 1 # 0
        BY <1>4
      <4> QED BY <2>2, <4>1 DEF RegisteredUpTo
    <3>2. 1 \in 1..(m + 1)
      BY <1>4
    <3> QED BY <3>1, <3>2
  <2>6. BTypeOK'
    BY <1>0, <1>5, <1>7, <2>1, <2>4, <2>5 DEF BTypeOK
  <2>7. RegistryInv'
    BY <1>0, <1>7, <2>1, <2>2, <2>3 DEF RegistryInv, Wired, Complete, Keyed, Loaded
  <2> QED BY <1>0, <1>6, <2>1, <2>6, <2>7 DEF BInv
<1>10. CASE m + 1 <= Len(Backends) /\ Backends[m + 1].type \notin {"mlx", "ollama"}
  <2>1. phase' = "exited" /\ ticker' = "over" /\ UNCHANGED <<inputs, memory>>
    BY <1>4, <1>5, <1>10 DEF Exits, inputs, memory
  <2> QED BY <2>1, PhaseStep DEF Tickers
<1> QED BY <1>4, <1>8, <1>9, <1>10

(* The loop over the TTS backends. *)
LEMMA RegisterTTSStep ==
    ASSUME BInv, RegisterTTS
    PROVE  BInv'
<1>1. /\ BTypeOK /\ InputInv /\ LoadedInv /\ KeysInv /\ RegistryInv /\ TickerInv
      /\ phase = "registered"
  BY DEF BInv, RegisterTTS
<1>2. /\ phase' = "wired" /\ ttsReg' = LastEntries(TTS)
      /\ UNCHANGED <<file, env, parses, onDisk, edits, cfg, keys, reg, primary, ticker>>
  BY DEF RegisterTTS, inputs, TTS
<1>3. Backends' = Backends /\ TTS' = TTS /\ TTS \in Seq(TTSEntry)
  BY <1>1, <1>2 DEF Backends, TTS, LoadedInv, ConfigTyped
<1>4. \A n \in DOMAIN ttsReg' : ttsReg'[n] \in DOMAIN TTS /\ TTS[ttsReg'[n]].name = n
  <2> SUFFICES ASSUME NEW n \in DOMAIN LastEntries(TTS)
               PROVE  LastEntries(TTS)[n] \in DOMAIN TTS /\ TTS[LastEntries(TTS)[n]].name = n
    BY <1>2
  <2>1. PICK i \in DOMAIN TTS : n = TTS[i].name
    BY DEF LastEntries
  <2> QED BY <1>3, <2>1, LastEntriesFacts
<1>5. BTypeOK'
  BY <1>1, <1>2, <1>3, <1>4 DEF BTypeOK
<1>6. InputInv'
  BY <1>1, <1>2 DEF InputInv
<1>7. LoadedInv' /\ KeysInv' /\ TickerInv' /\ CrashInv'
  BY <1>1, <1>2 DEF LoadedInv, KeysInv, TickerInv, CrashInv, Keyed, Loaded
<1>8. RegistryInv'
  <2>1. RegisteredUpTo(Len(Backends))
    BY <1>1 DEF RegistryInv, Complete, Keyed, Loaded
  <2>2. RegisteredUpTo(Len(Backends))'
    BY <1>2, <1>3, <2>1, SameRegistered
  <2> QED BY <1>2, <1>3, <2>2 DEF RegistryInv
<1> QED BY <1>5, <1>6, <1>7, <1>8 DEF BInv

(* The invariant of start-up is inductive. *)
LEMMA BInvStep == BInv /\ [BNext]_bvars => BInv'
<1> SUFFICES ASSUME BInv, [BNext]_bvars PROVE BInv'
  OBVIOUS
<1>0. /\ ticker \in Tickers /\ TickerInv
      /\ cfg["interval"] \in Int
  BY DEF BInv, BTypeOK, Tickers, LoadedInv, ConfigTyped
<1>1. CASE Edit \/ Launch
  BY <1>1, OperatorStep
<1>2. CASE LoadConfig \/ LoadKeys
  BY <1>2, LoadStep
<1>3. CASE RegisterBackends
  BY <1>3, RegisterBackendsStep
<1>4. CASE RegisterTTS
  BY <1>4, RegisterTTSStep
<1>5. CASE StartWatchdog
  BY <1>5, PhaseStep DEF StartWatchdog, Tickers
<1>6. CASE Listen
  BY <1>0, <1>6, PhaseStep DEF Listen, TickerInv, memory, inputs
<1>7. CASE Ticker
  <2>1. phase \in {"watching", "listening"}
    BY <1>0, <1>7 DEF Ticker, TickerInv
  <2>2. CASE cfg["interval"] > 0
    <3>1. ticker' = "running" /\ phase' = phase /\ UNCHANGED <<inputs, memory>>
      BY <1>7, <2>2 DEF Ticker
    <3> QED BY <3>1, PhaseStep DEF Tickers
  <2>3. CASE ~(cfg["interval"] > 0)
    <3>1. ticker' = "over" /\ phase' = "crashed" /\ UNCHANGED <<inputs, memory>>
      BY <1>7, <2>3 DEF Ticker
    <3>2. cfg["interval"] <= 0
      BY <1>0, <2>3
    <3> QED BY <2>1, <3>1, <3>2, PhaseStep DEF Tickers, Loaded
  <2> QED BY <2>2, <2>3
<1>8. CASE TracerFails \/ Ends
  <2>1. phase' = "exited" /\ ticker' = "over" /\ UNCHANGED <<inputs, memory>>
    BY <1>8 DEF TracerFails, Ends, Exits
  <2> QED BY <2>1, PhaseStep DEF Tickers
<1>9. CASE UNCHANGED bvars
  BY <1>0, <1>9, PhaseStep DEF bvars, TickerInv
<1> QED
  BY <1>1, <1>2, <1>3, <1>4, <1>5, <1>6, <1>7, <1>8, <1>9 DEF BNext, MainStep

(* The invariant of start-up always holds. *)
LEMMA BInvAlways == BSpec => []BInv
BY BInvInit, BInvStep, PTL DEF BSpec

-----------------------------------------------------------------------------
(* What start-up promises. *)

(* Both registries hold entries of the configuration under their own names, *)
(* in every phase, for any file and environment (router.Registry).          *)
THEOREM BootType == BSpec => []BTypeOK
<1>1. BInv => BTypeOK
  BY DEF BInv
<1> QED BY <1>1, BInvAlways, PTL

(* What listens has been validated as the environment left it, has a chat   *)
(* backend of a known type and a key, and a positive rate unless the        *)
(* operator wrote NaN (main.go; config.go, validate).                       *)
THEOREM ListeningIsSound == BSpec => []ListeningSound
<1>1. BInv => ListeningSound
  <2> SUFFICES ASSUME BInv, phase = "listening"
               PROVE  /\ cfg["port"] \in 1..MaxPort
                      /\ DOMAIN reg # {} /\ primary \in DOMAIN reg
                      /\ \A n \in DOMAIN reg :
                            n # Empty /\ Backends[reg[n]].type \in {"mlx", "ollama"}
                      /\ cfg["burst"] >= 1
                      /\ Positive(RPS) \/ (RPS = NaN /\ Asked("requests_per_second", NaN))
                      /\ keys # {}
                      /\ cfg["otel_enabled"] => cfg["otel_endpoint"] # Empty
    BY Zenon DEF ListeningSound
  <2>1. /\ Backends \in Seq(BackendEntry) /\ Valid(cfg) /\ keys # {}
        /\ RegisteredUpTo(Len(Backends))
    BY DEF BInv, LoadedInv, KeysInv, RegistryInv, ConfigTyped, Backends, Complete, Keyed, Loaded
  <2>2. Backends # <<>> /\ \A i \in DOMAIN Backends : Backends[i].name # Empty
    BY <2>1, ValidParts
  <2>3. Len(Backends) \in Nat /\ Len(Backends) # 0 /\ DOMAIN Backends = 1..Len(Backends)
    BY <2>1, <2>2
  <2>4. 1 \in 1..Len(Backends)
    BY <2>3
  <2>5. primary \in DOMAIN reg
    BY <2>1, <2>3, <2>4 DEF RegisteredUpTo
  <2>6. \A n \in DOMAIN reg : n # Empty /\ Backends[reg[n]].type \in {"mlx", "ollama"}
    BY <2>1, <2>2, <2>3 DEF RegisteredUpTo
  <2>7. Positive(RPS) \/ (RPS = NaN /\ Asked("requests_per_second", NaN))
    <3>1. ~AtMostZero(RPS) /\ RPS \in Int \cup {NaN, Infinity}
      BY <2>1, ValidParts DEF BInv, LoadedInv, ConfigTyped, RPS
    <3>2. RPS = Number(FromFile(file), env, "requests_per_second")
      BY LoadParts DEF BInv, LoadedInv, Loaded, RPS
    <3>3. FromFile(file)["requests_per_second"] =
            IF file["requests_per_second"] = Unset THEN 10 ELSE file["requests_per_second"]
      <4>1. "requests_per_second" \in FileSettings /\ Defaults["requests_per_second"] = 10
        BY DEF FileSettings, Numeric, Defaults
      <4> QED BY <4>1, FileOrDefault
    <3>4. RPS = NaN => Asked("requests_per_second", NaN)
      BY <3>2, <3>3, ConfigAssumption DEF Number, Asked
    <3>5. RPS # NaN => Positive(RPS)
      BY <3>1 DEF AtMostZero, Positive
    <3> QED BY <3>4, <3>5
  <2> QED BY <2>1, <2>5, <2>6, <2>7, ValidParts, Zenon
<1> QED BY <1>1, BInvAlways, PTL

(* Of equal names the last entry serves, no other entry is lost, and every  *)
(* TTS backend is as the file or a variable has it, with at most the names  *)
(* twice that the file has twice (registry.go, Register; config.go,         *)
(* applyEnvOverrides).                                                      *)
THEOREM RegistriesFaithful == BSpec => []RegistriesAsConfigured
<1>1. BInv => RegisteredAsConfigured
  <2> SUFFICES ASSUME BInv, phase = "listening"
               PROVE  /\ primary = Backends[1].name
                      /\ \A i \in DOMAIN Backends :
                          (\A j \in DOMAIN Backends : j > i => Backends[j].name # Backends[i].name)
                              => reg[Backends[i].name] = i
    BY DEF RegisteredAsConfigured
  <2>1. /\ Backends \in Seq(BackendEntry) /\ Valid(cfg)
        /\ RegisteredUpTo(Len(Backends))
    BY DEF BInv, LoadedInv, RegistryInv, ConfigTyped, Backends, Complete, Keyed, Loaded
  <2>2. Backends # <<>>
    BY <2>1, ValidParts
  <2>3. Len(Backends) \in Nat /\ Len(Backends) # 0 /\ DOMAIN Backends = 1..Len(Backends)
    BY <2>1, <2>2
  <2>4. primary = Backends[1].name
    BY <2>1, <2>3 DEF RegisteredUpTo
  <2>5. ASSUME NEW i \in DOMAIN Backends,
               \A j \in DOMAIN Backends : j > i => Backends[j].name # Backends[i].name
        PROVE  reg[Backends[i].name] = i
    <3> DEFINE e == reg[Backends[i].name]
    <3>1. /\ e \in 1..Len(Backends) /\ Backends[e].name = Backends[i].name
          /\ i <= e
      BY <2>1, <2>3 DEF RegisteredUpTo
    <3>2. ~(e > i)
      BY <2>3, <2>5, <3>1
    <3> QED BY <2>3, <3>1, <3>2
  <2> QED BY <2>4, <2>5
<1>2. BInv => TTSFromSources
  <2> SUFFICES ASSUME BInv, phase = "listening"
               PROVE  /\ \A i \in DOMAIN FileTTS : FileTTS[i].name \in DOMAIN ttsReg
                      /\ \A n \in EnvTTSNames : env[n] # Unset => n \in DOMAIN ttsReg
                      /\ \A n \in DOMAIN ttsReg :
                          \/ \E i \in DOMAIN FileTTS : FileTTS[i] = TTS[ttsReg[n]]
                          \/ /\ n \in EnvTTSNames /\ env[n] # Unset
                             /\ TTS[ttsReg[n]].url = Trim(env[n])
                      /\ \A i, j \in DOMAIN TTS :
                          i < j /\ TTS[i].name = TTS[j].name => j \in DOMAIN FileTTS
    BY DEF TTSFromSources
  <2>1. /\ InputInv /\ ttsReg = LastEntries(TTS)
        /\ TTS = Load(file, env).cfg["tts_backends"]
    BY DEF BInv, LoadedInv, RegistryInv, TTS, Wired, Complete, Keyed, Loaded
  <2>2. FileTTS = FromFile(file)["tts_backends"]
    <3>1. "tts_backends" \in FileSettings /\ Defaults["tts_backends"] = <<>>
      BY DEF FileSettings, Defaults
    <3> QED BY <3>1, FileOrDefault DEF FileTTS
  <2>3. FileTTS \in Seq(TTSEntry)
    BY <2>1 DEF InputInv, FileTTS
  <2>4. TTS = WithEnvTTS(FileTTS, env)
    BY <2>1, <2>2, LoadParts
  <2>5. /\ Grown(FileTTS, TTS, env)
        /\ \A n \in EnvTTSNames : env[n] # Unset => TTSBackendExists(TTS, n)
    BY <2>1, <2>3, <2>4, WithEnvTTSFacts DEF InputInv
  <2>6. /\ TTS \in Seq(TTSEntry)
        /\ DOMAIN TTS = 1..Len(TTS) /\ Len(TTS) \in Nat
        /\ DOMAIN FileTTS = 1..Len(FileTTS) /\ Len(FileTTS) \in Nat
    BY <2>3, <2>5 DEF Grown
  <2>7. \A n : n \in DOMAIN ttsReg <=> TTSBackendExists(TTS, n)
    BY <2>1 DEF LastEntries, TTSBackendExists
  <2>8. ASSUME NEW i \in DOMAIN FileTTS PROVE FileTTS[i].name \in DOMAIN ttsReg
    <3>1. i \in DOMAIN TTS /\ TTS[i] = FileTTS[i]
      BY <2>5, <2>6 DEF Grown
    <3> QED BY <2>7, <3>1 DEF TTSBackendExists
  <2>9. ASSUME NEW n \in DOMAIN ttsReg
        PROVE  \/ \E i \in DOMAIN FileTTS : FileTTS[i] = TTS[ttsReg[n]]
               \/ n \in EnvTTSNames /\ env[n] # Unset /\ TTS[ttsReg[n]].url = Trim(env[n])
    <3> DEFINE e == ttsReg[n]
    <3>1. PICK i \in DOMAIN TTS : TTS[i].name = n
      BY <2>7 DEF TTSBackendExists
    <3>2. e \in DOMAIN TTS /\ TTS[e].name = n
      BY <2>1, <2>6, <3>1, LastEntriesFacts
    <3> HIDE DEF e
    <3>3. CASE e <= Len(FileTTS)
      <4>1. e \in DOMAIN FileTTS /\ FileTTS[e] = TTS[e]
        BY <2>5, <2>6, <3>2, <3>3 DEF Grown
      <4> QED BY <4>1 DEF e
    <3>4. CASE e > Len(FileTTS)
      <4>1. e \in (Len(FileTTS) + 1)..Len(TTS)
        BY <2>6, <3>2, <3>4
      <4>2. n \in EnvTTSNames /\ env[n] # Unset /\ TTS[e].url = Trim(env[n])
        BY <2>5, <3>2, <4>1 DEF Grown
      <4> QED BY <4>2 DEF e
    <3> QED BY <2>6, <3>2, <3>3, <3>4
  <2>10. ASSUME NEW i \in DOMAIN TTS, NEW j \in DOMAIN TTS, i < j, TTS[i].name = TTS[j].name
         PROVE  j \in DOMAIN FileTTS
    <3>1. CASE j > Len(FileTTS)
      <4>1. j \in (Len(FileTTS) + 1)..Len(TTS)
        BY <2>6, <3>1
      <4> QED BY <2>5, <2>6, <2>10, <4>1 DEF Grown
    <3> QED BY <2>6, <3>1
  <2> QED BY <2>5, <2>7, <2>8, <2>9, <2>10
<1> QED BY <1>1, <1>2, BInvAlways, PTL DEF RegistriesAsConfigured

(* A default, or a variable that does not parse, never takes the process    *)
(* down: the interval that does was written (watchdog.go, time.NewTicker).  *)
THEOREM CrashesWereAsked == BSpec => []CrashWasAsked
<1>1. BInv => CrashWasAsked
  <2> SUFFICES ASSUME BInv, phase = "crashed"
               PROVE  cfg["interval"] <= 0 /\ Asked("interval", cfg["interval"])
    BY DEF CrashWasAsked
  <2>1. cfg["interval"] <= 0 /\ cfg = Load(file, env).cfg
    BY DEF BInv, CrashInv, LoadedInv
  <2>2. cfg["interval"] = Number(FromFile(file), env, "interval")
    BY <2>1, LoadParts
  <2>3. FromFile(file)["interval"] = IF file["interval"] = Unset THEN 30 ELSE file["interval"]
    <3>1. "interval" \in FileSettings /\ Defaults["interval"] = 30
      BY DEF FileSettings, Numeric, Defaults
    <3> QED BY <3>1, FileOrDefault
  <2> QED BY <2>1, <2>2, <2>3 DEF Number, Asked
<1> QED BY <1>1, BInvAlways, PTL

-----------------------------------------------------------------------------
(***************************************************************************)
(* The rate limiter.                                                       *)
(***************************************************************************)

(* Multiplication, as far as the proofs need it. *)
LEMMA MulNat == \A a, b \in Nat : a * b \in Nat
OBVIOUS

(* One more tick adds one more rate. *)
LEMMA MulSucc == \A a, b \in Int : a * (b + 1) = a * b + a
OBVIOUS

(* A longer time refills no less. *)
LEMMA MulMono == \A a, b, c \in Nat : b <= c => a * b <= a * c
OBVIOUS

(* Whole tokens in an amount of units. *)
LEMMA DivToken == \A x \in Nat, t \in Nat \ {0} : x \div t \in Nat /\ (x \div t) * t <= x
OBVIOUS

(* A bucket holds at least one token. *)
LEMMA CapacityType == Capacity \in Nat /\ Token <= Capacity
<1>1. Burst \in Nat \ {0} /\ Token \in Nat \ {0}
  BY RateLimiterAssumption
<1>2. Token * 1 <= Token * Burst
  BY <1>1, MulMono
<1> QED BY <1>1, <1>2 DEF Capacity
-----------------------------------------------------------------------------
(* The fill of a bucket. *)

BaseInv == RLTypeOK /\ TimeInv

(* After the lazy refill a bucket is between empty and full. *)
LEMMA FillType ==
    ASSUME BaseInv
    PROVE  \A k \in Keys : Fill(k) \in 0..Capacity
<1> SUFFICES ASSUME NEW k \in Keys PROVE Fill(k) \in 0..Capacity
  OBVIOUS
<1>1. CASE k \notin known
  BY <1>1, CapacityType DEF Fill
<1>2. CASE k \in known
  <2>1. now - buckets[k].lastSeen \in Nat /\ buckets[k].tokens \in Nat /\ Rate \in Nat
    BY <1>2, RateLimiterAssumption DEF BaseInv, TimeInv, RLTypeOK
  <2>2. Rate * (now - buckets[k].lastSeen) \in Nat
    BY <2>1, MulNat
  <2> QED BY <1>2, <2>1, <2>2, CapacityType DEF Fill, AtMost
<1> QED BY <1>1, <1>2

(* A tick adds the rate to every bucket, up to the capacity. *)
LEMMA FillAdvance ==
    ASSUME BaseInv, now' = now + 1, UNCHANGED <<known, buckets>>
    PROVE  \A k \in Keys : Fill(k)' = AtMost(Capacity, Fill(k) + Rate)
<1> SUFFICES ASSUME NEW k \in Keys PROVE Fill(k)' = AtMost(Capacity, Fill(k) + Rate)
  OBVIOUS
<1>0. Rate \in Nat /\ Capacity \in Nat
  BY RateLimiterAssumption, CapacityType
<1>1. CASE k \notin known
  BY <1>0, <1>1 DEF Fill, AtMost
<1>2. CASE k \in known
  <2> DEFINE d == now - buckets[k].lastSeen
  <2>1. d \in Nat /\ buckets[k].tokens \in Nat /\ now \in Int /\ buckets[k].lastSeen \in Int
    BY <1>2 DEF BaseInv, TimeInv, RLTypeOK
  <2>2. now' - buckets'[k].lastSeen = d + 1
    BY <2>1
  <2>3. Rate * (d + 1) = Rate * d + Rate /\ Rate * d \in Nat
    BY <1>0, <2>1, MulSucc, MulNat
  <2>4. Fill(k) = AtMost(Capacity, buckets[k].tokens + Rate * d)
    BY <1>2 DEF Fill
  <2>5. Fill(k)' = AtMost(Capacity', buckets'[k].tokens + Rate * (now' - buckets'[k].lastSeen))
    BY <1>2 DEF Fill, AtMost
  <2>6. Fill(k)' = AtMost(Capacity, buckets[k].tokens + (Rate * d + Rate))
    BY <2>2, <2>3, <2>5 DEF Capacity
  <2> HIDE DEF d
  <2> QED BY <1>0, <2>1, <2>3, <2>4, <2>6 DEF AtMost
<1> QED BY <1>1, <1>2

(* Booking a request leaves exactly the booked units in its bucket. *)
LEMMA FillBooked ==
    ASSUME BaseInv, NEW k \in Keys, NEW u \in 0..Capacity, Booked(k, u), UNCHANGED now
    PROVE  /\ Fill(k)' = u
           /\ \A j \in Keys : j # k => Fill(j)' = Fill(j)
<1>1. k \in known' /\ buckets'[k] = [tokens |-> u, lastSeen |-> now]
  BY DEF Booked, BaseInv, RLTypeOK
<1>2. Rate * (now - now) = 0
  BY RateLimiterAssumption DEF BaseInv, RLTypeOK
<1>3. Fill(k)' = AtMost(Capacity, u + Rate * (now - now))
  BY <1>1 DEF Fill, AtMost, Capacity
<1>4. AtMost(Capacity, u + 0) = u
  BY CapacityType DEF AtMost
<1>5. \A j \in Keys : j # k => (j \in known' <=> j \in known) /\ buckets'[j] = buckets[j]
  BY DEF Booked, BaseInv, RLTypeOK
<1>6. \A j \in Keys : j # k => Fill(j)' = Fill(j)
  BY <1>5 DEF Fill, AtMost, Capacity
<1> QED BY <1>2, <1>3, <1>4, <1>6

(* A cleanup never lowers a fill, and if an idle bucket is full before it   *)
(* is stale, it changes none.                                               *)
LEMMA FillCleanup ==
    ASSUME BaseInv, Cleanup, NEW k \in Keys
    PROVE  /\ Fill(k)' \in Int /\ Fill(k)' >= Fill(k)
           /\ RefillCoversIdle => Fill(k)' = Fill(k)
<1>0. Fill(k) \in 0..Capacity /\ Capacity \in Nat
  BY FillType, CapacityType
<1>1. CASE k \notin Stale
  <2>1. (k \in known' <=> k \in known) /\ buckets'[k] = buckets[k] /\ now' = now
    BY <1>1 DEF Cleanup, BaseInv, RLTypeOK
  <2>2. Fill(k)' = Fill(k)
    BY <2>1 DEF Fill, AtMost, Capacity
  <2> QED BY <1>0, <2>2
<1>2. CASE k \in Stale
  <2>1. k \in known /\ k \notin known'
    BY <1>2 DEF Cleanup, Stale
  <2>2. Fill(k)' = Capacity
    BY <2>1 DEF Fill, Capacity
  <2>3. ASSUME RefillCoversIdle PROVE Fill(k) = Capacity
    <3> DEFINE d == now - buckets[k].lastSeen
    <3>1. d \in Nat /\ StaleAfter \in Nat /\ StaleAfter <= d /\ Rate \in Nat
          /\ buckets[k].tokens \in Nat
      BY <1>2, <2>1, RateLimiterAssumption DEF Stale, BaseInv, TimeInv, RLTypeOK
    <3>2. Rate * StaleAfter <= Rate * d /\ Rate * d \in Nat /\ Rate * StaleAfter \in Nat
      BY <3>1, MulMono, MulNat
    <3>3. Fill(k) = AtMost(Capacity, buckets[k].tokens + Rate * d)
      BY <2>1 DEF Fill
    <3>4. Rate * StaleAfter >= Capacity
      BY <2>3 DEF RefillCoversIdle
    <3> HIDE DEF d
    <3> QED BY <1>0, <3>1, <3>2, <3>3, <3>4 DEF AtMost
  <2> QED BY <1>0, <2>2, <2>3
<1> QED BY <1>1, <1>2

-----------------------------------------------------------------------------
(* Types, and dates that are not in the future. *)

(* The limiter starts with its types and nothing dated in the future. *)
LEMMA BaseInit == RLInit => BaseInv
<1> SUFFICES ASSUME RLInit PROVE BaseInv
  OBVIOUS
<1>0. 0 \in 0..MaxTime /\ 0 \in 0..Capacity
  BY RateLimiterAssumption, CapacityType
<1>1. buckets \in [Keys -> [tokens : 0..Capacity, lastSeen : 0..MaxTime]]
  BY <1>0 DEF RLInit, NoBucket
<1>2. reply \in [Keys -> [ok : BOOLEAN, remaining : Nat, at : 0..MaxTime]]
  <2>1. NoReply \in [ok : BOOLEAN, remaining : Nat, at : 0..MaxTime]
    BY <1>0 DEF NoReply
  <2> QED BY <2>1 DEF RLInit
<1>3. win \in [key : Keys, start : 0..MaxTime, grants : Nat] /\ win.start = 0
  BY <1>0 DEF RLInit
<1>4. \A k \in Keys : reply[k].at = 0
  BY DEF RLInit, NoReply
<1>5. now = 0 /\ known = {} /\ due \in BOOLEAN /\ cleaner = "running"
  BY DEF RLInit
<1>6. TimeInv
  BY <1>3, <1>4, <1>5 DEF TimeInv
<1> QED BY <1>0, <1>1, <1>2, <1>3, <1>5, <1>6 DEF BaseInv, RLTypeOK

(* Booking a request keeps the types and the dates. *)
LEMMA BookedType ==
    ASSUME BaseInv, NEW k \in Keys, NEW u \in 0..Capacity, Booked(k, u)
    PROVE  /\ known' \in SUBSET Keys
           /\ buckets' \in [Keys -> [tokens : 0..Capacity, lastSeen : 0..MaxTime]]
           /\ \A j \in known' : buckets'[j].lastSeen <= now
BY DEF Booked, BaseInv, RLTypeOK, TimeInv

(* Every step keeps the types and the dates. *)
LEMMA BaseStep == BaseInv /\ [RLNext]_rlvars => BaseInv'
<1> SUFFICES ASSUME BaseInv, [RLNext]_rlvars PROVE BaseInv'
  OBVIOUS
<1>1. ASSUME NEW k \in Keys, AllowGrants(k) PROVE BaseInv'
  <2>0. Fill(k) - Token \in 0..Capacity
    BY <1>1, FillType, RateLimiterAssumption, CapacityType DEF AllowGrants
  <2>1. (Fill(k) - Token) \div Token \in Nat
    BY <2>0, DivToken, RateLimiterAssumption, CapacityType
  <2>2. /\ known' \in SUBSET Keys
        /\ buckets' \in [Keys -> [tokens : 0..Capacity, lastSeen : 0..MaxTime]]
        /\ \A j \in known' : buckets'[j].lastSeen <= now
    BY <1>1, <2>0, BookedType DEF AllowGrants
  <2>3. /\ reply' \in [Keys -> [ok : BOOLEAN, remaining : Nat, at : 0..MaxTime]]
        /\ \A j \in Keys : reply'[j].at <= now
    <3>1. [ok |-> TRUE, remaining |-> (Fill(k) - Token) \div Token, at |-> now]
             \in [ok : BOOLEAN, remaining : Nat, at : 0..MaxTime]
      BY <2>1 DEF BaseInv, RLTypeOK
    <3>2. reply' \in [Keys -> [ok : BOOLEAN, remaining : Nat, at : 0..MaxTime]]
      BY <1>1, <3>1 DEF AllowGrants, BaseInv, RLTypeOK
    <3>3. reply'[k].at = now /\ \A j \in Keys : j # k => reply'[j] = reply[j]
      BY <1>1 DEF AllowGrants, BaseInv, RLTypeOK
    <3> QED BY <3>2, <3>3 DEF BaseInv, TimeInv, RLTypeOK
  <2>4. win' \in [key : Keys, start : 0..MaxTime, grants : Nat] /\ win'.start = win.start
    BY <1>1 DEF AllowGrants, BaseInv, RLTypeOK
  <2> QED BY <1>1, <2>2, <2>3, <2>4 DEF AllowGrants, BaseInv, RLTypeOK, TimeInv
<1>2. ASSUME NEW k \in Keys, AllowDenies(k) PROVE BaseInv'
  <2>1. /\ known' \in SUBSET Keys
        /\ buckets' \in [Keys -> [tokens : 0..Capacity, lastSeen : 0..MaxTime]]
        /\ \A j \in known' : buckets'[j].lastSeen <= now
    BY <1>2, FillType, BookedType DEF AllowDenies
  <2>2. /\ reply' \in [Keys -> [ok : BOOLEAN, remaining : Nat, at : 0..MaxTime]]
        /\ \A j \in Keys : reply'[j].at <= now
    <3>1. [ok |-> FALSE, remaining |-> 0, at |-> now]
             \in [ok : BOOLEAN, remaining : Nat, at : 0..MaxTime]
      BY DEF BaseInv, RLTypeOK
    <3>2. reply' \in [Keys -> [ok : BOOLEAN, remaining : Nat, at : 0..MaxTime]]
      BY <1>2, <3>1 DEF AllowDenies, BaseInv, RLTypeOK
    <3>3. reply'[k].at = now /\ \A j \in Keys : j # k => reply'[j] = reply[j]
      BY <1>2 DEF AllowDenies, BaseInv, RLTypeOK
    <3> QED BY <3>2, <3>3 DEF BaseInv, TimeInv, RLTypeOK
  <2> QED BY <1>2, <2>1, <2>2 DEF AllowDenies, BaseInv, RLTypeOK, TimeInv
<1>3. CASE Advance
  <2>1. due' \in BOOLEAN
    BY <1>3 DEF Advance
  <2>2. now' = now + 1 /\ now' \in 0..MaxTime /\ UNCHANGED <<known, buckets, cleaner, reply, win>>
    BY <1>3, RateLimiterAssumption DEF Advance, BaseInv, RLTypeOK
  <2>3. TimeInv'
    BY <2>2 DEF BaseInv, RLTypeOK, TimeInv
  <2> QED BY <2>1, <2>2, <2>3 DEF BaseInv, RLTypeOK
<1>4. CASE Cleanup
  <2>1. NoBucket \in [tokens : 0..Capacity, lastSeen : 0..MaxTime]
    BY RateLimiterAssumption, CapacityType DEF NoBucket
  <2>2. /\ known' \in SUBSET Keys
        /\ buckets' \in [Keys -> [tokens : 0..Capacity, lastSeen : 0..MaxTime]]
        /\ \A k \in known' : k \in known /\ buckets'[k] = buckets[k]
    BY <1>4, <2>1 DEF Cleanup, BaseInv, RLTypeOK
  <2> QED BY <1>4, <2>2 DEF Cleanup, BaseInv, RLTypeOK, TimeInv
<1>5. CASE Stop \/ CleanerReturns
  BY <1>5 DEF Stop, CleanerReturns, BaseInv, RLTypeOK, TimeInv
<1>6. ASSUME NEW k \in Keys, OpenWindow(k) PROVE BaseInv'
  BY <1>6 DEF OpenWindow, BaseInv, RLTypeOK, TimeInv
<1>7. CASE UNCHANGED rlvars
  BY <1>7 DEF rlvars, BaseInv, RLTypeOK, TimeInv
<1> QED BY <1>1, <1>2, <1>3, <1>4, <1>5, <1>6, <1>7 DEF RLNext

(* The limiter's state always has its type (ratelimit.go, all methods). *)
THEOREM RateLimiterType == RLSpec => []RLTypeOK
<1>1. RLInit => BaseInv
  BY BaseInit
<1>2. BaseInv /\ [RLNext]_rlvars => BaseInv'
  BY BaseStep
<1>3. BaseInv => RLTypeOK
  BY DEF BaseInv
<1> QED BY <1>1, <1>2, <1>3, PTL DEF RLSpec

-----------------------------------------------------------------------------
(* The bound on every window. *)

WindowInv == BaseInv /\ BudgetInv

(* At the start the observed key has its burst. *)
LEMMA WindowInit == RLInit => WindowInv
<1> SUFFICES ASSUME RLInit PROVE BudgetInv
  BY BaseInit DEF WindowInv
<1>1. win.grants = 0 /\ win.start = 0 /\ now = 0 /\ win.key \in Keys
  BY DEF RLInit
<1>2. Fill(win.key) = Capacity /\ Capacity \in Nat
  BY CapacityType DEF RLInit, Fill
<1>3. Rate * (now - win.start) = 0 /\ win.grants * Token = 0
  BY <1>1, RateLimiterAssumption
<1> QED BY <1>2, <1>3 DEF BudgetInv

(* Every step keeps the window's budget, the cleanup because an idle *)
(* bucket is full before it is stale.                                *)
LEMMA WindowStep ==
    ASSUME RefillCoversIdle, WindowInv, [RLNext]_rlvars
    PROVE  WindowInv'
<1>b. BaseInv /\ BaseInv'
  BY BaseStep DEF WindowInv
<1> SUFFICES BudgetInv'
  BY <1>b DEF WindowInv
<1> DEFINE w == win.key
           g == win.grants
           d == now - win.start
<1>0. /\ w \in Keys /\ g \in Nat /\ d \in Nat
      /\ Rate \in Nat /\ Token \in Nat \ {0} /\ Capacity \in Nat
      /\ Fill(w) \in 0..Capacity
      /\ g * Token \in Nat /\ Rate * d \in Nat
  <2>1. w \in Keys /\ g \in Nat /\ d \in Nat /\ Rate \in Nat /\ Token \in Nat \ {0}
    BY <1>b, RateLimiterAssumption DEF BaseInv, RLTypeOK, TimeInv
  <2> HIDE DEF w, g, d
  <2> QED BY <1>b, <2>1, FillType, CapacityType, MulNat
<1>i. g * Token + Fill(w) <= Capacity + Rate * d
  BY DEF WindowInv, BudgetInv
<1>1. ASSUME NEW k \in Keys, AllowGrants(k) PROVE BudgetInv'
  <2>0. /\ Fill(k) - Token \in 0..Capacity /\ UNCHANGED now
        /\ Booked(k, Fill(k) - Token)
    BY <1>b, <1>0, <1>1, FillType DEF AllowGrants
  <2>1. CASE k = w
    <3>1. Fill(w)' = Fill(w) - Token /\ win'.key = w /\ win'.start = win.start
          /\ win'.grants = g + 1
      BY <1>b, <1>0, <1>1, <2>0, <2>1, FillBooked DEF AllowGrants, BaseInv, RLTypeOK
    <3>2. (g + 1) * Token = g * Token + Token
      BY <1>0, MulSucc
    <3>3. Fill(win.key)' = Fill(w) - Token /\ now' - win'.start = d
      BY <2>0, <3>1 DEF Fill
    <3> HIDE DEF w, g, d
    <3>4. (g + 1) * Token + (Fill(w) - Token) <= Capacity + Rate * d
      BY <1>0, <1>i, <3>2
    <3> QED BY <3>1, <3>3, <3>4 DEF BudgetInv, Capacity
  <2>2. CASE k # w
    <3>1. Fill(w)' = Fill(w) /\ win' = win
      BY <1>b, <1>0, <1>1, <2>0, <2>2, FillBooked DEF AllowGrants
    <3> QED BY <1>i, <2>0, <3>1 DEF BudgetInv, Fill, Capacity
  <2> QED BY <2>1, <2>2
<1>2. ASSUME NEW k \in Keys, AllowDenies(k) PROVE BudgetInv'
  <2>0. Fill(k) \in 0..Capacity /\ UNCHANGED <<now, win>> /\ Booked(k, Fill(k))
    BY <1>b, <1>2, FillType DEF AllowDenies
  <2>1. Fill(w)' = Fill(w)
    BY <1>b, <1>0, <2>0, FillBooked
  <2> QED BY <1>i, <2>0, <2>1 DEF BudgetInv, Fill, Capacity
<1>3. CASE Advance
  <2>0. now' = now + 1 /\ UNCHANGED <<known, buckets, win>> /\ now \in Int /\ win.start \in Int
    BY <1>3, <1>b DEF Advance, BaseInv, RLTypeOK
  <2>1. Fill(w)' = AtMost(Capacity, Fill(w) + Rate)
    BY <1>b, <1>0, <2>0, FillAdvance
  <2>2. now' - win'.start = d + 1
    BY <2>0
  <2>3. Rate * (d + 1) = Rate * d + Rate
    BY <1>0, MulSucc
  <2>4. Fill(win.key)' = Fill(w)' /\ win'.grants = g
    BY <2>0
  <2> HIDE DEF w, g, d
  <2>5. AtMost(Capacity, Fill(w) + Rate) <= Fill(w) + Rate
    BY <1>0 DEF AtMost
  <2>6. AtMost(Capacity, Fill(w) + Rate) \in Int
    BY <1>0 DEF AtMost
  <2>7. g * Token + Fill(w)' <= Capacity + Rate * (d + 1)
    BY <1>0, <1>i, <2>1, <2>3, <2>5, <2>6
  <2> QED BY <2>2, <2>4, <2>7 DEF BudgetInv, Capacity
<1>4. CASE Cleanup
  <2>1. Fill(w)' = Fill(w) /\ UNCHANGED <<now, win>>
    BY <1>b, <1>0, <1>4, FillCleanup DEF Cleanup
  <2> QED BY <1>i, <2>1 DEF BudgetInv, Capacity
<1>5. CASE Stop \/ CleanerReturns \/ UNCHANGED rlvars
  <2>1. UNCHANGED <<now, known, buckets, win>>
    BY <1>5 DEF Stop, CleanerReturns, rlvars
  <2> QED BY <1>i, <2>1 DEF BudgetInv, Fill, AtMost, Capacity
<1>6. ASSUME NEW k \in Keys, OpenWindow(k) PROVE BudgetInv'
  <2>1. /\ win' = [key |-> k, start |-> now, grants |-> 0]
        /\ UNCHANGED <<now, known, buckets>> /\ now \in Int
    BY <1>6, <1>b DEF OpenWindow, BaseInv, RLTypeOK
  <2>2. win'.key = k /\ win'.start = now /\ win'.grants = 0
    BY <2>1
  <2>3. Fill(k)' = Fill(k) /\ Fill(k) \in 0..Capacity
    BY <1>b, <2>1, FillType DEF Fill, AtMost, Capacity
  <2>4. Rate * (now' - win'.start) = 0 /\ win'.grants * Token = 0
    BY <1>0, <2>1, <2>2
  <2>5. Fill(win.key)' = Fill(k)
    BY <2>2, <2>3 DEF Fill
  <2> QED BY <1>0, <2>3, <2>4, <2>5 DEF BudgetInv, Capacity
<1> QED BY <1>1, <1>2, <1>3, <1>4, <1>5, <1>6 DEF RLNext

(* The budget bounds the grants. *)
LEMMA WindowImplies == WindowInv => WindowBound
<1> SUFFICES ASSUME WindowInv PROVE WindowBound
  OBVIOUS
<1>1. win.grants \in Nat /\ win.key \in Keys /\ now - win.start \in Nat /\ Rate \in Nat /\ Token \in Nat
  BY RateLimiterAssumption DEF WindowInv, BaseInv, RLTypeOK, TimeInv
<1>2. Fill(win.key) \in 0..Capacity /\ Capacity \in Nat
  BY <1>1, FillType, CapacityType DEF WindowInv
<1>3. win.grants * Token \in Nat /\ Rate * (now - win.start) \in Nat
  BY <1>1, MulNat
<1> QED BY <1>2, <1>3 DEF WindowInv, BudgetInv, WindowBound

(* No key is granted more than its burst and the refill in any interval     *)
(* (Allow and cleanup in ratelimit.go), provided that a bucket is full      *)
(* before it is stale.                                                      *)
THEOREM WindowBounded ==
    ASSUME RefillCoversIdle
    PROVE  RLSpec => []WindowBound
<1>1. RLInit => WindowInv
  BY WindowInit
<1>2. WindowInv /\ [RLNext]_rlvars => WindowInv'
  BY RefillCoversIdle, WindowStep
<1>3. WindowInv => WindowBound
  BY WindowImplies
<1> QED BY <1>1, <1>2, <1>3, PTL DEF RLSpec

-----------------------------------------------------------------------------
(* The headers. *)

HeaderInv == BaseInv /\ RemainingHonest /\ DatedInv

(* Nothing has been promised at the start. *)
LEMMA HeaderInit == RLInit => HeaderInv
<1> SUFFICES ASSUME RLInit PROVE RemainingHonest /\ DatedInv
  BY BaseInit DEF HeaderInv
<1>1. ASSUME NEW k \in Keys PROVE Fill(k) >= reply[k].remaining * Token
  <2>1. Fill(k) = Capacity /\ reply[k].remaining = 0
    BY DEF RLInit, Fill, NoReply
  <2> QED BY <2>1, CapacityType, RateLimiterAssumption
<1> QED BY <1>1 DEF RLInit, RemainingHonest, DatedInv

(* No fill falls unless the key sends a request. *)
LEMMA HonestIfNotLower ==
    ASSUME BaseInv, RemainingHonest, UNCHANGED reply,
           \A k \in Keys : Fill(k)' \in Int /\ Fill(k)' >= Fill(k)
    PROVE  RemainingHonest'
<1> SUFFICES ASSUME NEW k \in Keys PROVE Fill(k)' >= reply'[k].remaining * Token
  BY DEF RemainingHonest
<1>1. Fill(k) \in 0..Capacity
  BY FillType
<1>2. reply[k].remaining * Token \in Int
  BY RateLimiterAssumption DEF BaseInv, RLTypeOK
<1> QED BY <1>1, <1>2, CapacityType DEF RemainingHonest

(* Every step keeps the promise of the remaining count and the date of the *)
(* last answer.                                                            *)
LEMMA HeaderStep == HeaderInv /\ [RLNext]_rlvars => HeaderInv'
<1> SUFFICES ASSUME HeaderInv, [RLNext]_rlvars PROVE RemainingHonest' /\ DatedInv'
  BY BaseStep DEF HeaderInv
<1>b. BaseInv /\ BaseInv'
  BY BaseStep DEF HeaderInv
<1> USE DEF HeaderInv
<1>1. ASSUME NEW k \in Keys, AllowGrants(k) PROVE RemainingHonest' /\ DatedInv'
  <2>0. Fill(k) - Token \in 0..Capacity /\ Booked(k, Fill(k) - Token) /\ UNCHANGED now
    BY <1>b, <1>1, FillType, RateLimiterAssumption, CapacityType DEF AllowGrants
  <2>1. Fill(k)' = Fill(k) - Token /\ \A j \in Keys : j # k => Fill(j)' = Fill(j)
    BY <1>b, <2>0, FillBooked
  <2>2. /\ reply'[k].remaining = (Fill(k) - Token) \div Token /\ reply'[k].at = now
        /\ \A j \in Keys : j # k => reply'[j] = reply[j]
    BY <1>1, <1>b DEF AllowGrants, BaseInv, RLTypeOK
  <2>3. ((Fill(k) - Token) \div Token) * Token <= Fill(k) - Token
    BY <2>0, CapacityType, RateLimiterAssumption, DivToken
  <2>4. Fill(k)' >= reply'[k].remaining * Token
    <3>1. (Fill(k) - Token) \div Token \in Nat
      BY <2>0, CapacityType, RateLimiterAssumption, DivToken
    <3>2. ((Fill(k) - Token) \div Token) * Token \in Int
      BY <3>1, RateLimiterAssumption
    <3>3. Fill(k)' >= ((Fill(k) - Token) \div Token) * Token
      BY <2>0, <2>1, <2>3, <3>2
    <3> QED BY <2>2, <3>3
  <2>5. RemainingHonest'
    BY <2>1, <2>2, <2>4 DEF RemainingHonest
  <2>6. DatedInv'
    BY <1>b, <2>0, <2>2 DEF DatedInv, Booked, BaseInv, RLTypeOK
  <2> QED BY <2>5, <2>6
<1>2. ASSUME NEW k \in Keys, AllowDenies(k) PROVE RemainingHonest' /\ DatedInv'
  <2>0. Fill(k) \in 0..Capacity /\ Booked(k, Fill(k)) /\ UNCHANGED now
    BY <1>b, <1>2, FillType DEF AllowDenies
  <2>1. \A j \in Keys : Fill(j)' = Fill(j)
    BY <1>b, <2>0, FillBooked
  <2>2. /\ reply'[k].remaining = 0 /\ reply'[k].at = now
        /\ \A j \in Keys : j # k => reply'[j] = reply[j]
    BY <1>2, <1>b DEF AllowDenies, BaseInv, RLTypeOK
  <2>3. Fill(k)' >= reply'[k].remaining * Token
    BY <2>0, <2>1, <2>2, RateLimiterAssumption
  <2>4. RemainingHonest'
    BY <2>1, <2>2, <2>3 DEF RemainingHonest
  <2>5. DatedInv'
    BY <1>b, <2>0, <2>2 DEF DatedInv, Booked, BaseInv, RLTypeOK
  <2> QED BY <2>4, <2>5
<1>3. CASE Advance
  <2>0. now' = now + 1 /\ UNCHANGED <<known, buckets, reply>>
    BY <1>3 DEF Advance
  <2>1. \A k \in Keys : Fill(k)' = AtMost(Capacity, Fill(k) + Rate) /\ Fill(k) \in 0..Capacity
    BY <1>b, <2>0, FillAdvance, FillType
  <2>2. \A k \in Keys : Fill(k)' \in Int /\ Fill(k)' >= Fill(k)
    BY <2>1, CapacityType, RateLimiterAssumption DEF AtMost
  <2> QED BY <1>b, <2>0, <2>2, HonestIfNotLower DEF DatedInv
<1>4. CASE Cleanup
  <2>1. UNCHANGED reply /\ \A k \in Keys : Fill(k)' \in Int /\ Fill(k)' >= Fill(k)
    BY <1>b, <1>4, FillCleanup DEF Cleanup
  <2>2. \A k \in known' : k \in known /\ buckets'[k] = buckets[k]
    BY <1>4, <1>b DEF Cleanup, BaseInv, RLTypeOK
  <2> QED BY <1>b, <2>1, <2>2, HonestIfNotLower DEF DatedInv
<1>5. ASSUME UNCHANGED <<now, known, buckets, reply>> PROVE RemainingHonest' /\ DatedInv'
  BY <1>5 DEF RemainingHonest, DatedInv, Fill, AtMost, Capacity
<1>6. CASE Stop \/ CleanerReturns \/ UNCHANGED rlvars
  BY <1>5, <1>6 DEF Stop, CleanerReturns, rlvars
<1>7. ASSUME NEW k \in Keys, OpenWindow(k) PROVE RemainingHonest' /\ DatedInv'
  BY <1>5, <1>7 DEF OpenWindow
<1> QED BY <1>1, <1>2, <1>3, <1>4, <1>6, <1>7 DEF RLNext

(* X-RateLimit-Remaining promises no request that Allow would refuse. *)
THEOREM RemainingIsHonest == RLSpec => []RemainingHonest
<1>1. RLInit => HeaderInv
  BY HeaderInit
<1>2. HeaderInv /\ [RLNext]_rlvars => HeaderInv'
  BY HeaderStep
<1>3. HeaderInv => RemainingHonest
  BY DEF HeaderInv
<1> QED BY <1>1, <1>2, <1>3, PTL DEF RLSpec

(* If a second refills a token, a denied key has one a second later. *)
LEMMA RetryImplies ==
    ASSUME SecondRefillsToken, HeaderInv
    PROVE  RetryAfterHonoured
<1> SUFFICES ASSUME NEW k \in Keys, now - reply[k].at >= Second PROVE Fill(k) >= Token
  BY DEF RetryAfterHonoured
<1>0. Capacity \in Nat /\ Token \in Nat /\ Token <= Capacity
  BY CapacityType, RateLimiterAssumption
<1>1. CASE k \notin known
  BY <1>0, <1>1 DEF Fill
<1>2. CASE k \in known
  <2> DEFINE d == now - buckets[k].lastSeen
  <2>1. d \in Nat /\ Second \in Nat /\ Second <= d /\ Rate \in Nat /\ buckets[k].tokens \in Nat
    BY <1>2, RateLimiterAssumption DEF HeaderInv, DatedInv, BaseInv, RLTypeOK, TimeInv
  <2>2. Rate * Second <= Rate * d /\ Rate * d \in Nat /\ Rate * Second \in Nat
    BY <2>1, MulMono, MulNat
  <2>3. Fill(k) = AtMost(Capacity, buckets[k].tokens + Rate * d)
    BY <1>2 DEF Fill
  <2>4. Rate * Second >= Token
    BY DEF SecondRefillsToken
  <2> HIDE DEF d
  <2> QED BY <1>0, <2>1, <2>2, <2>3, <2>4 DEF AtMost
<1> QED BY <1>1, <1>2

(* The X-RateLimit-Remaining and the Retry-After of one second that         *)
(* RateLimit sends are honest, provided that a second refills a token.      *)
THEOREM HeadersAreHonest ==
    ASSUME SecondRefillsToken
    PROVE  RLSpec => []HeadersHonest
<1>1. RLInit => HeaderInv
  BY HeaderInit
<1>2. HeaderInv /\ [RLNext]_rlvars => HeaderInv'
  BY HeaderStep
<1>3. HeaderInv => HeadersHonest
  BY SecondRefillsToken, RetryImplies DEF HeaderInv, HeadersHonest
<1> QED BY <1>1, <1>2, <1>3, PTL DEF RLSpec

-----------------------------------------------------------------------------
(* The cleanup. *)

(* The clock's position between two ticks of the cleanup's ticker. *)
LEMMA ModNext ==
    \A n \in Nat, c \in Nat \ {0} :
        n % c \in 0..c-1 /\ ((n + 1) % c # 0 => (n + 1) % c = (n % c) + 1)
<1> SUFFICES ASSUME NEW n \in Nat, NEW c \in Nat \ {0}
             PROVE  n % c \in 0..c-1 /\ ((n + 1) % c # 0 => (n + 1) % c = (n % c) + 1)
  OBVIOUS
<1> DEFINE q == n \div c   r == n % c   p == (n + 1) \div c   s == (n + 1) % c
<1>1. n = c * q + r /\ r \in 0..c-1 /\ q \in Nat
  OBVIOUS
<1>2. n + 1 = c * p + s /\ s \in 0..c-1 /\ p \in Nat
  OBVIOUS
<1>3. p = q \/ p = q + 1
  <2>1. c * (p - q) <= c /\ c * (p - q) > -c
    <3>1. c * p - c * q = r + 1 - s
      BY <1>1, <1>2
    <3>2. c * (p - q) = c * p - c * q
      BY <1>1, <1>2
    <3> QED BY <1>1, <1>2, <3>1, <3>2
  <2> HIDE DEF p, q
  <2>2. p - q >= 2 => c * (p - q) >= c * 2
    BY <1>1, <1>2
  <2>3. p - q <= -1 => c * (p - q) <= -c
    BY <1>1, <1>2
  <2> QED BY <1>1, <1>2, <2>1, <2>2, <2>3
<1> HIDE DEF p, q, r, s
<1>4. CASE p = q
  BY <1>1, <1>2, <1>4
<1>5. CASE p = q + 1
  <2>1. c * p = c * q + c
    BY <1>1, <1>5
  <2> QED BY <1>1, <1>2, <2>1
<1> QED BY <1>1, <1>3, <1>4, <1>5 DEF r, s

(* No bucket is idle for longer than the stale age and the time since the  *)
(* last tick the cleanup received.                                         *)
IdleInv ==
    /\ BaseInv
    /\ ~due /\ cleaner # "gone" =>
          \A k \in known : now - buckets[k].lastSeen <= StaleAfter + (now % CleanEvery)

(* Requests make their own bucket young; a tick ages every bucket by as     *)
(* much as it moves the clock; the cleanup leaves no stale bucket.          *)
LEMMA IdleStep == IdleInv /\ [RLNext]_rlvars => IdleInv'
<1> SUFFICES ASSUME IdleInv, [RLNext]_rlvars,
                    ~due', cleaner' # "gone", NEW k \in known'
             PROVE  (now - buckets[k].lastSeen <= StaleAfter + (now % CleanEvery))'
  BY BaseStep DEF IdleInv
<1>0. /\ now \in Nat /\ StaleAfter \in Nat /\ CleanEvery \in Nat \ {0}
      /\ known \subseteq Keys /\ \A j \in known : buckets[j].lastSeen \in Nat
      /\ buckets \in [Keys -> [tokens : 0..Capacity, lastSeen : 0..MaxTime]]
      /\ now % CleanEvery \in Nat
  BY ModNext, RateLimiterAssumption DEF IdleInv, BaseInv, RLTypeOK
<1>1. ASSUME NEW j \in Keys, NEW u, Booked(j, u), UNCHANGED <<now, due, cleaner>>
      PROVE  (now - buckets[k].lastSeen <= StaleAfter + (now % CleanEvery))'
  <2>1. CASE k = j
    BY <1>0, <1>1, <2>1 DEF Booked
  <2>2. CASE k # j
    BY <1>0, <1>1, <2>2 DEF Booked, IdleInv
  <2> QED BY <2>1, <2>2
<1>2. CASE \E j \in Keys : AllowGrants(j) \/ AllowDenies(j)
  BY <1>1, <1>2 DEF AllowGrants, AllowDenies
<1>3. CASE Advance
  <2>1. ~due /\ now' = now + 1 /\ now' % CleanEvery # 0 /\ k \in known
    BY <1>3 DEF Advance
  <2>2. now' % CleanEvery = (now % CleanEvery) + 1
    BY <1>0, <2>1, ModNext
  <2>3. now - buckets[k].lastSeen <= StaleAfter + (now % CleanEvery)
    BY <1>3, <2>1 DEF Advance, IdleInv
  <2> HIDE DEF IdleInv
  <2>4. buckets' = buckets /\ buckets[k].lastSeen \in Nat
    BY <1>0, <1>3, <2>1 DEF Advance
  <2> QED BY <1>0, <2>1, <2>2, <2>3, <2>4
<1>4. CASE Cleanup
  <2>1. /\ now' = now /\ k \in known /\ k \notin Stale
        /\ buckets' = [j \in Keys |-> IF j \in Stale THEN NoBucket ELSE buckets[j]]
    BY <1>4 DEF Cleanup
  <2>2. buckets'[k] = buckets[k] /\ ~(now - buckets[k].lastSeen > StaleAfter)
    BY <1>0, <2>1 DEF Stale
  <2>3. buckets[k].lastSeen \in Nat
    BY <1>0, <2>1
  <2> HIDE DEF IdleInv
  <2> QED BY <1>0, <2>1, <2>2, <2>3
<1>5. CASE Stop \/ CleanerReturns \/ (\E j \in Keys : OpenWindow(j)) \/ UNCHANGED rlvars
  BY <1>5 DEF Stop, CleanerReturns, OpenWindow, rlvars, IdleInv
<1> QED BY <1>2, <1>3, <1>4, <1>5 DEF RLNext

(* The cleanup of ratelimit.go leaves no bucket of an idle key for longer   *)
(* than the stale age and one interval, whatever the rate, the burst and    *)
(* both times are.                                                          *)
THEOREM IdleIsBounded == RLSpec => []IdleBounded
<1>1. RLInit => IdleInv
  BY BaseInit DEF RLInit, IdleInv
<1>2. IdleInv /\ [RLNext]_rlvars => IdleInv'
  BY IdleStep
<1>3. IdleInv => IdleBounded
  <2> SUFFICES ASSUME IdleInv, ~due, cleaner # "gone", NEW k \in known
               PROVE  now - buckets[k].lastSeen < StaleAfter + CleanEvery
    BY DEF IdleBounded
  <2>1. now \in Nat /\ StaleAfter \in Nat /\ CleanEvery \in Nat \ {0} /\ buckets[k].lastSeen \in Nat
    BY RateLimiterAssumption DEF IdleInv, BaseInv, RLTypeOK
  <2>2. now % CleanEvery \in 0..CleanEvery-1
    BY <2>1, ModNext
  <2>3. now - buckets[k].lastSeen <= StaleAfter + (now % CleanEvery)
    BY DEF IdleInv
  <2> QED BY <2>1, <2>2, <2>3
<1> QED BY <1>1, <1>2, <1>3, PTL DEF RLSpec

-----------------------------------------------------------------------------
(* The refinement. *)

(* The lazy limiter's initial states are the token bucket's. *)
LEMMA RefinesInit == RLInit => TB!TBInit
<1> SUFFICES ASSUME RLInit PROVE TB!TBInit
  OBVIOUS
<1>1. \A k \in Keys : Fill(k) = Capacity
  BY DEF RLInit, Fill
<1> QED BY <1>1 DEF RLInit, TB!TBInit, TB!NoReply, NoReply

(* Every step of the limiter is a step of the token bucket or a stutter. *)
LEMMA RefinesStep ==
    ASSUME RefillCoversIdle, BaseInv, [RLNext]_rlvars
    PROVE  [TB!TBNext]_(TB!tbvars)
<1> DEFINE level == [k \in Keys |-> Fill(k)]
<1>1. ASSUME NEW k \in Keys, AllowGrants(k) PROVE TB!TBNext
  <2>0. Fill(k) - Token \in 0..Capacity /\ Booked(k, Fill(k) - Token) /\ UNCHANGED now
    BY <1>1, FillType, RateLimiterAssumption, CapacityType DEF AllowGrants
  <2>1. Fill(k)' = Fill(k) - Token /\ \A j \in Keys : j # k => Fill(j)' = Fill(j)
    BY <2>0, FillBooked
  <2>2. level' = [level EXCEPT ![k] = @ - Token]
    BY <2>1
  <2>3. TB!Grant(k)
    BY <1>1, <2>0, <2>2 DEF TB!Grant, AllowGrants
  <2> QED BY <2>3 DEF TB!TBNext
<1>2. ASSUME NEW k \in Keys, AllowDenies(k) PROVE TB!TBNext
  <2>0. Fill(k) \in 0..Capacity /\ Booked(k, Fill(k)) /\ UNCHANGED now
    BY <1>2, FillType DEF AllowDenies
  <2>1. \A j \in Keys : Fill(j)' = Fill(j)
    BY <2>0, FillBooked
  <2>2. level' = level
    BY <2>1
  <2>3. TB!Deny(k)
    BY <1>2, <2>0, <2>2 DEF TB!Deny, AllowDenies
  <2> QED BY <2>3 DEF TB!TBNext
<1>3. CASE Advance
  <2>1. \A k \in Keys : Fill(k)' = AtMost(Capacity, Fill(k) + Rate)
    BY <1>3, FillAdvance DEF Advance
  <2>2. level' = [k \in Keys |-> TB!AtMost(Capacity, level[k] + Rate)]
    BY <2>1 DEF TB!AtMost, AtMost
  <2>3. TB!RefillAll
    BY <1>3, <2>2 DEF TB!RefillAll, Advance
  <2> QED BY <2>3 DEF TB!TBNext
<1>4. CASE Cleanup
  <2>1. \A k \in Keys : Fill(k)' = Fill(k)
    BY <1>4, FillCleanup
  <2>2. level' = level
    BY <2>1
  <2> QED BY <1>4, <2>2 DEF Cleanup, TB!tbvars
<1>5. ASSUME UNCHANGED <<now, known, buckets, reply>> PROVE UNCHANGED TB!tbvars
  BY <1>5 DEF TB!tbvars, Fill, AtMost, Capacity
<1>6. CASE Stop \/ CleanerReturns \/ UNCHANGED rlvars
  BY <1>5, <1>6 DEF Stop, CleanerReturns, rlvars
<1>7. ASSUME NEW k \in Keys, OpenWindow(k) PROVE UNCHANGED TB!tbvars
  BY <1>5, <1>7 DEF OpenWindow
<1> QED BY <1>1, <1>2, <1>3, <1>4, <1>6, <1>7 DEF RLNext

(* The lazily refilled, garbage-collected buckets answer every request as   *)
(* the eager token bucket does (Allow and cleanup in ratelimit.go),         *)
(* provided that a bucket is full before it is stale.                       *)
THEOREM LimiterIsTokenBucket ==
    ASSUME RefillCoversIdle
    PROVE  RLSpec => ImplementsTokenBucket
<1>1. RLInit => BaseInv /\ TB!TBInit
  BY BaseInit, RefinesInit
<1>2. BaseInv /\ [RLNext]_rlvars => BaseInv' /\ [TB!TBNext]_(TB!tbvars)
  BY RefillCoversIdle, BaseStep, RefinesStep
<1> QED BY <1>1, <1>2, PTL DEF RLSpec, ImplementsTokenBucket, TB!TBSpec

=============================================================================
