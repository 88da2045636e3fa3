------------------------------- MODULE MCBoot -------------------------------
(* What the operator writes: values on both sides of every check. *)
EXTENDS Boot

MCNumbers == {0, 7, 70000}

MCTexts ==
    EnvTTSNames \cup {"", " ", "a", "b", "e", "f", "g", "u", "v", "local", "ollama", "mlx", "vllm"}

Ollama(n, u) == [name |-> n, type |-> "ollama", url |-> u]

MCFileEdits ==
    (Numeric \X MCNumbers)
    \cup ({"requests_per_second"} \X {NaN, Infinity})
    \cup {<<"level", "WARN">>, <<"format", "text">>, <<"cloud_format", "azure">>}
    \cup {<<"otel_enabled", TRUE>>, <<"otel_endpoint", "collector">>, <<"keys_file", "">>}
    \cup ({"backends"} \X
            {<<>>, <<Ollama("a", "")>>, <<Ollama("a", "u"), Ollama("a", "v")>>,
             <<Ollama("a", "u"), [name |-> "b", type |-> "mlx", url |-> "v"]>>,
             <<Ollama("a", "u"), [name |-> "b", type |-> "vllm", url |-> "v"]>>})
    \cup ({"tts_backends"} \X
            {<<[name |-> "kokoro", url |-> "f"]>>,
             <<[name |-> "kokoro", url |-> "f"], [name |-> "kokoro", url |-> "g"]>>})

MCEnvEdits ==
    (Numeric \X (MCNumbers \cup {Garbage}))
    \cup ({"requests_per_second"} \X {NaN, Infinity})
    \cup {<<"level", "WARN">>, <<"level", "loud">>, <<"cloud_format", "GCP">>, <<"cloud_format", " ">>}
    \cup {<<"otel_enabled", TRUE>>, <<"otel_enabled", FALSE>>, <<"otel_endpoint", " ">>}
    \cup {<<"backend_url", "e">>, <<"backend_url", " ">>, <<"kokoro", "e">>, <<"misotts", " ">>}
    \cup {<<"api_keys", {}>>, <<"api_keys", {"sk-env"}>>}

MCKeyFiles == {Unset, {}, {"sk-file"}}

=============================================================================
