------------------------------ MODULE MCSpeech ------------------------------
(* The speech endpoint for TLC.  Two backend names begin with the name of    *)
(* the third, which is also the default model.                               *)
EXTENDS Speech, TLC

MCModels == {"kokoro", "kokoro-hd", "kokoro-lite"}
MCExtends == {"kokoro"} \X {"kokoro-hd", "kokoro-lite"}

RequestSymmetry == Permutations(Requests)

=============================================================================
