----------------------------- MODULE MCGateway -----------------------------
(* The gateway for TLC: backends and requests are interchangeable model     *)
(* values in the runs that check no temporal property.                      *)
EXTENDS Gateway, TLC

BackendAndRequestSymmetry == Permutations(ChatBackends) \cup Permutations(Requests)

\* The runs with two backends look at the traffic, the one with a single
\* backend at the shutdown: in the former nothing is explored after the signal.
UntilSignal == phase \in {"boot", "starting", "serving"}

=============================================================================
