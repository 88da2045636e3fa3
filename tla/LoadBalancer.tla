---------------------------- MODULE LoadBalancer ----------------------------
(***************************************************************************)
(* The least-connections balancer (internal/backend/loadbalancer.go): a    *)
(* count of in-flight requests per backend and a round-robin counter, each *)
(* method one critical section.  Select only reads the counts; the caller  *)
(* adds itself with a separate Acquire, and another caller may come        *)
(* between the two.                                                        *)
(***************************************************************************)
EXTENDS Integers, Sequences, FiniteSets

CONSTANTS
    Backends,   \* the names the balancer is used with
    RRMod       \* the counter wraps here: 2^64 in the code

VARIABLES
    active,     \* name -> in-flight count
    rr          \* the round-robin counter

lbvars == <<active, rr>>

LBInit ==
    /\ active = [b \in Backends |-> 0]
    /\ rr = 0

LBTypeOK ==
    /\ active \in [Backends -> Nat]
    /\ rr \in 0..(RRMod - 1)

Acquire(b) ==
    /\ active' = [active EXCEPT ![b] = @ + 1]
    /\ UNCHANGED rr

\* A count never goes below zero.
Release(b) ==
    /\ active' = [active EXCEPT ![b] = IF @ > 0 THEN @ - 1 ELSE @]
    /\ UNCHANGED rr

\* Of the candidates names[i], i \in P: those with the fewest requests in flight.
Tied(names, P) == {i \in P : \A j \in P : active[names[i]] <= active[names[j]]}

\* Faulty variant: counted from one.
IsNthFromOne(names, P, i, k) == Cardinality({j \in Tied(names, P) : j <= i}) = k

\* The position in names of the k-th tied candidate, counted from zero.
IsNth(names, P, i, k) == Cardinality({j \in Tied(names, P) : j < i}) = k

(* Select over a non-empty candidate list: the part of names that P selects. *)
(* A single candidate is returned without touching the counter.              *)
Select(names, P, b) ==
    \/ /\ Cardinality(P) = 1
       /\ \E i \in P : b = names[i]
       /\ UNCHANGED lbvars
    \/ /\ Cardinality(P) > 1
       /\ \E i \in Tied(names, P) :
            /\ IsNth(names, P, i, rr % Cardinality(Tied(names, P)))
            /\ b = names[i]
       /\ rr' = (rr + 1) % RRMod
       /\ UNCHANGED active

=============================================================================
