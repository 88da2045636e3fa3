---------------------------- MODULE TokenBucket ----------------------------
(***************************************************************************)
(* What a per-key token bucket promises: every key has a level that is     *)
(* refilled at every tick of the clock, never beyond the capacity, and a   *)
(* request is granted exactly when a whole token is there, which it takes. *)
(* No bucket is ever created or forgotten.  The rate limiter implements    *)
(* this with lazily refilled buckets that a cleanup goroutine deletes.     *)
(***************************************************************************)
EXTENDS Integers

CONSTANTS
    Keys,       \* API keys
    Capacity,   \* the burst, in units
    Rate,       \* units refilled per tick
    Token       \* units of one token

VARIABLES
    now,        \* the clock
    level,      \* key -> units available
    reply       \* key -> the last answer

tbvars == <<now, level, reply>>

NoReply == [ok |-> TRUE, remaining |-> 0, at |-> 0]

TBInit ==
    /\ now = 0
    /\ level = [k \in Keys |-> Capacity]
    /\ reply = [k \in Keys |-> NoReply]

AtMost(bound, n) == IF n > bound THEN bound ELSE n

RefillAll ==
    /\ now' = now + 1
    /\ level' = [k \in Keys |-> AtMost(Capacity, level[k] + Rate)]
    /\ UNCHANGED reply

Grant(k) ==
    /\ level[k] >= Token
    /\ level' = [level EXCEPT ![k] = @ - Token]
    /\ reply' = [reply EXCEPT ![k] =
                   [ok |-> TRUE, remaining |-> (level[k] - Token) \div Token, at |-> now]]
    /\ UNCHANGED now

Deny(k) ==
    /\ level[k] < Token
    /\ reply' = [reply EXCEPT ![k] = [ok |-> FALSE, remaining |-> 0, at |-> now]]
    /\ UNCHANGED <<now, level>>

TBNext == RefillAll \/ \E k \in Keys : Grant(k) \/ Deny(k)

TBSpec == TBInit /\ [][TBNext]_tbvars

=============================================================================
