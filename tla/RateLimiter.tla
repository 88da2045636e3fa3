---------------------------- MODULE RateLimiter ----------------------------
(***************************************************************************)
(* The rate limiter (internal/middleware/ratelimit.go): buckets created at *)
(* a key's first request and refilled lazily from the time since the last  *)
(* one, and a cleanup goroutine that deletes the buckets nobody used for   *)
(* ten minutes.  Allow and the deletion are critical sections of one lock. *)
(*                                                                         *)
(* Time is a counter of ticks.  Tokens are counted in units, Token of them *)
(* to a token, so that a fraction of a token is a whole number of units.   *)
(***************************************************************************)
EXTENDS Integers

CONSTANTS
    Keys,       \* API keys the authentication lets through
    Burst,      \* ratelimit.burst, in tokens
    Rate,       \* ratelimit.requests_per_second, in units per tick
    Token,      \* units of one token
    Second,     \* ticks of one second
    CleanEvery, \* ticks between two cleanups (5 minutes)
    StaleAfter, \* ticks after which a bucket is stale (10 minutes)
    MaxTime     \* where the model's clock ends

\* NewRateLimiter replaces a rate or a burst that is not positive by one.
ASSUME RateLimiterAssumption ==
    /\ Burst \in Nat \ {0}
    /\ Rate \in Nat \ {0}
    /\ Token \in Nat \ {0}
    /\ Second \in Nat \ {0}
    /\ CleanEvery \in Nat \ {0}
    /\ StaleAfter \in Nat
    /\ MaxTime \in Nat

Capacity == Burst * Token

VARIABLES
    now,        \* the clock
    known,      \* keys that have a bucket
    buckets,    \* key -> units and the time of the last request
    due,        \* the cleanup ticker has fired and was not yet received
    cleaner,    \* the cleanup goroutine: running, told to stop, or gone
    reply,      \* key -> the last answer, with the time it was given
    win         \* history: an observer counts what one key was granted
                \* since a moment of its choice

rlvars == <<now, known, buckets, due, cleaner, reply, win>>

NoBucket == [tokens |-> 0, lastSeen |-> 0]
NoReply  == [ok |-> TRUE, remaining |-> 0, at |-> 0]

RLInit ==
    /\ now = 0
    /\ known = {}
    /\ buckets = [k \in Keys |-> NoBucket]
    /\ due = FALSE
    /\ cleaner = "running"
    /\ reply = [k \in Keys |-> NoReply]
    /\ \E k \in Keys : win = [key |-> k, start |-> 0, grants |-> 0]

AtMost(bound, n) == IF n > bound THEN bound ELSE n

\* Faulty variant: the refill is not capped at the burst.
FillUncapped(k) ==
    IF k \in known THEN buckets[k].tokens + Rate * (now - buckets[k].lastSeen) ELSE Capacity

\* What Allow finds after the refill; a new bucket is full.
Fill(k) ==
    IF k \in known
    THEN AtMost(Capacity, buckets[k].tokens + Rate * (now - buckets[k].lastSeen))
    ELSE Capacity

Booked(k, units) ==
    /\ known' = known \cup {k}
    /\ buckets' = [buckets EXCEPT ![k] = [tokens |-> units, lastSeen |-> now]]

-----------------------------------------------------------------------------

(* Allow with a whole token in the bucket: take it. *)
AllowGrants(k) ==
    /\ Fill(k) >= Token
    /\ Booked(k, Fill(k) - Token)
    /\ reply' = [reply EXCEPT ![k] =
                   [ok |-> TRUE, remaining |-> (Fill(k) - Token) \div Token, at |-> now]]
    /\ win' = IF win.key = k THEN [win EXCEPT !.grants = @ + 1] ELSE win
    /\ UNCHANGED <<now, due, cleaner>>

\* Faulty variant: a denied request is charged as well.
AllowDeniesCharges(k) ==
    /\ Fill(k) < Token
    /\ Booked(k, Fill(k) - Token)
    /\ reply' = [reply EXCEPT ![k] = [ok |-> FALSE, remaining |-> 0, at |-> now]]
    /\ UNCHANGED <<now, due, cleaner, win>>

(* Allow without one: the refill is booked all the same, and the middleware *)
(* answers 429 with Remaining 0 and Retry-After 1.                          *)
AllowDenies(k) ==
    /\ Fill(k) < Token
    /\ Booked(k, Fill(k))
    /\ reply' = [reply EXCEPT ![k] = [ok |-> FALSE, remaining |-> 0, at |-> now]]
    /\ UNCHANGED <<now, due, cleaner, win>>

(* Time passes.  The ticker's channel holds one tick; more are dropped. *)
Advance ==
    /\ now < MaxTime
    /\ now' = now + 1
    /\ due' = (due \/ now' % CleanEvery = 0)
    /\ UNCHANGED <<known, buckets, cleaner, reply, win>>

\* Faulty variant: the stale age is counted twice.
StaleLate == {k \in known : now - buckets[k].lastSeen > 2 * StaleAfter}

\* Faulty variant: the age is compared with the cleanup interval.
StaleEarly == {k \in known : now - buckets[k].lastSeen > CleanEvery}

Stale == {k \in known : now - buckets[k].lastSeen > StaleAfter}

(* The cleanup goroutine receives the tick and deletes the stale buckets; *)
(* its select may do so although Stop has closed the done channel.        *)
Cleanup ==
    /\ cleaner # "gone"
    /\ due
    /\ due' = FALSE
    /\ known' = known \ Stale
    /\ buckets' = [k \in Keys |-> IF k \in Stale THEN NoBucket ELSE buckets[k]]
    /\ UNCHANGED <<now, cleaner, reply, win>>

Stop ==
    /\ cleaner = "running"
    /\ cleaner' = "stopping"
    /\ UNCHANGED <<now, known, buckets, due, reply, win>>

CleanerReturns ==
    /\ cleaner = "stopping"
    /\ cleaner' = "gone"
    /\ UNCHANGED <<now, known, buckets, due, reply, win>>

(* The observer starts to count anew. *)
OpenWindow(k) ==
    /\ win' = [key |-> k, start |-> now, grants |-> 0]
    /\ UNCHANGED <<now, known, buckets, due, cleaner, reply>>

RLNext ==
    \/ \E k \in Keys : AllowGrants(k)
    \/ \E k \in Keys : AllowDenies(k)
    \/ Advance
    \/ Cleanup
    \/ Stop
    \/ CleanerReturns
    \/ \E k \in Keys : OpenWindow(k)

RLSpec == RLInit /\ [][RLNext]_rlvars

-----------------------------------------------------------------------------
(* Types of the limiter's state. *)
RLTypeOK ==
    /\ now \in 0..MaxTime
    /\ known \in SUBSET Keys
    /\ buckets \in [Keys -> [tokens : 0..Capacity, lastSeen : 0..MaxTime]]
    /\ due \in BOOLEAN
    /\ cleaner \in {"running", "stopping", "gone"}
    /\ reply \in [Keys -> [ok : BOOLEAN, remaining : Nat, at : 0..MaxTime]]
    /\ win \in [key : Keys, start : 0..MaxTime, grants : Nat]

\* One second refills a token.
SecondRefillsToken == Rate * Second >= Token

\* An idle bucket is full again before it becomes stale.
RefillCoversIdle == Rate * StaleAfter >= Capacity

(* In any interval a key is granted at most its burst and what was refilled *)
(* in the interval, whatever the cleanup deletes in between: the limit the  *)
(* type promises as "a per-key token bucket".                               *)
WindowBound == win.grants * Token <= Capacity + Rate * (now - win.start)

(* X-RateLimit-Remaining is honest: as long as the key sends nothing else,  *)
(* the number of requests it was told it has left can be sent at once, also *)
(* after a cleanup.                                                         *)
RemainingHonest == \A k \in Keys : Fill(k) >= reply[k].remaining * Token

(* Retry-After is honest: a key that got a 429 and waited the second it was *)
(* told to wait has a token.                                                *)
RetryAfterHonoured ==
    \A k \in Keys : ~reply[k].ok /\ now - reply[k].at >= Second => Fill(k) >= Token

(* Both headers are honest; the second needs a token per second at least. *)
HeadersHonest == RemainingHonest /\ RetryAfterHonoured

(* The cleanup bounds what idle keys cost: unless a tick is still waiting   *)
(* or the limiter was stopped, no bucket has been idle for longer than the  *)
(* stale age and one cleanup interval.                                      *)
IdleBounded ==
    ~due /\ cleaner # "gone" =>
        \A k \in known : now - buckets[k].lastSeen < StaleAfter + CleanEvery

\* The abstract bucket, its level read off the lazy bucket at the present time.
TB == INSTANCE TokenBucket WITH level <- [k \in Keys |-> Fill(k)]

(* The limiter answers every request exactly as the eager token bucket does. *)
ImplementsTokenBucket == TB!TBSpec

-----------------------------------------------------------------------------
(***************************************************************************)
(* The parts of the inductive invariants behind these properties.          *)
(***************************************************************************)

\* Nothing is dated in the future.
TimeInv ==
    /\ \A k \in known : buckets[k].lastSeen <= now
    /\ \A k \in Keys : reply[k].at <= now
    /\ win.start <= now

\* What the key was granted in the window and what it could be granted now.
BudgetInv ==
    win.grants * Token + Fill(win.key) <= Capacity + Rate * (now - win.start)

\* The last answer is as old as the bucket.
DatedInv == \A k \in known : reply[k].at = buckets[k].lastSeen

=============================================================================
