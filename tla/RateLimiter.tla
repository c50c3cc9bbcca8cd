----------------------------- MODULE RateLimiter -----------------------------
(***************************************************************************)
(* The token bucket of nemla/scanning/scheduler.py: RateLimiter.acquire, as *)
(* the scanning thread calls it before it hands a limited job to a worker.  *)
(*                                                                         *)
(* Time is cut into ticks, Slice of them in 0.05 seconds; the bucket is     *)
(* measured in units, Token of them in a token, and Refill units come in    *)
(* each tick.  So the rate is any fraction, Refill * Second / Token tokens  *)
(* per second.  An observer, who may begin to watch at any moment, counts   *)
(* the tokens that were acquired since.                                     *)
(***************************************************************************)
EXTENDS Integers

CONSTANTS
    Slice,        \* ticks in 0.05 s, the longest sleep
    Token,        \* units in a token
    Refill,       \* units per tick
    MaxIdle,      \* bound: ticks between two looks at the clock
    MaxWindow     \* bound: ticks that the observer watches

ASSUME RateAssumption ==
    /\ Slice \in Nat \ {0} /\ Token \in Nat \ {0} /\ Refill \in Nat \ {0}
    /\ MaxIdle \in Nat /\ MaxWindow \in Nat

VARIABLES
    level,        \* _tokens, as of the last look at the clock
    elapsed,      \* ticks since then (the clock minus _stamp)
    caller,       \* "free", "asleep" in acquire, or "refused"
    nap,          \* ticks that the caller must still sleep
    stopped,      \* the cancel event
    window,       \* ticks since the observer began
    acquired      \* tokens acquired since then

bucketVars == <<level, elapsed, caller, nap, stopped, window, acquired>>

Second == 20 * Slice

\* A tenth of a second's tokens, and at least one: the burst of a full bucket.
Capacity == IF Refill * (2 * Slice) > Token THEN Refill * (2 * Slice) ELSE Token

\* Mutant of Refilled: the bucket has no rim.
RefilledAnyhow == level + Refill * elapsed

Refilled ==
    IF level + Refill * elapsed < Capacity THEN level + Refill * elapsed ELSE Capacity

\* The ticks until a bucket with this level has a token.
Due(units) == (Token - units + Refill - 1) \div Refill

\* Mutant of Pause: always a whole slice.
WholePause(units) == Slice

Pause(units) == IF Due(units) < Slice THEN Due(units) ELSE Slice

BucketInit ==
    /\ level = Capacity /\ elapsed = 0
    /\ caller = "free" /\ nap = 0 /\ stopped = FALSE
    /\ window = 0 /\ acquired = 0

-----------------------------------------------------------------------------
(* acquire: each look at the clock and at the bucket is one step, under the *)
(* lock.                                                                    *)

Ready == caller = "free" \/ (caller = "asleep" /\ nap = 0)

Grant ==
    /\ Ready /\ Refilled >= Token
    /\ level' = Refilled - Token /\ elapsed' = 0
    /\ caller' = "free" /\ acquired' = acquired + 1
    /\ UNCHANGED <<nap, stopped, window>>

Sleep ==
    /\ Ready /\ Refilled < Token
    /\ level' = Refilled /\ elapsed' = 0
    /\ caller' = "asleep" /\ nap' = Pause(Refilled)
    /\ UNCHANGED <<stopped, window, acquired>>

\* sleep_cancellable saw the event: acquire returns False, and the scheduler
\* begins no other job.
Refuse ==
    /\ caller = "asleep" /\ stopped
    /\ caller' = "refused" /\ nap' = 0
    /\ UNCHANGED <<level, elapsed, stopped, window, acquired>>

SetStop ==
    /\ ~stopped /\ stopped' = TRUE
    /\ UNCHANGED <<level, elapsed, caller, nap, window, acquired>>

\* Time passes, whether or not the caller is ready to run again.
Tick ==
    /\ elapsed < MaxIdle /\ window < MaxWindow
    /\ elapsed' = elapsed + 1 /\ window' = window + 1
    /\ nap' = IF nap > 0 THEN nap - 1 ELSE 0
    /\ UNCHANGED <<level, caller, stopped, acquired>>

\* The observer begins anew.
Watch ==
    /\ window' = 0 /\ acquired' = 0
    /\ UNCHANGED <<level, elapsed, caller, nap, stopped>>

BucketNext == Grant \/ Sleep \/ Refuse \/ SetStop \/ Tick \/ Watch

BucketSpec == BucketInit /\ [][BucketNext]_bucketVars

-----------------------------------------------------------------------------
(* Properties *)

BucketTypeOK ==
    /\ level \in 0 .. Capacity /\ elapsed \in 0 .. MaxIdle
    /\ caller \in {"free", "asleep", "refused"} /\ nap \in 0 .. Slice
    /\ stopped \in BOOLEAN
    /\ window \in 0 .. MaxWindow /\ acquired \in Nat

\* Whenever one begins to watch and however long: no more tokens are acquired
\* than flow in at the rate, and a full bucket on top (RateLimiter.acquire).
BurstAndRate ==
    BucketTypeOK /\ Token * acquired <= Capacity + Refill * window

\* Nobody sleeps while there is a token: the pause ends before the bucket
\* holds one (wait_for in RateLimiter.acquire).
NoSleepOverToken ==
    caller = "asleep" /\ nap > 0 => level + Refill * elapsed < Token

\* The pace of a scan is kept, and used (RateLimiter.acquire).
PaceIsKept == BurstAndRate /\ NoSleepOverToken

\* "Token bucket: at most `rate` acquisitions per second" (scheduler.py:25).
AtMostRatePerSecond ==
    window < Second => Token * acquired <= Refill * Second
==============================================================================
