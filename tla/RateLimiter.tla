----------------------------- MODULE RateLimiter -----------------------------
(***************************************************************************)
(* The free tier's sliding-window counter for one (policy, client) bucket  *)
(* (src/src/ratelimit.rs), in both backends.  Every request is put to the  *)
(* in-memory limiter and, side by side, to the Redis one, so that the two  *)
(* can be compared; `kept` is the in-memory entry as it would be had the   *)
(* cleanup task never touched it.                                          *)
(*                                                                         *)
(* A request reads the clock first and takes the entry's lock afterwards:  *)
(* by then others may have moved the window on.  Estimates are scaled by   *)
(* WINDOW_SECS instead of divided by it.  u64 subtraction wraps at WORD,   *)
(* as in a release build.                                                  *)
(***************************************************************************)
EXTENDS Integers

CONSTANTS
    WINDOW_SECS,     \* free_tier.window_secs
    MAX_REQUESTS,    \* free_tier.max_requests
    WORD,            \* 2^64
    Requests,        \* requests that can be inside `check` at the same time
    MAX_LAG,         \* longest wait between reading the clock and the lock
    MAX_NOW          \* bound on the clock

ASSUME LimiterAssumption ==
    /\ WINDOW_SECS \in Nat \ {0}
    /\ MAX_REQUESTS \in Nat
    /\ MAX_LAG \in Nat
    /\ MAX_NOW \in Nat
    /\ WORD \in Nat
    /\ 2 * WINDOW_SECS <= MAX_NOW
    /\ MAX_NOW + WINDOW_SECS < WORD

VARIABLES
    now,         \* util::now_epoch_secs
    asked,       \* request -> the `now` it has read, or NotAsking
    entry,       \* the bucket's Window in `windows`, or NoEntry
    kept,        \* the same without cleanup_idle
    keys,        \* Redis: window start -> counter and the second it expires
    recent,      \* history: admissions in the last 1, 2, ... WINDOW_SECS seconds
    reset,       \* history: reset_secs of the latest Allowance
    late         \* history: some request was counted by an old reading

vars == <<now, asked, entry, kept, keys, recent, reset, late>>

NotAsking == -1

Bucket == [start : Nat, current : Nat, previous : Nat]
NoEntry == [start |-> 0, current |-> 0, previous |-> -1]

\* `a - b` on u64.
Sub(a, b) == (a - b) % WORD

WindowStart(t) == t - (t % WINDOW_SECS)

-----------------------------------------------------------------------------
(* MemoryRateLimiter *)

\* The entry check_at works on: created, or moved on to the window of `t`.
Rolled(e, t) ==
    LET start == WindowStart(t)
    IN  IF e = NoEntry THEN [start |-> start, current |-> 0, previous |-> 0]
        ELSE IF start > e.start
        THEN [start    |-> start,
              current  |-> 0,
              previous |-> IF start - e.start = WINDOW_SECS THEN e.current ELSE 0]
        ELSE e

\* reset_secs, and the numerator of carry_fraction.
ResetSecs(e, t) == Sub(WINDOW_SECS, Sub(t, e.start))

\* Mutant: a plain fixed window.
EstimatedFixed(e, t) == e.current * WINDOW_SECS

\* `estimated`, times WINDOW_SECS.
Estimated(e, t) == e.current * WINDOW_SECS + e.previous * ResetSecs(e, t)

\* Mutant: a full window admits one more.
AdmitsAtLimit(e, t) == Estimated(e, t) <= MAX_REQUESTS * WINDOW_SECS

\* `estimated >= max_requests` denies.
Admits(e, t) == Estimated(e, t) < MAX_REQUESTS * WINDOW_SECS

\* check_at: only an admitted request is counted.
Checked(e, t) ==
    LET r == Rolled(e, t)
    IN  IF Admits(r, t) THEN [r EXCEPT !.current = @ + 1] ELSE r

\* Mutant: one window of silence is taken for idle.
IsIdleEarly(e, t) ==
    e.start < (IF t > WINDOW_SECS THEN t - WINDOW_SECS ELSE 0)

\* cleanup_idle_at's negated retain; `now.saturating_sub(window_secs * 2)`.
IsIdle(e, t) ==
    e.start < (IF t > 2 * WINDOW_SECS THEN t - 2 * WINDOW_SECS ELSE 0)

-----------------------------------------------------------------------------
(* RedisRateLimiter and CHECK_SCRIPT *)

NoKey == [count |-> 0, dies |-> 0]

\* GET, `or '0'`: nil once the key has expired.
Get(w) == IF w \in DOMAIN keys /\ now < keys[w].dies THEN keys[w].count ELSE 0

PreviousStart(t) ==
    IF WindowStart(t) > WINDOW_SECS THEN WindowStart(t) - WINDOW_SECS ELSE 0

RedisEstimated(t) ==
    Get(WindowStart(t)) * WINDOW_SECS
      + Get(PreviousStart(t)) * (WINDOW_SECS - (t - WindowStart(t)))

RedisAdmits(t) == RedisEstimated(t) < MAX_REQUESTS * WINDOW_SECS

\* Mutant: a counter expires with its own window.
RedisTtlShort == WINDOW_SECS

\* EXPIRE: "ARGV[2] key TTL".
RedisTtl == 2 * WINDOW_SECS

\* INCR and EXPIRE of the current window's key.
AfterIncr(t) ==
    [keys EXCEPT ![WindowStart(t)] =
        [count |-> Get(WindowStart(t)) + 1, dies |-> now + RedisTtl]]

-----------------------------------------------------------------------------
Starts == {t \in 0 .. MAX_NOW : t % WINDOW_SECS = 0}

\* The clock starts at a window boundary well after the epoch.
Init ==
    /\ now = 2 * WINDOW_SECS
    /\ asked = [r \in Requests |-> NotAsking]
    /\ entry = NoEntry
    /\ kept = NoEntry
    /\ keys = [w \in Starts |-> NoKey]
    /\ recent = [d \in 1 .. WINDOW_SECS |-> 0]
    /\ reset = WINDOW_SECS
    /\ late = FALSE

\* RateLimiter::check reads the clock ...
Ask(r) ==
    /\ asked[r] = NotAsking
    /\ asked' = [asked EXCEPT ![r] = now]
    /\ UNCHANGED <<now, entry, kept, keys, recent, reset, late>>

\* ... and check_at runs under the entry's lock, or as one Redis script.
CheckAt(r) ==
    /\ asked[r] # NotAsking
    /\ LET t == asked[r]
           admitted == Admits(Rolled(entry, t), t)
       IN  /\ entry' = Checked(entry, t)
           /\ kept' = Checked(kept, t)
           /\ keys' = IF RedisAdmits(t) THEN AfterIncr(t) ELSE keys
           /\ recent' = IF admitted THEN [d \in 1 .. WINDOW_SECS |-> recent[d] + 1] ELSE recent
           /\ reset' = ResetSecs(Rolled(entry, t), t)
           /\ late' = (late \/ (t # now))
    /\ asked' = [asked EXCEPT ![r] = NotAsking]
    /\ UNCHANGED now

CleanupIdle ==
    /\ entry # NoEntry
    /\ IsIdle(entry, now)
    /\ entry' = NoEntry
    /\ UNCHANGED <<now, asked, kept, keys, recent, reset, late>>

Tick ==
    /\ now < MAX_NOW
    /\ \A r \in Requests : asked[r] # NotAsking => now - asked[r] < MAX_LAG
    /\ now' = now + 1
    /\ recent' = [d \in 1 .. WINDOW_SECS |-> IF d = 1 THEN 0 ELSE recent[d - 1]]
    /\ UNCHANGED <<asked, entry, kept, keys, reset, late>>

Next ==
    \/ \E r \in Requests : Ask(r) \/ CheckAt(r)
    \/ CleanupIdle
    \/ Tick

Spec == Init /\ [][Next]_vars

-----------------------------------------------------------------------------
(* Properties *)

TypeOK ==
    /\ now \in 0 .. MAX_NOW
    /\ asked \in [Requests -> {NotAsking} \cup (0 .. MAX_NOW)]
    /\ entry \in Bucket \cup {NoEntry}
    /\ kept \in Bucket \cup {NoEntry}
    /\ DOMAIN keys = Starts
    /\ \A w \in Starts : keys[w].count \in Nat /\ keys[w].dies \in Nat
    /\ recent \in [1 .. WINDOW_SECS -> Nat]
    /\ reset \in 0 .. WORD - 1
    /\ late \in BOOLEAN

\* "a missed tick costs memory but never correctness" (main.rs), and neither
\* does a taken one: the requests waiting for the lock and the next one to come
\* get the verdict they would have got without any cleanup_idle.  This needs
\* MAX_LAG <= 1: a request that waits longer for the lock may be judged by its
\* own reading after the bucket it should have been judged by was dropped.
CleanupTransparent ==
    \A t \in {now} \cup {asked[r] : r \in Requests} :
       t # NotAsking =>
          (Admits(Rolled(entry, t), t) <=> Admits(Rolled(kept, t), t))

\* "matching the in-memory implementation exactly" (RedisRateLimiter): with
\* clocks read on time both backends work from the same estimate, through every
\* rollover, expiry and cleanup.
RedisAgrees ==
    ~late => Estimated(Rolled(entry, now), now) = RedisEstimated(now)

\* "smooths the burst a plain fixed window allows at a boundary": in any d
\* seconds a client is admitted fewer than limit + 1 requests beyond the
\* d/window share the sliding window frees.  This needs MAX_LAG <= 2: with older
\* readings the admissions of three windows can fall into one.
BurstSmoothed ==
    \A d \in 1 .. WINDOW_SECS :
       WINDOW_SECS * recent[d] < WINDOW_SECS * (MAX_REQUESTS + 1) + MAX_REQUESTS * d

\* Allowance.reset_secs is "Seconds until the current window rolls over": at
\* least one second, at most a whole window.
ResetIsWithinWindow == reset \in 1 .. WINDOW_SECS

\* A late clock reading never overfills a window, whichever window its request
\* ends up counted in.
WindowNeverOverfull ==
    entry # NoEntry => entry.current <= MAX_REQUESTS /\ entry.previous <= MAX_REQUESTS
=============================================================================
