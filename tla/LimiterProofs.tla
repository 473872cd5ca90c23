---------------------------- MODULE LimiterProofs ----------------------------
(***************************************************************************)
(* Proofs about RateLimiter, for any window, limit and number of requests. *)
(*                                                                         *)
(* CleanupTransparent compares verdicts and is not inductive: Same says    *)
(* what makes them equal.  Either the cleanup has not changed the entry,   *)
(* or it has dropped one so old that every request, by a clock reading at  *)
(* most a second old, would roll it over to an empty one.  RedisAgrees     *)
(* needs the counters behind the estimates: Mirrors and CountersLast.      *)
(* BurstSmoothed needs what a bucket knows of the admissions of the last d *)
(* seconds: Smooth, which says how full the bucket can be (Filled) and     *)
(* which of its two counts cover them (Counted).                           *)
(***************************************************************************)
EXTENDS RateLimiter, TLAPS

\* No reading is from the future or older than MAX_LAG.
Readings ==
    \A r \in Requests :
       asked[r] # NotAsking => asked[r] <= now /\ now - asked[r] <= MAX_LAG

\* What the cleanup has done to the entry.
Same ==
    \/ entry = kept
    \/ entry = NoEntry /\ kept # NoEntry /\ kept.start + 2 * WINDOW_SECS < now

Within(e) == e # NoEntry => e.current <= MAX_REQUESTS /\ e.previous <= MAX_REQUESTS

LInv ==
    /\ TypeOK
    /\ Readings
    /\ Within(entry)
    /\ MAX_LAG <= 1 => Same

-----------------------------------------------------------------------------
(* Arithmetic *)

LEMMA StartFacts ==
    ASSUME NEW t \in Nat
    PROVE  WindowStart(t) \in Nat /\ WindowStart(t) <= t /\ t < WindowStart(t) + WINDOW_SECS
<1>1. t % WINDOW_SECS \in 0 .. WINDOW_SECS - 1 /\ t % WINDOW_SECS <= t
  BY LimiterAssumption
<1> QED
  BY <1>1, LimiterAssumption DEF WindowStart

LEMMA SubFacts ==
    ASSUME NEW a \in Int, NEW b \in Int
    PROVE  Sub(a, b) \in Nat /\ Sub(a, b) \in 0 .. WORD - 1
<1>1. WORD \in Nat \ {0}
  BY LimiterAssumption
<1> QED
  BY <1>1 DEF Sub

LEMMA ResetFacts ==
    ASSUME NEW e \in Bucket, NEW t \in Nat
    PROVE  ResetSecs(e, t) \in Nat /\ ResetSecs(e, t) \in 0 .. WORD - 1
<1>1. PICK s \in Int, a \in Int : s = e.start /\ a = WINDOW_SECS
  BY LimiterAssumption DEF Bucket
<1>2. PICK b \in Int : b = Sub(t, s)
  BY SubFacts
<1>3. Sub(a, b) \in Nat /\ Sub(a, b) \in 0 .. WORD - 1
  BY SubFacts
<1> QED
  BY <1>1, <1>2, <1>3, Zenon DEF ResetSecs

LEMMA BucketFacts ==
    ASSUME NEW e \in Bucket
    PROVE  e # NoEntry
  BY DEF Bucket, NoEntry

LEMMA RolledFacts ==
    ASSUME NEW e \in Bucket \cup {NoEntry}, NEW t \in Nat
    PROVE  /\ Rolled(e, t) \in Bucket
           /\ Within(e) => Within(Rolled(e, t))
<1>1. WindowStart(t) \in Nat
  BY StartFacts
<1>2. CASE e = NoEntry
  BY <1>1, <1>2, LimiterAssumption DEF Rolled, Bucket, Within
<1>3. CASE e \in Bucket
  BY <1>1, <1>3, BucketFacts, LimiterAssumption DEF Rolled, Bucket, Within
<1> QED
  BY <1>2, <1>3

\* An admitted request finds room.
LEMMA AdmitsFacts ==
    ASSUME NEW e \in Bucket, NEW t \in Nat, Admits(e, t)
    PROVE  e.current < MAX_REQUESTS
<1> DEFINE n == ResetSecs(e, t)
<1>1. n \in Nat
  BY ResetFacts
<1>2. PICK c \in Nat, p \in Nat : c = e.current /\ p = e.previous
  BY DEF Bucket
<1>3. c * WINDOW_SECS + p * n < MAX_REQUESTS * WINDOW_SECS
  BY <1>2 DEF Admits, Estimated
<1> HIDE DEF n
<1>4. p * n \in Nat
  BY <1>1
<1>5. c * WINDOW_SECS < MAX_REQUESTS * WINDOW_SECS
  BY <1>1, <1>3, <1>4, LimiterAssumption
<1>6. c < MAX_REQUESTS
  BY <1>5, LimiterAssumption
<1> QED
  BY <1>2, <1>6

LEMMA CheckedFacts ==
    ASSUME NEW e \in Bucket \cup {NoEntry}, NEW t \in Nat
    PROVE  /\ Checked(e, t) \in Bucket
           /\ Within(e) => Within(Checked(e, t))
<1> DEFINE r == Rolled(e, t)
<1>1. r \in Bucket /\ (Within(e) => Within(r))
  BY RolledFacts
<1>2. Checked(e, t) = IF Admits(r, t) THEN [r EXCEPT !.current = @ + 1] ELSE r
  BY DEF Checked
<1>3. Admits(r, t) => r.current < MAX_REQUESTS
  BY <1>1, AdmitsFacts
<1> HIDE DEF r
<1>4. r # NoEntry /\ r.current \in Nat /\ r.previous \in Nat
  BY <1>1, BucketFacts DEF Bucket
<1>5. CASE Admits(r, t)
  <2> DEFINE x == [r EXCEPT !.current = @ + 1]
  <2>1. x \in Bucket /\ x.current = r.current + 1 /\ x.previous = r.previous
    BY <1>1 DEF Bucket
  <2>2. Checked(e, t) = x
    BY <1>2, <1>5
  <2> HIDE DEF x
  <2> QED
    BY <1>1, <1>3, <1>4, <1>5, <2>1, <2>2, LimiterAssumption DEF Within
<1>6. CASE ~Admits(r, t)
  BY <1>1, <1>2, <1>6
<1> QED
  BY <1>5, <1>6

\* A dropped bucket this old would roll over to an empty one.
LEMMA OldRolls ==
    ASSUME NEW e \in Bucket, NEW t \in Nat, e.start + 2 * WINDOW_SECS <= t
    PROVE  Rolled(e, t) = Rolled(NoEntry, t)
<1>1. e # NoEntry /\ e.start \in Nat
  BY BucketFacts DEF Bucket
<1>2. WindowStart(t) \in Nat /\ WindowStart(t) - e.start > WINDOW_SECS
  BY <1>1, StartFacts, LimiterAssumption
<1>3. WindowStart(t) > e.start /\ WindowStart(t) - e.start # WINDOW_SECS
  BY <1>1, <1>2, LimiterAssumption
<1> QED
  BY <1>1, <1>3 DEF Rolled

\* Whatever the cleanup did, a reading a second old at most sees the same.
LEMMA SameRolls ==
    ASSUME LInv, MAX_LAG <= 1, NEW t \in Nat, t <= now, now - t <= 1
    PROVE  Rolled(entry, t) = Rolled(kept, t)
<1>1. CASE entry = kept
  BY <1>1
<1>2. CASE entry = NoEntry /\ kept # NoEntry /\ kept.start + 2 * WINDOW_SECS < now
  <2>1. kept \in Bucket /\ kept.start \in Nat /\ now \in Nat
    BY <1>2, LimiterAssumption DEF LInv, TypeOK, Bucket
  <2>2. kept.start + 2 * WINDOW_SECS <= t
    BY <1>2, <2>1, LimiterAssumption
  <2> QED
    BY <1>2, <2>1, <2>2, OldRolls
<1> QED
  BY <1>1, <1>2 DEF LInv, Same

-----------------------------------------------------------------------------
(* The invariant *)

LEMMA InitLInv == Init => LInv
<1> SUFFICES ASSUME Init PROVE LInv
  OBVIOUS
<1>1. TypeOK
  <2>1. now \in 0 .. MAX_NOW /\ reset \in 0 .. WORD - 1
    BY LimiterAssumption DEF Init
  <2>2. /\ DOMAIN keys = Starts
        /\ \A w \in Starts : keys[w].count \in Nat /\ keys[w].dies \in Nat
    BY DEF Init, NoKey
  <2> QED
    BY <2>1, <2>2 DEF Init, TypeOK
<1>2. Readings /\ Within(entry) /\ Same
  BY DEF Init, Readings, Within, Same
<1> QED
  BY <1>1, <1>2 DEF LInv

LEMMA AskStep ==
    ASSUME LInv, NEW r \in Requests, Ask(r)
    PROVE  LInv'
<1>1. /\ asked' = [asked EXCEPT ![r] = now]
      /\ UNCHANGED <<now, entry, kept, keys, recent, reset, late>>
  BY DEF Ask
<1>2. TypeOK'
  BY <1>1 DEF LInv, TypeOK
<1>3. Readings'
  BY <1>1, LimiterAssumption DEF LInv, TypeOK, Readings
<1>4. Within(entry)' /\ (MAX_LAG <= 1 => Same')
  BY <1>1, Zenon DEF LInv, Within, Same
<1> QED
  BY <1>2, <1>3, <1>4 DEF LInv

LEMMA CleanupStep ==
    ASSUME LInv, CleanupIdle
    PROVE  LInv'
<1>1. /\ entry # NoEntry
      /\ IsIdle(entry, now)
      /\ entry' = NoEntry
      /\ UNCHANGED <<now, asked, kept, keys, recent, reset, late>>
  BY DEF CleanupIdle
<1>2. TypeOK'
  BY <1>1 DEF LInv, TypeOK
<1>3. Readings'
  BY <1>1, Zenon DEF LInv, Readings
<1>4. Within(entry)'
  BY <1>1 DEF Within
<1>5. ASSUME MAX_LAG <= 1 PROVE Same'
  <2>1. entry = kept /\ entry \in Bucket /\ now \in Nat /\ entry.start \in Nat
    BY <1>1, <1>5 DEF LInv, Same, TypeOK, Bucket
  <2>2. kept.start + 2 * WINDOW_SECS < now
    BY <1>1, <2>1, LimiterAssumption DEF IsIdle
  <2> QED
    BY <1>1, <2>1, <2>2 DEF Same
<1> QED
  BY <1>2, <1>3, <1>4, <1>5 DEF LInv

LEMMA TickStep ==
    ASSUME LInv, Tick
    PROVE  LInv'
<1>1. /\ now' = now + 1 /\ now < MAX_NOW
      /\ recent' = [d \in 1 .. WINDOW_SECS |-> IF d = 1 THEN 0 ELSE recent[d - 1]]
      /\ UNCHANGED <<asked, entry, kept, keys, reset, late>>
      /\ \A r \in Requests : asked[r] # NotAsking => now - asked[r] < MAX_LAG
  BY DEF Tick
<1>2. TypeOK'
  <2>1. recent \in [1 .. WINDOW_SECS -> Nat] /\ now \in 0 .. MAX_NOW
    BY DEF LInv, TypeOK
  <2>2. recent' \in [1 .. WINDOW_SECS -> Nat]
    BY <1>1, <2>1, LimiterAssumption
  <2>3. now' \in 0 .. MAX_NOW
    BY <1>1, <2>1, LimiterAssumption
  <2> QED
    BY <1>1, <2>2, <2>3 DEF LInv, TypeOK
<1>3. Readings'
  BY <1>1, LimiterAssumption DEF LInv, TypeOK, Readings, NotAsking
<1>4. Within(entry)'
  BY <1>1, Zenon DEF LInv, Within
<1>5. ASSUME MAX_LAG <= 1 PROVE Same'
  <2>1. CASE entry = kept
    BY <1>1, <2>1 DEF Same
  <2>2. CASE entry = NoEntry /\ kept # NoEntry /\ kept.start + 2 * WINDOW_SECS < now
    <3>1. kept.start \in Nat /\ now \in Nat
      BY <2>2 DEF LInv, TypeOK, Bucket
    <3> QED
      BY <1>1, <2>2, <3>1, LimiterAssumption DEF Same
  <2> QED
    BY <1>5, <2>1, <2>2 DEF LInv, Same
<1> QED
  BY <1>2, <1>3, <1>4, <1>5 DEF LInv

LEMMA CheckStep ==
    ASSUME LInv, NEW r \in Requests, CheckAt(r)
    PROVE  LInv'
<1>1. PICK t \in Nat : t = asked[r] /\ t <= now /\ now - t <= MAX_LAG /\ t <= MAX_NOW
  BY LimiterAssumption DEF CheckAt, LInv, TypeOK, Readings
<1>2. /\ entry' = Checked(entry, t)
      /\ kept' = Checked(kept, t)
      /\ keys' = IF RedisAdmits(t) THEN AfterIncr(t) ELSE keys
      /\ recent' \in {recent, [d \in 1 .. WINDOW_SECS |-> recent[d] + 1]}
      /\ reset' = ResetSecs(Rolled(entry, t), t)
      /\ late' \in BOOLEAN
      /\ asked' = [asked EXCEPT ![r] = NotAsking]
      /\ now' = now
  BY <1>1 DEF CheckAt
<1>3. TypeOK
  BY DEF LInv
<1>4. entry' \in Bucket /\ kept' \in Bucket /\ Within(entry)'
  <2>1. entry \in Bucket \cup {NoEntry} /\ kept \in Bucket \cup {NoEntry} /\ Within(entry)
    BY DEF LInv, TypeOK
  <2>2. Checked(entry, t) \in Bucket /\ Checked(kept, t) \in Bucket /\ Within(Checked(entry, t))
    BY <2>1, CheckedFacts
  <2> QED
    BY <1>2, <2>2, Zenon DEF Within
<1>5. DOMAIN keys' = Starts /\ \A w \in Starts : keys'[w].count \in Nat /\ keys'[w].dies \in Nat
  <2>1. DOMAIN keys = Starts /\ \A w \in Starts : keys[w].count \in Nat /\ keys[w].dies \in Nat
    BY <1>3 DEF TypeOK
  <2>2. Get(WindowStart(t)) + 1 \in Nat
    BY <2>1 DEF Get
  <2>3. now + RedisTtl \in Nat
    BY <1>3, LimiterAssumption DEF RedisTtl, TypeOK
  <2> DEFINE x == [count |-> Get(WindowStart(t)) + 1, dies |-> now + RedisTtl]
  <2>4. x.count \in Nat /\ x.dies \in Nat
    BY <2>2, <2>3
  <2>5. keys' = keys \/ keys' = [keys EXCEPT ![WindowStart(t)] = x]
    BY <1>2 DEF AfterIncr
  <2> HIDE DEF x
  <2> QED
    BY <2>1, <2>4, <2>5
<1>6. recent' \in [1 .. WINDOW_SECS -> Nat]
  <2>1. recent \in [1 .. WINDOW_SECS -> Nat]
    BY <1>3, LimiterAssumption DEF TypeOK
  <2> QED
    BY <1>2, <2>1
<1>7. reset' \in 0 .. WORD - 1
  <2>1. Rolled(entry, t) \in Bucket
    BY <1>3, RolledFacts DEF TypeOK
  <2> QED
    BY <1>2, <2>1, ResetFacts
<1>8. asked' \in [Requests -> {NotAsking} \cup (0 .. MAX_NOW)]
  BY <1>2, <1>3 DEF TypeOK
<1>9. TypeOK'
  BY <1>2, <1>3, <1>4, <1>5, <1>6, <1>7, <1>8 DEF TypeOK
<1>10. Readings'
  BY <1>2, <1>3 DEF LInv, TypeOK, Readings
<1>11. ASSUME MAX_LAG <= 1 PROVE Same'
  <2>1. now - t <= 1
    BY <1>1, <1>3, <1>11, LimiterAssumption DEF TypeOK
  <2>2. Rolled(entry, t) = Rolled(kept, t)
    BY <1>1, <1>11, <2>1, SameRolls
  <2>3. entry' = kept'
    BY <1>2, <2>2 DEF Checked
  <2> QED
    BY <2>3 DEF Same
<1> QED
  BY <1>4, <1>9, <1>10, <1>11 DEF LInv

LEMMA NextLInv == LInv /\ [Next]_vars => LInv'
<1> SUFFICES ASSUME LInv, [Next]_vars PROVE LInv'
  OBVIOUS
<1>1. CASE UNCHANGED vars
  BY <1>1, Zenon DEF vars, LInv, TypeOK, Readings, Within, Same
<1> QED
  BY <1>1, AskStep, CheckStep, CleanupStep, TickStep DEF Next

LEMMA AlwaysLInv == Spec => []LInv
  BY InitLInv, NextLInv, PTL DEF Spec

-----------------------------------------------------------------------------
(* The two backends *)

\* A bucket and the Redis counters say the same, while every clock was read on
\* time: the counters of the bucket's two windows are its two counts, nothing is
\* counted after them, and where there is no bucket nothing counts any more.
\* No counter expires before its window stops counting.
Mirrors ==
    \/ entry = NoEntry /\ \A w \in Starts : keys[w].count > 0 => w + 2 * WINDOW_SECS <= now
    \/ /\ entry # NoEntry
       /\ entry.start \in Starts
       /\ entry.start - WINDOW_SECS \in Starts
       /\ entry.start <= now
       /\ keys[entry.start].count = entry.current
       /\ keys[entry.start - WINDOW_SECS].count = entry.previous
       /\ \A w \in Starts : w > entry.start => keys[w].count = 0

CountersLast ==
    \A w \in Starts :
       keys[w].count > 0 => w <= now /\ keys[w].dies >= w + 2 * WINDOW_SECS

AgreeInv ==
    /\ now >= 2 * WINDOW_SECS
    /\ ~late => Mirrors /\ CountersLast

\* Windows are whole and do not overlap.
LEMMA Multiples ==
    ASSUME NEW a \in Nat, NEW b \in Nat,
           a % WINDOW_SECS = 0, b % WINDOW_SECS = 0, a < b
    PROVE  a + WINDOW_SECS <= b
<1> DEFINE W == WINDOW_SECS
<1>1. W \in Nat \ {0}
  BY LimiterAssumption
<1> HIDE DEF W
<1>2. PICK p \in Int : a = W * p
  BY <1>1 DEF W
<1>3. PICK q \in Int : b = W * q
  BY <1>1 DEF W
<1>4. p < q
  BY <1>1, <1>2, <1>3
<1>5. W * (q - p) >= W
  BY <1>1, <1>4
<1>6. W * (q - p) = W * q - W * p
  BY <1>1
<1> QED
  BY <1>1, <1>2, <1>3, <1>5, <1>6 DEF W

LEMMA StartIsMultiple ==
    ASSUME NEW t \in Nat
    PROVE  WindowStart(t) % WINDOW_SECS = 0
<1> DEFINE W == WINDOW_SECS
<1>1. W \in Nat \ {0}
  BY LimiterAssumption
<1> HIDE DEF W
<1>2. PICK k \in Int : k = t \div W
  BY <1>1
<1>3. t = W * k + (t % W)
  BY <1>1, <1>2
<1>4. t % W \in Int
  BY <1>1
<1>5. t - (t % W) = W * k
  BY <1>1, <1>3, <1>4
<1>6. (W * k) % W = 0
  BY <1>1
<1> QED
  BY <1>5, <1>6 DEF WindowStart, W

LEMMA OneEarlier ==
    ASSUME NEW a \in Nat, a % WINDOW_SECS = 0
    PROVE  (a - WINDOW_SECS) % WINDOW_SECS = 0
<1> DEFINE W == WINDOW_SECS
<1>1. W \in Nat \ {0}
  BY LimiterAssumption
<1> HIDE DEF W
<1>2. PICK p \in Int : a = W * p
  BY <1>1 DEF W
<1>3. a - W = W * (p - 1)
  BY <1>1, <1>2
<1>4. PICK q \in Int : q = p - 1
  OBVIOUS
<1>5. (W * q) % W = 0
  BY <1>1
<1> QED
  BY <1>3, <1>4, <1>5 DEF W

LEMMA OneLater ==
    ASSUME NEW a \in Nat, a % WINDOW_SECS = 0
    PROVE  (a + WINDOW_SECS) % WINDOW_SECS = 0
<1> DEFINE W == WINDOW_SECS
<1>1. W \in Nat \ {0}
  BY LimiterAssumption
<1> HIDE DEF W
<1>2. PICK p \in Int : a = W * p
  BY <1>1 DEF W
<1>3. a + W = W * (p + 1)
  BY <1>1, <1>2
<1>4. PICK q \in Int : q = p + 1
  OBVIOUS
<1>5. (W * q) % W = 0
  BY <1>1
<1> QED
  BY <1>3, <1>4, <1>5 DEF W

\* The window of a reading is the last one that has begun.
LEMMA LastStart ==
    ASSUME NEW a \in Nat, a % WINDOW_SECS = 0, NEW t \in Nat, a <= t
    PROVE  a <= WindowStart(t)
<1>1. PICK s \in Nat : s = WindowStart(t)
  BY StartFacts
<1>2. s % WINDOW_SECS = 0 /\ t < s + WINDOW_SECS
  BY <1>1, StartFacts, StartIsMultiple
<1>3. s < a => s + WINDOW_SECS <= a
  BY <1>2, Multiples
<1> QED
  BY <1>1, <1>2, <1>3, LimiterAssumption

\* The two windows a reading is judged by both have a counter.
LEMMA BothStarts ==
    ASSUME NEW t \in 0 .. MAX_NOW, t >= 2 * WINDOW_SECS, NEW s \in Nat, s = WindowStart(t)
    PROVE  /\ s \in Starts /\ s - WINDOW_SECS \in Starts
           /\ s <= t /\ t < s + WINDOW_SECS
           /\ PreviousStart(t) = s - WINDOW_SECS
<1>1. s <= t /\ t < s + WINDOW_SECS
  BY StartFacts, LimiterAssumption
<1>2. s % WINDOW_SECS = 0
  BY StartIsMultiple, LimiterAssumption
<1>3. (s - WINDOW_SECS) % WINDOW_SECS = 0
  BY <1>2, OneEarlier
<1>4. s > WINDOW_SECS
  BY <1>1, LimiterAssumption
<1> QED
  BY <1>1, <1>2, <1>3, <1>4, LimiterAssumption DEF Starts, PreviousStart

\* Nothing wraps for a reading inside the bucket's window.
LEMMA ResetInside ==
    ASSUME NEW e \in Bucket, NEW t \in Nat, e.start <= t, t < e.start + WINDOW_SECS
    PROVE  ResetSecs(e, t) = WINDOW_SECS - (t - e.start)
<1>1. PICK s \in Nat : s = e.start
  BY DEF Bucket
<1>2. PICK d \in Nat : d = t - s
  BY <1>1
<1>3. WINDOW_SECS \in Nat /\ WORD \in Nat \ {0} /\ d < WINDOW_SECS /\ WINDOW_SECS < WORD
  BY <1>1, <1>2, LimiterAssumption
<1>4. d % WORD = d
  BY <1>3
<1>5. (WINDOW_SECS - d) % WORD = WINDOW_SECS - d
  BY <1>3
<1> QED
  BY <1>1, <1>2, <1>4, <1>5, Zenon DEF ResetSecs, Sub

\* GET of a counter that still counts finds it.
LEMMA GetCounts ==
    ASSUME TypeOK, CountersLast, NEW w \in Starts, now < w + 2 * WINDOW_SECS
    PROVE  Get(w) = keys[w].count
<1>1. keys[w].count \in Nat /\ keys[w].dies \in Nat /\ w \in Nat /\ now \in Nat
      /\ DOMAIN keys = Starts
  BY DEF TypeOK, Starts
<1>2. CASE keys[w].count > 0
  <2>1. now < keys[w].dies
    BY <1>1, <1>2, LimiterAssumption DEF CountersLast
  <2> QED
    BY <1>1, <2>1 DEF Get
<1>3. CASE keys[w].count = 0
  BY <1>3 DEF Get
<1> QED
  BY <1>1, <1>2, <1>3

\* The rolled bucket holds what the two counters hold.
LEMMA RolledMirrors ==
    ASSUME TypeOK, AgreeInv, ~late, NEW s \in Nat, s = WindowStart(now)
    PROVE  /\ Rolled(entry, now).start = s
           /\ Rolled(entry, now).current = keys[s].count
           /\ Rolled(entry, now).previous = keys[s - WINDOW_SECS].count
<1>0. now \in 0 .. MAX_NOW /\ now \in Nat /\ now >= 2 * WINDOW_SECS
      /\ entry \in Bucket \cup {NoEntry} /\ Mirrors /\ CountersLast
      /\ \A w \in Starts : keys[w].count \in Nat
      /\ WINDOW_SECS \in Nat \ {0}
  BY LimiterAssumption DEF TypeOK, AgreeInv
<1>1. s \in Starts /\ s - WINDOW_SECS \in Starts /\ s <= now /\ now < s + WINDOW_SECS
  BY <1>0, BothStarts
<1>2. s \in Nat /\ s - WINDOW_SECS \in Nat
  BY <1>1 DEF Starts
<1>3. CASE entry = NoEntry /\ \A w \in Starts : keys[w].count > 0 => w + 2 * WINDOW_SECS <= now
  <2>1. keys[s].count = 0 /\ keys[s - WINDOW_SECS].count = 0
    BY <1>0, <1>1, <1>2, <1>3
  <2>2. Rolled(entry, now) = [start |-> s, current |-> 0, previous |-> 0]
    BY <1>3 DEF Rolled
  <2> QED
    BY <2>1, <2>2
<1>4. CASE entry # NoEntry /\ ~(entry = NoEntry)
  <2>1. PICK b \in Nat : b = entry.start
    BY <1>0, <1>4 DEF Bucket
  <2>2. /\ b \in Starts /\ b <= now
        /\ keys[b].count = entry.current
        /\ keys[b - WINDOW_SECS].count = entry.previous
        /\ \A w \in Starts : w > b => keys[w].count = 0
    BY <1>0, <1>4, <2>1 DEF Mirrors
  <2>3. b % WINDOW_SECS = 0 /\ s % WINDOW_SECS = 0
    BY <1>1, <2>2 DEF Starts
  <2>4. b <= s
    BY <1>0, <2>2, <2>3, LastStart
  <2>5. b < s => b + WINDOW_SECS <= s
    BY <2>3, Multiples
  <2>6. Rolled(entry, now) =
          IF s > b
          THEN [start |-> s, current |-> 0,
                previous |-> IF s - b = WINDOW_SECS THEN entry.current ELSE 0]
          ELSE entry
    BY <1>4, <2>1 DEF Rolled
  <2>7. CASE b = s
    <3>1. Rolled(entry, now) = entry
      BY <2>6, <2>7
    <3> QED
      BY <2>1, <2>2, <2>7, <3>1, Zenon
  <2>8. CASE b < s /\ s - b = WINDOW_SECS
    <3>1. keys[s].count = 0 /\ b = s - WINDOW_SECS
      BY <1>0, <1>1, <1>2, <2>2, <2>8
    <3> QED
      BY <2>2, <2>6, <2>8, <3>1
  <2>9. CASE b < s /\ s - b # WINDOW_SECS
    <3>1. s - WINDOW_SECS > b
      <4>1. b + WINDOW_SECS <= s
        BY <2>5, <2>9, Zenon
      <4>2. WINDOW_SECS \in Nat
        BY LimiterAssumption
      <4> QED
        BY <4>1, <4>2, <2>9
    <3>2. keys[s].count = 0 /\ keys[s - WINDOW_SECS].count = 0
      BY <1>1, <2>2, <2>9, <3>1
    <3> QED
      BY <2>6, <2>9, <3>2
  <2> QED
    BY <2>4, <2>7, <2>8, <2>9
<1> QED
  BY <1>0, <1>3, <1>4 DEF Mirrors

\* ... so both backends work from one estimate.
LEMMA SameEstimate ==
    ASSUME TypeOK, AgreeInv, ~late
    PROVE  Estimated(Rolled(entry, now), now) = RedisEstimated(now)
<1>0. now \in 0 .. MAX_NOW /\ now \in Nat /\ now >= 2 * WINDOW_SECS
      /\ entry \in Bucket \cup {NoEntry} /\ CountersLast
      /\ WINDOW_SECS \in Nat \ {0}
  BY LimiterAssumption DEF TypeOK, AgreeInv
<1>1. PICK s \in Nat : s = WindowStart(now)
  BY <1>0, StartFacts
<1>2. /\ s \in Starts /\ s - WINDOW_SECS \in Starts
      /\ s <= now /\ now < s + WINDOW_SECS
      /\ PreviousStart(now) = s - WINDOW_SECS
  BY <1>0, <1>1, BothStarts
<1>3. PICK p \in Starts : p = s - WINDOW_SECS
  BY <1>2
<1>4. PICK r \in Bucket : r = Rolled(entry, now)
  BY <1>0, RolledFacts
<1>5. r.start = s /\ r.current = keys[s].count /\ r.previous = keys[p].count
  BY <1>1, <1>3, <1>4, RolledMirrors
<1>6. Get(s) = keys[s].count
  BY <1>0, <1>2, GetCounts
<1>7. Get(p) = keys[p].count
  BY <1>0, <1>2, <1>3, GetCounts
<1>8. ResetSecs(r, now) = WINDOW_SECS - (now - s)
  BY <1>0, <1>2, <1>5, ResetInside
<1>9. RedisEstimated(now)
        = keys[s].count * WINDOW_SECS + keys[p].count * (WINDOW_SECS - (now - s))
  BY <1>1, <1>2, <1>3, <1>6, <1>7, Zenon DEF RedisEstimated
<1>10. Estimated(r, now)
        = keys[s].count * WINDOW_SECS + keys[p].count * (WINDOW_SECS - (now - s))
  BY <1>5, <1>8, Zenon DEF Estimated
<1> QED
  BY <1>4, <1>9, <1>10

\* Both backends start from nothing ...
LEMMA InitAgree == Init => AgreeInv
  BY LimiterAssumption DEF Init, AgreeInv, Mirrors, CountersLast, NoKey

\* ... count and roll over together ...
LEMMA CheckAgrees ==
    ASSUME LInv, AgreeInv, NEW r \in Requests, CheckAt(r)
    PROVE  AgreeInv'
<1>0. TypeOK /\ now \in 0 .. MAX_NOW /\ now \in Nat /\ now >= 2 * WINDOW_SECS
      /\ WINDOW_SECS \in Nat \ {0}
  BY LimiterAssumption DEF LInv, TypeOK, AgreeInv
<1>1. now' = now
  BY DEF CheckAt
<1> SUFFICES ASSUME ~late' PROVE Mirrors' /\ CountersLast'
  BY <1>0, <1>1 DEF AgreeInv
<1>2. ~late /\ asked[r] = now
  BY DEF CheckAt
<1>3. /\ entry' = Checked(entry, now)
      /\ keys' = IF RedisAdmits(now) THEN AfterIncr(now) ELSE keys
  BY <1>2 DEF CheckAt
<1>4. PICK s \in Nat : s = WindowStart(now)
  BY <1>0, StartFacts
<1>5. PICK p \in Nat : p = s - WINDOW_SECS
  BY <1>0, <1>4, BothStarts DEF Starts
<1>6. s \in Starts /\ p \in Starts /\ s <= now /\ now < s + WINDOW_SECS
  BY <1>0, <1>4, <1>5, BothStarts
<1>7. PICK b \in Bucket : b = Rolled(entry, now)
  BY <1>0, RolledFacts DEF TypeOK
<1>8. b.start = s /\ b.current = keys[s].count /\ b.previous = keys[p].count
  BY <1>0, <1>2, <1>4, <1>5, <1>7, RolledMirrors
<1>9. Get(s) = keys[s].count
  BY <1>0, <1>2, <1>6, GetCounts DEF AgreeInv
<1>10. Admits(b, now) <=> RedisAdmits(now)
  BY <1>0, <1>2, <1>7, SameEstimate, Zenon DEF Admits, RedisAdmits
<1>11. /\ DOMAIN keys = Starts
       /\ \A w \in Starts : keys[w].count \in Nat /\ keys[w].dies \in Nat
       /\ \A w \in Starts :
             keys[w].count > 0 => w <= now /\ keys[w].dies >= w + 2 * WINDOW_SECS
  BY <1>0, <1>2 DEF TypeOK, AgreeInv, CountersLast
<1>12. \A w \in Starts : w > s => keys[w].count = 0
  <2> SUFFICES ASSUME NEW w \in Starts, w > s, keys[w].count # 0 PROVE FALSE
    OBVIOUS
  <2>1. w \in Nat /\ w % WINDOW_SECS = 0 /\ w <= now
    BY <1>11 DEF Starts
  <2>2. w <= s
    BY <1>0, <1>4, <2>1, LastStart
  <2> QED
    BY <2>1, <2>2
<1>13. CASE RedisAdmits(now)
  <2> DEFINE x == [count |-> keys[s].count + 1, dies |-> now + 2 * WINDOW_SECS]
             e == [b EXCEPT !.current = @ + 1]
  <2>1. keys' = [keys EXCEPT ![s] = x]
    BY <1>3, <1>4, <1>9, <1>13 DEF AfterIncr, RedisTtl
  <2>2. entry' = e
    BY <1>3, <1>7, <1>10, <1>13 DEF Checked
  <2>3. /\ e \in Bucket /\ e.start = s
        /\ e.current = keys[s].count + 1 /\ e.previous = keys[p].count
    BY <1>7, <1>8 DEF Bucket
  <2>4. x.count = keys[s].count + 1 /\ x.dies = now + 2 * WINDOW_SECS
    OBVIOUS
  <2> HIDE DEF x, e
  <2>5. p # s
    BY <1>0, <1>4, <1>5
  <2>6. /\ keys'[s] = x
        /\ \A w \in Starts : w # s => keys'[w] = keys[w]
    BY <1>6, <1>11, <2>1
  <2>7. keys'[s].count = e.current /\ keys'[p].count = e.previous
    BY <1>6, <2>3, <2>4, <2>5, <2>6
  <2>8. \A w \in Starts : w > s => keys'[w].count = 0
    <3> SUFFICES ASSUME NEW w \in Starts, w > s PROVE keys'[w].count = 0
      OBVIOUS
    <3>1. w # s
      BY <1>4 DEF Starts
    <3> QED
      BY <1>12, <2>6, <3>1
  <2>9. \A w \in Starts :
          keys'[w].count > 0 => w <= now /\ keys'[w].dies >= w + 2 * WINDOW_SECS
    <3> SUFFICES ASSUME NEW w \in Starts, keys'[w].count > 0
                 PROVE  w <= now /\ keys'[w].dies >= w + 2 * WINDOW_SECS
      OBVIOUS
    <3>1. CASE w = s
      BY <1>0, <1>6, <2>4, <2>6, <3>1
    <3>2. CASE w # s
      BY <1>11, <2>6, <3>2
    <3> QED
      BY <3>1, <3>2
  <2>10. entry' # NoEntry /\ entry'.start = s
    BY <2>2, <2>3, BucketFacts
  <2>11. Mirrors'
    BY <1>1, <1>5, <1>6, <2>2, <2>7, <2>8, <2>10 DEF Mirrors
  <2> QED
    BY <1>1, <2>9, <2>11 DEF CountersLast
<1>14. CASE ~RedisAdmits(now)
  <2>1. keys' = keys /\ entry' = b
    BY <1>3, <1>7, <1>10, <1>14 DEF Checked
  <2>2. entry' # NoEntry /\ entry'.start = s
    BY <1>8, <2>1, BucketFacts
  <2>3. Mirrors'
    BY <1>1, <1>5, <1>6, <1>8, <1>12, <2>1, <2>2 DEF Mirrors
  <2> QED
    BY <1>1, <1>11, <2>1, <2>3 DEF CountersLast
<1> QED
  BY <1>13, <1>14

\* ... the cleanup drops a bucket none of whose counters counts any more ...
LEMMA CleanupAgrees ==
    ASSUME LInv, AgreeInv, CleanupIdle
    PROVE  AgreeInv'
<1>1. /\ entry # NoEntry
      /\ IsIdle(entry, now)
      /\ entry' = NoEntry
      /\ UNCHANGED <<now, keys, late>>
  BY DEF CleanupIdle
<1>2. now \in Nat /\ now >= 2 * WINDOW_SECS /\ entry \in Bucket
  BY <1>1 DEF LInv, TypeOK, AgreeInv
<1> SUFFICES ASSUME ~late PROVE Mirrors' /\ CountersLast'
  BY <1>1, <1>2 DEF AgreeInv
<1>3. PICK b \in Nat : b = entry.start
  BY <1>2 DEF Bucket
<1>4. b + 2 * WINDOW_SECS < now
  BY <1>1, <1>2, <1>3, LimiterAssumption DEF IsIdle
<1>5. \A w \in Starts : w > b => keys[w].count = 0
  BY <1>1, <1>3 DEF AgreeInv, Mirrors
<1>6. \A w \in Starts : keys[w].count > 0 => w + 2 * WINDOW_SECS <= now
  <2> SUFFICES ASSUME NEW w \in Starts, keys[w].count > 0 PROVE w + 2 * WINDOW_SECS <= now
    OBVIOUS
  <2>1. w \in Nat
    BY DEF Starts
  <2>2. ~(w > b)
    BY <1>5
  <2> QED
    BY <1>2, <1>4, <2>1, <2>2, LimiterAssumption
<1>7. Mirrors'
  BY <1>1, <1>6 DEF Mirrors
<1>8. CountersLast'
  BY <1>1, Zenon DEF AgreeInv, CountersLast
<1> QED
  BY <1>7, <1>8

\* ... and time only makes counters old.
LEMMA TickAgrees ==
    ASSUME LInv, AgreeInv, Tick
    PROVE  AgreeInv'
<1>1. now' = now + 1 /\ UNCHANGED <<entry, keys, late>>
  BY DEF Tick
<1>2. now \in Nat /\ now >= 2 * WINDOW_SECS /\ entry \in Bucket \cup {NoEntry}
  BY DEF LInv, TypeOK, AgreeInv
<1>3. now' >= 2 * WINDOW_SECS
  BY <1>1, <1>2, LimiterAssumption
<1> SUFFICES ASSUME ~late PROVE Mirrors' /\ CountersLast'
  BY <1>1, <1>3 DEF AgreeInv
<1>4. Starts \subseteq Nat
  BY DEF Starts
<1>5. Mirrors'
  <2>1. CASE entry = NoEntry /\ \A w \in Starts : keys[w].count > 0 => w + 2 * WINDOW_SECS <= now
    <3>1. \A w \in Starts : keys[w].count > 0 => w + 2 * WINDOW_SECS <= now + 1
      BY <1>2, <1>4, <2>1, LimiterAssumption
    <3> QED
      BY <1>1, <2>1, <3>1 DEF Mirrors
  <2>2. CASE entry # NoEntry /\ ~(entry = NoEntry)
    <3>1. entry.start \in Nat
      BY <1>2, <2>2 DEF Bucket
    <3> QED
      BY <1>1, <1>2, <2>2, <3>1 DEF AgreeInv, Mirrors
  <2> QED
    BY <2>1, <2>2 DEF AgreeInv, Mirrors
<1>6. CountersLast'
  BY <1>1, <1>2, <1>4 DEF AgreeInv, CountersLast
<1> QED
  BY <1>5, <1>6

LEMMA NextAgree == LInv /\ AgreeInv /\ [Next]_vars => AgreeInv'
<1> SUFFICES ASSUME LInv, AgreeInv, [Next]_vars PROVE AgreeInv'
  OBVIOUS
<1>1. CASE UNCHANGED vars \/ \E r \in Requests : Ask(r)
  <2>1. UNCHANGED <<now, entry, keys, late>>
    BY <1>1 DEF vars, Ask
  <2> QED
    BY <2>1, Zenon DEF AgreeInv, Mirrors, CountersLast
<1> QED
  BY <1>1, CheckAgrees, CleanupAgrees, TickAgrees DEF Next

-----------------------------------------------------------------------------
(* Bursts *)

\* How full a window with c requests after one with p may be k seconds after
\* its start: at the offset o of the reading it last admitted, it had room.
Filled(c, p, k) ==
    \E o \in 0 .. WINDOW_SECS - 1 :
       /\ o <= k
       /\ c * WINDOW_SECS + p * (WINDOW_SECS - o) < (MAX_REQUESTS + 1) * WINDOW_SECS

\* What such a window knows of b admissions in the last d seconds.  With readings
\* up to two seconds old an admission may come two seconds after the window it
\* is counted in: only in the first second of a window do the last WINDOW_SECS
\* seconds reach a third one.
Counted(b, d, c, p, k) ==
    /\ b <= c + p + MAX_REQUESTS
    /\ d < WINDOW_SECS \/ k # 0 => b <= c + p
    /\ d < k => b <= c
    /\ d < k - WINDOW_SECS => b = 0

Smooth(e, n, f) ==
    IF e = NoEntry THEN \A d \in 1 .. WINDOW_SECS : f[d] = 0
    ELSE /\ e.start <= n
         /\ e.start % WINDOW_SECS = 0
         /\ Filled(e.current, e.previous, n - e.start)
         /\ \A d \in 1 .. WINDOW_SECS :
               Counted(f[d], d, e.current, e.previous, n - e.start)

BurstInv == Smooth(entry, now, recent)

\* An empty window after one that was at most full.
LEMMA EmptyFilled ==
    ASSUME NEW p \in Nat, NEW k \in Nat, p <= MAX_REQUESTS
    PROVE  Filled(0, p, k)
<1>1. p * WINDOW_SECS <= MAX_REQUESTS * WINDOW_SECS
  BY LimiterAssumption
<1>2. (MAX_REQUESTS + 1) * WINDOW_SECS = MAX_REQUESTS * WINDOW_SECS + WINDOW_SECS
  BY LimiterAssumption
<1>3. p * WINDOW_SECS \in Nat /\ MAX_REQUESTS * WINDOW_SECS \in Nat
  BY LimiterAssumption
<1>4. 0 * WINDOW_SECS + p * (WINDOW_SECS - 0) < (MAX_REQUESTS + 1) * WINDOW_SECS
  BY <1>1, <1>2, <1>3, LimiterAssumption
<1>5. 0 \in 0 .. WINDOW_SECS - 1 /\ 0 <= k
  BY LimiterAssumption
<1> QED
  BY <1>4, <1>5 DEF Filled

LEMMA NoneCounted ==
    ASSUME NEW d \in Nat, NEW c \in Nat, NEW p \in Nat, NEW k \in Nat
    PROVE  Counted(0, d, c, p, k)
BY LimiterAssumption DEF Counted

\* The next window begins: the full one becomes `previous`.
LEMMA NextCounted ==
    ASSUME NEW b \in Nat, NEW d \in 1 .. WINDOW_SECS, NEW c \in Nat, NEW p \in Nat,
           NEW k \in Nat, NEW m \in Nat, k = m + WINDOW_SECS,
           c <= MAX_REQUESTS, p <= MAX_REQUESTS, Counted(b, d, c, p, k)
    PROVE  Counted(b, d, 0, c, m)
BY LimiterAssumption DEF Counted

\* A later window begins: no admission is left that the last ones counted.
LEMMA SkipCounted ==
    ASSUME NEW b \in Nat, NEW d \in 1 .. WINDOW_SECS, NEW c \in Nat, NEW p \in Nat,
           NEW k \in Nat, NEW m \in Nat, k >= m + 2 * WINDOW_SECS,
           c <= MAX_REQUESTS, Counted(b, d, c, p, k)
    PROVE  Counted(b, d, 0, 0, m)
BY LimiterAssumption DEF Counted

\* One more in the window and in every stretch of seconds that ends now.
LEMMA MoreCounted ==
    ASSUME NEW b \in Nat, NEW d \in 1 .. WINDOW_SECS, NEW c \in Nat, NEW p \in Nat,
           NEW k \in Nat, k <= WINDOW_SECS + 1, Counted(b, d, c, p, k)
    PROVE  Counted(b + 1, d, c + 1, p, k)
BY LimiterAssumption DEF Counted

\* A second passes.
LEMMA TickCounted ==
    ASSUME NEW b \in Nat, NEW d \in 1 .. WINDOW_SECS, NEW c \in Nat, NEW p \in Nat,
           NEW k \in Nat, d < WINDOW_SECS, Counted(b, d, c, p, k)
    PROVE  Counted(b, d + 1, c, p, k + 1)
BY LimiterAssumption DEF Counted

\* Rolling over keeps what is known.
LEMMA RollSmooth ==
    ASSUME NEW e \in Bucket \cup {NoEntry}, NEW t \in Nat, NEW n \in Nat, t <= n,
           NEW f \in [1 .. WINDOW_SECS -> Nat], Within(e), Smooth(e, n, f)
    PROVE  Smooth(Rolled(e, t), n, f)
<1> SUFFICES ASSUME NEW r, r = Rolled(e, t) PROVE Smooth(r, n, f)
  OBVIOUS
<1>1. PICK s \in Nat, m \in Nat :
         s = WindowStart(t) /\ s <= n /\ s % WINDOW_SECS = 0 /\ m = n - s
  BY StartFacts, StartIsMultiple
<1>a. m = n - s /\ WINDOW_SECS \in Nat
  BY <1>1, LimiterAssumption
<1>2. r \in Bucket /\ Within(r)
  BY RolledFacts
<1>3. r # NoEntry
  BY <1>2, BucketFacts
<1>4. ASSUME NEW p \in Nat, p <= MAX_REQUESTS,
             r.start = s, r.current = 0, r.previous = p,
             \A d \in 1 .. WINDOW_SECS : Counted(f[d], d, 0, p, m)
      PROVE  Smooth(r, n, f)
  <2>1. Filled(0, p, m)
    BY <1>4, EmptyFilled
  <2> QED
    BY <1>1, <1>3, <1>4, <2>1 DEF Smooth
<1>5. CASE e = NoEntry
  <2>1. r.start = s /\ r.current = 0 /\ r.previous = 0
    BY <1>1, <1>5 DEF Rolled
  <2>2. \A d \in 1 .. WINDOW_SECS : f[d] = 0 /\ d \in Nat
    BY <1>5, LimiterAssumption DEF Smooth
  <2>3. \A d \in 1 .. WINDOW_SECS : Counted(f[d], d, 0, 0, m)
    BY <2>2, NoneCounted
  <2> QED
    BY <1>4, <2>1, <2>3, LimiterAssumption
<1>6. CASE e # NoEntry /\ s > e.start
  <2>1. PICK a \in Nat, c \in Nat, p \in Nat, k \in Nat :
           a = e.start /\ c = e.current /\ p = e.previous /\ k = n - a /\ a < s
    BY <1>1, <1>6 DEF Bucket
  <2>a. k = n - a
    BY <2>1
  <2>2. c <= MAX_REQUESTS /\ p <= MAX_REQUESTS /\ a % WINDOW_SECS = 0
    BY <1>6, <2>1 DEF Within, Smooth
  <2>3. \A d \in 1 .. WINDOW_SECS : f[d] \in Nat /\ Counted(f[d], d, c, p, k)
    BY <1>6, <2>1 DEF Smooth
  <2>4. /\ r.start = s /\ r.current = 0
        /\ r.previous = IF s - a = WINDOW_SECS THEN c ELSE 0
    BY <1>1, <1>6, <2>1 DEF Rolled
  <2>5. CASE s - a = WINDOW_SECS
    <3>1. k = m + WINDOW_SECS
      BY <1>a, <2>a, <2>5
    <3>2. \A d \in 1 .. WINDOW_SECS : Counted(f[d], d, 0, c, m)
      BY <2>2, <2>3, <3>1, NextCounted
    <3> QED
      BY <1>4, <2>2, <2>4, <2>5, <3>2
  <2>6. CASE s - a # WINDOW_SECS
    <3>1. a + WINDOW_SECS <= s
      BY <1>1, <2>1, <2>2, Multiples
    <3>2. PICK b \in Nat : b = a + WINDOW_SECS /\ b < s
      BY <2>6, <3>1, LimiterAssumption
    <3>3. b % WINDOW_SECS = 0
      BY <2>2, <3>2, OneLater
    <3>4. b + WINDOW_SECS <= s
      BY <1>1, <3>2, <3>3, Multiples
    <3>5. k >= m + 2 * WINDOW_SECS
      BY <1>a, <2>a, <3>2, <3>4
    <3>6. \A d \in 1 .. WINDOW_SECS : Counted(f[d], d, 0, 0, m)
      BY <2>2, <2>3, <3>5, SkipCounted
    <3> QED
      BY <1>4, <2>4, <2>6, <3>6, LimiterAssumption
  <2> QED
    BY <2>5, <2>6
<1>7. CASE e # NoEntry /\ ~(s > e.start)
  BY <1>1, <1>7 DEF Rolled
<1> QED
  BY <1>5, <1>6, <1>7

\* A reading older than the window weighs the previous one more than fully:
\* both u64 subtractions wrap, and back.
LEMMA ResetBefore ==
    ASSUME NEW e \in Bucket, NEW t \in Nat, t < e.start, e.start <= MAX_NOW
    PROVE  ResetSecs(e, t) = WINDOW_SECS + (e.start - t)
<1>1. PICK s \in Nat : s = e.start
  BY DEF Bucket
<1>2. PICK k \in Nat : k = s - t /\ 0 < k /\ k <= MAX_NOW
  BY <1>1, LimiterAssumption
<1>3. /\ WINDOW_SECS \in Nat /\ WORD \in Nat \ {0} /\ k < WORD
      /\ WINDOW_SECS + k < WORD /\ t - s = -k
  BY <1>1, <1>2, LimiterAssumption
<1>4. (-k) % WORD = WORD - k
  BY <1>2, <1>3
<1>5. Sub(t, s) = WORD - k
  BY <1>3, <1>4 DEF Sub
<1>6. PICK x \in Nat : x = WINDOW_SECS + k
  BY <1>3
<1>7. WINDOW_SECS - (WORD - k) = x - WORD /\ x < WORD
  BY <1>2, <1>3, <1>6
<1>8. (x - WORD) % WORD = x
  BY <1>3, <1>7
<1>9. Sub(WINDOW_SECS, WORD - k) = x
  BY <1>7, <1>8 DEF Sub
<1> QED
  BY <1>1, <1>2, <1>5, <1>6, <1>9, Zenon DEF ResetSecs

\* Room for one leaves the window with one more at most full, by any weight.
LEMMA OneMore ==
    ASSUME NEW W \in Nat, NEW M \in Nat, NEW c \in Nat, NEW p \in Nat,
           NEW k \in Nat, NEW m \in Nat, m <= k, c * W + p * k < M * W
    PROVE  (c + 1) * W + p * m < (M + 1) * W
<1>1. p * m <= p * k
  OBVIOUS
<1>2. (c + 1) * W = c * W + W /\ (M + 1) * W = M * W + W
  OBVIOUS
<1>3. c * W \in Nat /\ M * W \in Nat /\ p * m \in Nat /\ p * k \in Nat
  OBVIOUS
<1> QED
  BY <1>1, <1>2, <1>3

LEMMA AdmittedFilled ==
    ASSUME NEW e \in Bucket, NEW t \in Nat, NEW n \in 0 .. MAX_NOW,
           e.start <= n, t <= n, t < e.start + WINDOW_SECS, Admits(e, t)
    PROVE  Filled(e.current + 1, e.previous, n - e.start)
<1>1. WINDOW_SECS \in Nat \ {0} /\ MAX_REQUESTS \in Nat /\ n \in Nat /\ n <= MAX_NOW
  BY LimiterAssumption
<1>2. PICK s \in Nat, c \in Nat, p \in Nat :
         s = e.start /\ c = e.current /\ p = e.previous
  BY DEF Bucket
<1>3. PICK k \in Nat : k = ResetSecs(e, t)
  BY ResetFacts
<1>4. c * WINDOW_SECS + p * k < MAX_REQUESTS * WINDOW_SECS
  BY <1>2, <1>3 DEF Admits, Estimated
<1>5. PICK o \in Nat : o < WINDOW_SECS /\ o <= n - s /\ WINDOW_SECS - o <= k
  <2>1. CASE t < s
    <3>1. k = WINDOW_SECS + (s - t)
      <4>1. t < e.start
        BY <1>2, <2>1
      <4>2. e.start <= MAX_NOW
        BY <1>1, <1>2, LimiterAssumption
      <4> QED
        BY <1>2, <1>3, <4>1, <4>2, ResetBefore, Zenon
    <3>2. s <= n
      BY <1>2
    <3>3. 0 \in Nat /\ 0 < WINDOW_SECS /\ 0 <= n - s /\ WINDOW_SECS - 0 <= k
      BY <1>1, <2>1, <3>1, <3>2
    <3> QED
      BY <3>3, Zenon
  <2>2. CASE t >= s
    <3>1. k = WINDOW_SECS - (t - s)
      BY <1>2, <1>3, <2>2, ResetInside
    <3>2. t - s \in Nat /\ t - s < WINDOW_SECS /\ t - s <= n - s
      BY <1>1, <1>2, <2>2
    <3>3. WINDOW_SECS - (t - s) <= k
      BY <1>1, <3>1, <3>2
    <3> QED
      BY <3>2, <3>3, Zenon
  <2> QED
    BY <1>2, <2>1, <2>2
<1>6. PICK m \in Nat : m = WINDOW_SECS - o
  BY <1>1, <1>5
<1>7. (c + 1) * WINDOW_SECS + p * m < (MAX_REQUESTS + 1) * WINDOW_SECS
  BY <1>1, <1>4, <1>5, <1>6, OneMore
<1>8. o \in 0 .. WINDOW_SECS - 1
  BY <1>1, <1>5
<1>9. Filled(c + 1, p, n - s)
  BY <1>5, <1>6, <1>7, <1>8, Zenon DEF Filled
<1> QED
  BY <1>2, <1>9

\* An admission by a reading at most two seconds old.
LEMMA CountSmooth ==
    ASSUME NEW e \in Bucket, NEW t \in Nat, NEW n \in 0 .. MAX_NOW,
           t <= n, n - t <= 2, t < e.start + WINDOW_SECS,
           NEW f \in [1 .. WINDOW_SECS -> Nat], Smooth(e, n, f), Admits(e, t),
           NEW x \in Bucket, x.start = e.start, x.current = e.current + 1,
           x.previous = e.previous,
           NEW g, \A d \in 1 .. WINDOW_SECS : g[d] = f[d] + 1
    PROVE  Smooth(x, n, g)
<1>1. x # NoEntry /\ e # NoEntry
  BY BucketFacts
<1>2. /\ e.start <= n /\ e.start % WINDOW_SECS = 0
      /\ \A d \in 1 .. WINDOW_SECS : Counted(f[d], d, e.current, e.previous, n - e.start)
  BY <1>1 DEF Smooth
<1>3. Filled(e.current + 1, e.previous, n - e.start)
  BY <1>2, AdmittedFilled
<1>4. PICK c \in Nat, p \in Nat, k \in Nat :
         /\ c = e.current /\ p = e.previous /\ k = n - e.start
         /\ k <= WINDOW_SECS + 1
  BY <1>2, LimiterAssumption DEF Bucket
<1>5. \A d \in 1 .. WINDOW_SECS : f[d] \in Nat /\ Counted(f[d], d, c, p, k)
  BY <1>2, <1>4
<1>6. \A d \in 1 .. WINDOW_SECS : Counted(f[d] + 1, d, c + 1, p, k)
  BY <1>4, <1>5, MoreCounted
<1>7. \A d \in 1 .. WINDOW_SECS : Counted(g[d], d, c + 1, p, k)
  BY <1>6
<1> QED
  BY <1>1, <1>2, <1>3, <1>4, <1>7 DEF Smooth

LEMMA TickFilled ==
    ASSUME NEW c \in Nat, NEW p \in Nat, NEW k \in Nat, Filled(c, p, k)
    PROVE  Filled(c, p, k + 1)
<1>1. \A o \in 0 .. WINDOW_SECS - 1 : o <= k => o <= k + 1
  BY LimiterAssumption
<1> QED
  BY <1>1, Zenon DEF Filled

\* A second passes: the admissions of the last d seconds are those of the last
\* d + 1.
LEMMA TickSmooth ==
    ASSUME NEW e \in Bucket \cup {NoEntry}, NEW n \in Nat,
           NEW f \in [1 .. WINDOW_SECS -> Nat], Smooth(e, n, f),
           NEW g, g[1] = 0, \A d \in 1 .. WINDOW_SECS : d < WINDOW_SECS => g[d + 1] = f[d]
    PROVE  Smooth(e, n + 1, g)
<1>1. \A d \in 1 .. WINDOW_SECS :
         d = 1 \/ \E b \in 1 .. WINDOW_SECS : b < WINDOW_SECS /\ d = b + 1
  <2> SUFFICES ASSUME NEW d \in 1 .. WINDOW_SECS, d # 1
               PROVE  \E b \in 1 .. WINDOW_SECS : b < WINDOW_SECS /\ d = b + 1
    OBVIOUS
  <2>1. d - 1 \in 1 .. WINDOW_SECS /\ d - 1 < WINDOW_SECS /\ d = (d - 1) + 1
    BY LimiterAssumption
  <2> QED
    BY <2>1
<1>2. CASE e = NoEntry
  <2>1. \A d \in 1 .. WINDOW_SECS : f[d] = 0
    BY <1>2 DEF Smooth
  <2>2. \A d \in 1 .. WINDOW_SECS : g[d] = 0
    BY <1>1, <2>1
  <2> QED
    BY <1>2, <2>2 DEF Smooth
<1>3. CASE e # NoEntry
  <2>1. PICK s \in Nat, c \in Nat, p \in Nat, k \in Nat :
           s = e.start /\ c = e.current /\ p = e.previous /\ k = n - s
    BY <1>3 DEF Bucket, Smooth
  <2>2. /\ s <= n /\ s % WINDOW_SECS = 0 /\ Filled(c, p, k)
        /\ \A d \in 1 .. WINDOW_SECS : f[d] \in Nat /\ Counted(f[d], d, c, p, k)
    BY <1>3, <2>1 DEF Smooth
  <2>3. Filled(c, p, k + 1)
    BY <2>2, TickFilled
  <2>4. \A d \in 1 .. WINDOW_SECS :
           d < WINDOW_SECS => Counted(f[d], d + 1, c, p, k + 1)
    BY <2>2, TickCounted
  <2>5. Counted(0, 1, c, p, k + 1)
    BY NoneCounted
  <2>6. \A d \in 1 .. WINDOW_SECS : Counted(g[d], d, c, p, k + 1)
    BY <1>1, <2>4, <2>5
  <2>7. (n + 1) - s = k + 1 /\ s <= n + 1
    BY <2>1, <2>2
  <2> QED
    BY <1>3, <2>1, <2>2, <2>3, <2>6, <2>7 DEF Smooth
<1> QED
  BY <1>2, <1>3

LEMMA NextSmooth ==
    ASSUME MAX_LAG <= 2, LInv, BurstInv, [Next]_vars
    PROVE  BurstInv'
<1>1. /\ entry \in Bucket \cup {NoEntry} /\ now \in 0 .. MAX_NOW /\ now \in Nat
      /\ recent \in [1 .. WINDOW_SECS -> Nat] /\ Within(entry)
      /\ Smooth(entry, now, recent)
  BY LimiterAssumption DEF LInv, TypeOK, BurstInv
<1>2. CASE UNCHANGED vars \/ \E r \in Requests : Ask(r)
  <2>1. UNCHANGED <<now, entry, recent>>
    BY <1>2 DEF vars, Ask
  <2> QED
    BY <1>1, <2>1, Zenon DEF BurstInv
<1>3. ASSUME NEW r \in Requests, CheckAt(r) PROVE BurstInv'
  <2>1. PICK t \in Nat : t = asked[r] /\ t <= now /\ now - t <= 2
    BY <1>1, <1>3, LimiterAssumption DEF CheckAt, LInv, TypeOK, Readings
  <2> DEFINE e == Rolled(entry, t)
  <2>2. /\ entry' = IF Admits(e, t) THEN [e EXCEPT !.current = @ + 1] ELSE e
        /\ recent' = IF Admits(e, t) THEN [d \in 1 .. WINDOW_SECS |-> recent[d] + 1] ELSE recent
        /\ now' = now
    BY <1>3, <2>1 DEF CheckAt, Checked
  <2>3. e \in Bucket /\ Smooth(e, now, recent)
    BY <1>1, <2>1, RolledFacts, RollSmooth
  <2>4. t < e.start + WINDOW_SECS
    <3>1. PICK s \in Nat : s = WindowStart(t) /\ t < s + WINDOW_SECS
      BY StartFacts
    <3>2. e.start \in Nat /\ s <= e.start
      BY <1>1, <3>1, LimiterAssumption DEF Rolled, Bucket
    <3> QED
      BY <3>1, <3>2, LimiterAssumption
  <2> HIDE DEF e
  <2>5. CASE Admits(e, t)
    <3>1. /\ entry' = [e EXCEPT !.current = @ + 1]
          /\ recent' = [d \in 1 .. WINDOW_SECS |-> recent[d] + 1]
      BY <2>2, <2>5
    <3>2. /\ entry' \in Bucket /\ entry'.start = e.start
          /\ entry'.current = e.current + 1 /\ entry'.previous = e.previous
      BY <2>3, <3>1 DEF Bucket
    <3>3. \A d \in 1 .. WINDOW_SECS : recent'[d] = recent[d] + 1
      BY <3>1
    <3>4. Smooth(entry', now, recent')
      BY <1>1, <2>1, <2>3, <2>4, <2>5, <3>2, <3>3, CountSmooth
    <3> QED
      BY <2>2, <3>4, Zenon DEF BurstInv
  <2>6. CASE ~Admits(e, t)
    BY <2>2, <2>3, <2>6, Zenon DEF BurstInv
  <2> QED
    BY <2>5, <2>6
<1>4. CASE CleanupIdle
  <2>1. /\ entry # NoEntry /\ IsIdle(entry, now) /\ entry' = NoEntry
        /\ UNCHANGED <<now, recent>>
    BY <1>4 DEF CleanupIdle
  <2>2. PICK s \in Nat : s = entry.start
    BY <1>1, <2>1 DEF Bucket
  <2>3. s + 2 * WINDOW_SECS < now
    BY <1>1, <2>1, <2>2, LimiterAssumption DEF IsIdle
  <2>4. \A d \in 1 .. WINDOW_SECS : d < now - s - WINDOW_SECS
    BY <1>1, <2>3, LimiterAssumption
  <2>5. \A d \in 1 .. WINDOW_SECS : recent[d] = 0
    BY <1>1, <2>1, <2>2, <2>4 DEF Smooth, Counted
  <2> QED
    BY <2>1, <2>5 DEF BurstInv, Smooth
<1>5. CASE Tick
  <2>1. /\ entry' = entry /\ now' = now + 1
        /\ recent' = [d \in 1 .. WINDOW_SECS |-> IF d = 1 THEN 0 ELSE recent[d - 1]]
    BY <1>5 DEF Tick
  <2>2. recent'[1] = 0
    BY <2>1, LimiterAssumption
  <2>3. \A d \in 1 .. WINDOW_SECS : d < WINDOW_SECS => recent'[d + 1] = recent[d]
    <3> SUFFICES ASSUME NEW d \in 1 .. WINDOW_SECS, d < WINDOW_SECS
                 PROVE  recent'[d + 1] = recent[d]
      OBVIOUS
    <3>1. d + 1 \in 1 .. WINDOW_SECS /\ d + 1 # 1 /\ (d + 1) - 1 = d
      BY LimiterAssumption
    <3> QED
      BY <2>1, <3>1
  <2>4. Smooth(entry, now + 1, recent')
    BY <1>1, <2>2, <2>3, TickSmooth
  <2> QED
    BY <2>1, <2>4, Zenon DEF BurstInv
<1> QED
  BY <1>2, <1>3, <1>4, <1>5 DEF Next

\* What is known bounds the burst.
LEMMA FewBounded ==
    ASSUME NEW W \in Nat \ {0}, NEW M \in Nat, NEW b \in Nat, NEW d \in Nat, b <= M
    PROVE  W * b < W * (M + 1) + M * d
<1>1. W * b <= W * M
  OBVIOUS
<1>2. W * (M + 1) = W * M + W
  OBVIOUS
<1>3. W * b \in Nat /\ W * M \in Nat /\ M * d \in Nat
  OBVIOUS
<1> QED
  BY <1>1, <1>2, <1>3

LEMMA SumBounded ==
    ASSUME NEW W \in Nat \ {0}, NEW M \in Nat, NEW b \in Nat, NEW c \in Nat, NEW p \in Nat,
           NEW o \in Nat, NEW y \in Nat,
           o < W, c * W + p * (W - o) < (M + 1) * W,
           W * b + p * o <= W * (c + p) + y
    PROVE  W * b < W * (M + 1) + y
<1>1. p * (W - o) = p * W - p * o
  OBVIOUS
<1>2. W * (c + p) = c * W + p * W /\ W * (M + 1) = (M + 1) * W
  OBVIOUS
<1>3. /\ c * W \in Int /\ p * W \in Int /\ p * o \in Int
      /\ (M + 1) * W \in Int /\ W * b \in Int
  OBVIOUS
<1> QED
  BY <1>1, <1>2, <1>3

LEMMA BurstArith ==
    ASSUME NEW W \in Nat \ {0}, NEW M \in Nat, NEW b \in Nat, NEW c \in Nat, NEW p \in Nat,
           NEW d \in Nat, NEW k \in Nat, NEW o \in Nat,
           d <= W, c <= M, p <= M, M < b, o < W, o <= k,
           c * W + p * (W - o) < (M + 1) * W,
           b <= c + p + M, d < W \/ k # 0 => b <= c + p, d < k => b <= c
    PROVE  W * b < W * (M + 1) + M * d
<1>1. k <= d /\ o <= d
  OBVIOUS
<1>2. M * d \in Nat
  OBVIOUS
<1>3. W * b + p * o <= W * (c + p) + M * d
  <2>1. CASE d = W /\ k = 0
    <3>1. W * b <= W * (c + p + M)
      OBVIOUS
    <3>2. W * (c + p + M) = W * (c + p) + M * d
      BY <2>1
    <3>3. o = 0 /\ p * o = 0
      BY <2>1
    <3>4. W * b \in Int /\ W * (c + p) \in Int
      OBVIOUS
    <3> QED
      BY <1>2, <3>1, <3>2, <3>3, <3>4
  <2>2. CASE ~(d = W /\ k = 0)
    <3>1. b <= c + p
      BY <2>2
    <3>2. W * b <= W * (c + p)
      BY <3>1
    <3>3. p * o <= M * o
      OBVIOUS
    <3>4. M * o <= M * d
      BY <1>1
    <3>5. p * o \in Int /\ M * o \in Int /\ W * b \in Int /\ W * (c + p) \in Int
      OBVIOUS
    <3> QED
      BY <1>2, <3>2, <3>3, <3>4, <3>5
  <2> QED
    BY <2>1, <2>2
<1> QED
  BY <1>2, <1>3, SumBounded

LEMMA CountedBounded ==
    ASSUME NEW b \in Nat, NEW d \in 1 .. WINDOW_SECS, NEW c \in Nat, NEW p \in Nat,
           NEW k \in Nat, c <= MAX_REQUESTS, p <= MAX_REQUESTS,
           Filled(c, p, k), Counted(b, d, c, p, k)
    PROVE  WINDOW_SECS * b < WINDOW_SECS * (MAX_REQUESTS + 1) + MAX_REQUESTS * d
<1>1. PICK W \in Nat \ {0}, M \in Nat : W = WINDOW_SECS /\ M = MAX_REQUESTS /\ d <= W
  BY LimiterAssumption
<1>2. /\ b <= c + p + M
      /\ d < W \/ k # 0 => b <= c + p
      /\ d < k => b <= c
      /\ d \in Nat
  BY <1>1 DEF Counted
<1>3. PICK o \in Nat : o < W /\ o <= k /\ c * W + p * (W - o) < (M + 1) * W
  <2>1. \A o \in 0 .. W - 1 : o \in Nat /\ o < W
    BY <1>1
  <2> QED
    BY <1>1, <2>1, Zenon DEF Filled
<1>4. M * d \in Nat
  BY <1>1, <1>2
<1>5. CASE b <= M
  BY <1>1, <1>2, <1>5, FewBounded
<1>6. CASE b > M
  BY <1>1, <1>2, <1>3, <1>4, <1>6, BurstArith
<1> QED
  BY <1>1, <1>5, <1>6

-----------------------------------------------------------------------------
(* Theorems *)

\* The bucket, the Redis counters and the histories stay well typed.
THEOREM LimiterTypeCorrect == Spec => []TypeOK
<1>1. LInv => TypeOK
  BY DEF LInv
<1> QED
  BY <1>1, AlwaysLInv, PTL

\* check_at for any window, limit and delay between the clock and the lock: no
\* window of the bucket ever counts more than max_requests, although u64
\* subtraction wraps for a reading older than the window.
THEOREM WindowsHold == Spec => []WindowNeverOverfull
<1>1. LInv => WindowNeverOverfull
  BY DEF LInv, Within, WindowNeverOverfull
<1> QED
  BY <1>1, AlwaysLInv, PTL

\* cleanup_idle for any window and limit and any number of requests whose
\* readings are at most a second old: no verdict depends on it.
THEOREM CleanupHarmless == MAX_LAG <= 1 => (Spec => []CleanupTransparent)
<1> SUFFICES ASSUME MAX_LAG <= 1 PROVE Spec => []CleanupTransparent
  OBVIOUS
<1>1. LInv => CleanupTransparent
  <2> SUFFICES ASSUME LInv, NEW t \in {now} \cup {asked[r] : r \in Requests}, t # NotAsking
               PROVE  Admits(Rolled(entry, t), t) <=> Admits(Rolled(kept, t), t)
    BY DEF CleanupTransparent
  <2>1. t \in Nat /\ t <= now /\ now - t <= 1
    BY LimiterAssumption DEF LInv, TypeOK, Readings, NotAsking
  <2> QED
    BY <2>1, SameRolls
<1> QED
  BY <1>1, AlwaysLInv, PTL

\* RedisRateLimiter is "matching the in-memory implementation exactly", for any
\* window, limit and number of requests: as long as every request was counted by
\* a clock read on time, whatever was rolled over, expired or cleaned up.
THEOREM BackendsAgree == Spec => []RedisAgrees
<1>1. LInv /\ AgreeInv => RedisAgrees
  BY SameEstimate DEF LInv, RedisAgrees
<1> QED
  BY <1>1, InitAgree, NextAgree, AlwaysLInv, PTL DEF Spec

\* "smooths the burst a plain fixed window allows at a boundary", for any window,
\* limit and number of requests with clock readings at most two seconds old: the
\* wait for the lock, rollovers, wrapped subtractions and cleanups included.
THEOREM BurstsSmoothed == MAX_LAG <= 2 => (Spec => []BurstSmoothed)
<1> SUFFICES ASSUME MAX_LAG <= 2 PROVE Spec => []BurstSmoothed
  OBVIOUS
<1>1. Init => BurstInv
  BY DEF Init, BurstInv, Smooth
<1>2. LInv /\ BurstInv => BurstSmoothed
  <2> SUFFICES ASSUME LInv, BurstInv, NEW d \in 1 .. WINDOW_SECS
               PROVE  WINDOW_SECS * recent[d]
                         < WINDOW_SECS * (MAX_REQUESTS + 1) + MAX_REQUESTS * d
    BY DEF BurstSmoothed
  <2>1. PICK b \in Nat : b = recent[d]
    BY DEF LInv, TypeOK
  <2>2. CASE entry = NoEntry
    <3>1. b = 0
      BY <2>1, <2>2 DEF BurstInv, Smooth
    <3> QED
      BY <2>1, <3>1, FewBounded, LimiterAssumption
  <2>3. CASE entry # NoEntry
    <3>1. PICK c \in Nat, p \in Nat, k \in Nat :
             /\ c = entry.current /\ p = entry.previous /\ k = now - entry.start
             /\ c <= MAX_REQUESTS /\ p <= MAX_REQUESTS
      BY <2>3, LimiterAssumption DEF LInv, TypeOK, Bucket, Within, BurstInv, Smooth
    <3>2. Filled(c, p, k) /\ Counted(b, d, c, p, k)
      BY <2>1, <2>3, <3>1 DEF BurstInv, Smooth
    <3> QED
      BY <2>1, <3>1, <3>2, CountedBounded
  <2> QED
    BY <2>2, <2>3
<1> QED
  BY <1>1, <1>2, NextSmooth, AlwaysLInv, PTL DEF Spec
=============================================================================
