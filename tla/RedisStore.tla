----------------------------- MODULE RedisStore -----------------------------
(***************************************************************************)
(* The Redis session store (RedisSessionStore, src/src/session.rs) shared  *)
(* by several verifier replicas: sessions and replay claims are keys with  *)
(* a TTL, spending and claiming are Lua scripts, creating is one MULTI.    *)
(*                                                                         *)
(* A worker is a request on some replica.  Each call to Redis may fail     *)
(* before it runs or lose its answer after it ran; both are the same `Err` *)
(* to the caller, which fails closed.  A key's TTL runs on the server, the *)
(* deadline inside a token is compared with the replica's own clock.       *)
(* Replicas crash; the store survives them, but may itself lose keys: the  *)
(* shipped one is not persistent and evicts (deploy/docker-compose.yml).   *)
(***************************************************************************)
EXTENDS PaidSession, FiniteSets

CONSTANTS
    Keys,          \* session ids; one is never drawn twice
    Bought,        \* signed payments, each pinning an object
    Workers,       \* requests under way
    Replicas,
    AT,            \* worker -> its replica
    SKEW,          \* replica -> its clock minus the server's, in seconds
    CLAIM_TTL,     \* replay_ttl of the terms
    MaxWork,       \* longest a request works on a payment it has claimed
    MaxLosses,     \* bound: keys the server loses before their TTL
    MaxCrashes,    \* bound: replicas that die
    Nothing

ASSUME RedisAssumption ==
    /\ AT \in [Workers -> Replicas]
    /\ SKEW \in [Replicas -> Int]
    /\ CLAIM_TTL \in Nat \ {0}
    /\ MaxLosses \in Nat
    /\ MaxCrashes \in Nat
    \* "ttl_secs therefore only needs to outlive settlement latency" (claim_payment)
    /\ MaxWork \in Nat
    /\ MaxWork < CLAIM_TTL

VARIABLES
    hash,          \* id -> the session key, or NoSession
    token,         \* id -> seconds to the deadline in its token on the
                   \* server's clock, or Nothing if no client was given one
    marker,        \* payment -> seconds its claim key has left, 0 for none
    worker,        \* worker -> where it is
    landed,        \* payments executed on chain (external)
    losses,
    crashes,
    \* History, read by the properties only:
    drawn,         \* ids used so far
    age,           \* id -> seconds since its key was created
    answered,      \* id -> policy -> requests accepted
    unanswered,    \* id -> policy -> requests deducted whose answer was lost
    granted        \* payment -> session tokens handed out for it (to 2)

redisVars == <<hash, token, marker, worker, landed, losses, crashes,
               drawn, age, answered, unanswered, granted>>

storeVars == <<hash, token, marker, losses, drawn, age, granted>>
counters == <<answered, unanswered>>

IdleWorker == [pc |-> "idle", id |-> Nothing, policy |-> Nothing,
               pay |-> Nothing, held |-> 0]

RedisInit ==
    /\ hash = [i \in Keys |-> NoSession]
    /\ token = [i \in Keys |-> Nothing]
    /\ marker = [p \in Bought |-> 0]
    /\ worker = [w \in Workers |-> IdleWorker]
    /\ landed = {}
    /\ losses = 0
    /\ crashes = 0
    /\ drawn = {}
    /\ age = [i \in Keys |-> 0]
    /\ answered = [i \in Keys |-> [q \in Policies |-> 0]]
    /\ unanswered = [i \in Keys |-> [q \in Policies |-> 0]]
    /\ granted = [p \in Bought |-> 0]

Done(w) == worker' = [worker EXCEPT ![w] = IdleWorker]
Go(w, pc) == worker' = [worker EXCEPT ![w].pc = pc]

-----------------------------------------------------------------------------
(* consume *)

\* TokenCodec::verify: authentic, and before its deadline by this replica's
\* clock.  Any other token is rejected with no effect.
Presents(w, i, q) ==
    /\ worker[w].pc = "idle"
    /\ token[i] # Nothing
    /\ token[i] > SKEW[AT[w]]
    /\ worker' = [worker EXCEPT ![w].pc = "spend", ![w].id = i, ![w].policy = q]
    /\ UNCHANGED <<storeVars, landed, crashes, counters>>

\* SPEND_SCRIPT returns -2 (Unknown), -3 (WrongPolicy) or -1 (QuotaExhausted);
\* or Redis is not reached at all (Backend).
SpendRefused(w) ==
    /\ worker[w].pc = "spend"
    /\ Done(w)
    /\ UNCHANGED <<storeVars, landed, crashes, counters>>

\* Mutant: a GET, a comparison in Rust and a DECR, another replica in between.
SpendableUnchecked(s, policy) == Covers(s, policy)

\* SPEND_SCRIPT's three tests.
Spendable(s, policy) == Covers(s, policy) /\ s.left > 0

\* HINCRBY quota -1
AfterScript(s) == [s EXCEPT !.left = @ - 1]

\* Mutant: an answer that does not come is taken for a yes.
SpendRanOpen(w) ==
    /\ worker[w].pc = "spend"
    /\ Spendable(hash[worker[w].id], worker[w].policy)
    /\ hash' = [hash EXCEPT ![worker[w].id] = AfterScript(@)]
    /\ answered' = [answered EXCEPT ![worker[w].id][worker[w].policy] = @ + 1]
    /\ unanswered' \in
         {unanswered, [unanswered EXCEPT ![worker[w].id][worker[w].policy] = @ + 1]}
    /\ Done(w)
    /\ UNCHANGED <<token, marker, losses, drawn, age, granted, landed, crashes>>

\* The script runs: Accepted, or its answer is lost and the request denied.
SpendRan(w) ==
    /\ worker[w].pc = "spend"
    /\ Spendable(hash[worker[w].id], worker[w].policy)
    /\ hash' = [hash EXCEPT ![worker[w].id] = AfterScript(@)]
    /\ \/ /\ answered' = [answered EXCEPT ![worker[w].id][worker[w].policy] = @ + 1]
          /\ UNCHANGED unanswered
       \/ /\ unanswered' = [unanswered EXCEPT ![worker[w].id][worker[w].policy] = @ + 1]
          /\ UNCHANGED answered
    /\ Done(w)
    /\ UNCHANGED <<token, marker, losses, drawn, age, granted, landed, crashes>>

-----------------------------------------------------------------------------
(* claim_payment, release_payment and the payment between them *)

\* A paying request for `policy` reaches claim_payment.
Arrives(w, p, q) ==
    /\ worker[w].pc = "idle"
    /\ worker' = [worker EXCEPT ![w].pc = "claim", ![w].pay = p, ![w].policy = q]
    /\ UNCHANGED <<storeVars, landed, crashes, counters>>

\* Replay, or Backend with Redis not reached: refused.
ClaimRefused(w) ==
    /\ worker[w].pc = "claim"
    /\ Done(w)
    /\ UNCHANGED <<storeVars, landed, crashes, counters>>

\* CLAIM_SCRIPT finds no key.
Unclaimed(p) == marker[p] = 0

\* CLAIM_SCRIPT sets the key: Fresh, or the answer is lost and the payment
\* refused with its claim in place.
Claimed(w) ==
    /\ worker[w].pc = "claim"
    /\ Unclaimed(worker[w].pay)
    /\ marker' = [marker EXCEPT ![worker[w].pay] = CLAIM_TTL]
    /\ \/ Go(w, "verify")
       \/ Done(w)
    /\ UNCHANGED <<hash, token, losses, drawn, age, granted, landed, crashes, counters>>

\* The request is over before its payment was broadcast: the upstream failed and
\* DEL runs or does not, or verification refused or Envoy hung up and the claim
\* is left to its TTL.
GivesBack(w) ==
    /\ worker[w].pc = "verify"
    /\ \/ marker' = [marker EXCEPT ![worker[w].pay] = 0]
       \/ UNCHANGED marker
    /\ Done(w)
    /\ UNCHANGED <<hash, token, losses, drawn, age, granted, landed, crashes, counters>>

\* Mutant: the payment is settled on the strength of the first verification.
ReverifiesNothing(w) ==
    /\ worker[w].pc = "verify"
    /\ Go(w, "execute")
    /\ UNCHANGED <<storeVars, landed, crashes, counters>>

\* Facilitator::settle verifies once more: the pinned object must be live.
Reverifies(w) ==
    /\ worker[w].pc = "verify"
    /\ worker[w].pay \notin landed
    /\ Go(w, "execute")
    /\ UNCHANGED <<storeVars, landed, crashes, counters>>

\* The broadcast: it lands, also when it had landed before, or it fails; a lost
\* answer is a failure with the claim kept.
Broadcasts(w) ==
    /\ worker[w].pc = "execute"
    /\ \/ landed' = landed \cup {worker[w].pay} /\ Go(w, "mint")
       \/ landed' = landed \cup {worker[w].pay} /\ Done(w)
       \/ UNCHANGED landed /\ Done(w)
    /\ UNCHANGED <<storeVars, crashes, counters>>

\* Mutant: HSET first, EXPIRE in a call of its own that may not come.
StoredPiecewise(q) == [NewSession(q) EXCEPT !.life = 0]

\* The MULTI of create_session: payer, quota, policy and EXPIRE together.
Stored(q) == NewSession(q)

\* create_session: stored and its token given out; stored and the answer lost;
\* or not reached.  Without a token the request is served all the same.
Mints(w) ==
    /\ worker[w].pc = "mint"
    /\ \/ \E i \in Keys \ drawn :
            /\ hash' = [hash EXCEPT ![i] = Stored(worker[w].policy)]
            /\ drawn' = drawn \cup {i}
            /\ \/ /\ token' = [token EXCEPT ![i] =
                                 DURATION[worker[w].policy] + SKEW[AT[w]]]
                  /\ granted' = [granted EXCEPT ![worker[w].pay] = IF @ = 0 THEN 1 ELSE 2]
               \/ UNCHANGED <<token, granted>>
       \/ UNCHANGED <<hash, token, drawn, granted>>
    /\ Done(w)
    /\ UNCHANGED <<marker, losses, age, landed, crashes, counters>>

-----------------------------------------------------------------------------
(* Time and faults *)

AtWork == {"verify", "execute", "mint"}

\* A key whose TTL runs out is gone; one without a TTL (life 0) stays.
Expired(s) == IF s.life = 1 THEN NoSession ELSE Shorter(s)

\* One second passes on the server.  A token's deadline stops at the lowest
\* clock: nothing tells lower values apart.
Second ==
    /\ \A w \in Workers : worker[w].pc \in AtWork => worker[w].held < MaxWork
    /\ worker' = [w \in Workers |->
                    IF worker[w].pc \in AtWork
                    THEN [worker[w] EXCEPT !.held = @ + 1] ELSE worker[w]]
    /\ hash' = [i \in Keys |-> Expired(hash[i])]
    /\ age' = [i \in Keys |-> IF hash'[i] = NoSession THEN 0 ELSE age[i] + 1]
    /\ token' = [i \in Keys |->
                   IF token[i] = Nothing THEN Nothing
                   ELSE IF \A r \in Replicas : token[i] <= SKEW[r] THEN token[i]
                   ELSE token[i] - 1]
    /\ marker' = [p \in Bought |-> IF marker[p] = 0 THEN 0 ELSE marker[p] - 1]
    /\ UNCHANGED <<losses, drawn, granted, landed, crashes, counters>>

\* A replica dies with the requests on it.  The store does not notice.
CrashReplica(r) ==
    /\ crashes < MaxCrashes
    /\ crashes' = crashes + 1
    /\ worker' = [w \in Workers |-> IF AT[w] = r THEN IdleWorker ELSE worker[w]]
    /\ UNCHANGED <<storeVars, landed, counters>>

\* maxmemory-policy allkeys-lru evicts a key, or the server restarts without
\* its data (no save, no appendonly).
LoseKeys ==
    /\ losses < MaxLosses
    /\ losses' = losses + 1
    /\ \E S \in SUBSET Keys, T \in SUBSET Bought :
          /\ Cardinality(S) + Cardinality(T) = 1 \/ (S = Keys /\ T = Bought)
          /\ hash' = [i \in Keys |-> IF i \in S THEN NoSession ELSE hash[i]]
          /\ marker' = [p \in Bought |-> IF p \in T THEN 0 ELSE marker[p]]
    /\ UNCHANGED <<token, worker, drawn, age, granted, landed, crashes, counters>>

WorkerStep(w) ==
    \/ SpendRefused(w) \/ SpendRan(w)
    \/ ClaimRefused(w) \/ Claimed(w) \/ GivesBack(w)
    \/ Reverifies(w) \/ Broadcasts(w) \/ Mints(w)

RedisNext ==
    \/ \E w \in Workers, i \in Keys, q \in Policies : Presents(w, i, q)
    \/ \E w \in Workers, p \in Bought, q \in Policies : Arrives(w, p, q)
    \/ \E w \in Workers : WorkerStep(w)
    \/ Second
    \/ \E r \in Replicas : CrashReplica(r)
    \/ LoseKeys

RedisSpec == RedisInit /\ [][RedisNext]_redisVars

-----------------------------------------------------------------------------
(* Properties *)

\* SPEND_SCRIPT, run by replicas that share nothing else and whose calls may
\* lose their answers: what is gone from a session's quota was either served or
\* charged to a request that was told "backend", on the policy it was bought for.
EveryDeductionCounted ==
    \A i \in Keys :
       hash[i] # NoSession =>
          \A q \in Policies :
             answered[i][q] + unanswered[i][q] =
                IF q = hash[i].policy THEN QUOTA[q] - hash[i].left ELSE 0

\* create_session's MULTI and the key's TTL: a stored session always ends
\* duration_secs after it was stored.  No replica's crash leaves it without an
\* end, and no use of it moves the end.  The deadline in its token, "minted from
\* that same TTL" (consume), is that end by the clock of the replica that minted
\* it, also when it is read by another's: the two ends of a session are never
\* further apart than two replicas' clocks.
EndsOnTime ==
    \A i \in Keys :
       hash[i] # NoSession =>
          /\ hash[i].life + age[i] = DURATION[hash[i].policy]
          /\ token[i] # Nothing => \E r \in Replicas : token[i] = hash[i].life + SKEW[r]

\* CLAIM_SCRIPT across replicas: as long as the server keeps its keys, two
\* requests are never at work on one payment, wherever they run, whichever
\* replica crashed and whatever answers were lost; hence the payment buys one
\* session token at most, although its claim expires and it can be presented
\* again: by then it has landed, and verify refuses it.  A token is given only
\* for a payment that landed.
OneTokenPerPayment ==
    /\ \A p \in Bought : granted[p] > 0 => p \in landed
    /\ losses = 0 =>
          /\ \A p \in Bought : granted[p] <= 1
          /\ \A v, w \in Workers :
                /\ worker[v].pc \in AtWork
                /\ worker[w].pc \in AtWork
                /\ worker[v].pay = worker[w].pay
                => v = w

\* create_session that fails after the settlement succeeded: once no request is
\* at work on the payment, the charge stays without a session for good.  A retry
\* cannot claim it back while the claim stands, and verify refuses it after.
FailedMintIsFinal ==
    \A p \in Bought :
       [](/\ p \in landed
          /\ granted[p] = 0
          /\ \A w \in Workers : worker[w].pc \in AtWork => worker[w].pay # p
          => [](losses = 0 => granted[p] = 0))
=============================================================================
