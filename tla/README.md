# TLA+ models of sui-x402-verifier

The service sits beside an Envoy proxy and decides, request by request, whether
a caller is served from a session it bought, by a payment it presents, or on the
free tier. This directory models the parts of it that are hard to test: one
payment competing on three surfaces, claims that lapse, answers that get lost,
a circuit breaker fed by late reports, lock-free counters, windows that roll
over, terms put together from several layers of configuration, replicas that
share a Redis that may forget, and clients that pay from one wallet.

TLC checks the models on small instances; TLAPS proves the main safety
properties for every value of the constants. Paths below are relative to the
repository (`src/…` is its Rust source).

```
tlc -workers 2 -config GatewayDeferred.cfg Gateway       # one run
tlapm GatewayProofs.tla                                  # one module of proofs
```

## 1. Inventory

| component | state | operations | promises |
|---|---|---|---|
| settlement breaker, `src/breaker.rs` | per policy: recent outcomes, opened_at, probing | `state` (reads *and* claims the probe), `record_success`, `record_failure` | trips on failing settlement, lets one probe through after a cooldown, bounds what is served unpaid |
| ext_proc surface, `src/ext_proc.rs` | per stream: pending payment, path, policy | request headers, response headers, hang-up | verify on the request, charge only once the upstream answered 2xx |
| tier policy and ext_authz, `src/auth.rs` | none of its own | `decide` (session, then payment, then free tier), `check` | a payment is claimed before anything is done with it; terms are the route's |
| facilitator and its HTTP API, `src/x402.rs`, `src/facilitator_api.rs` | none | `verify`, `settle`, `verify_chain`; POST /settle | only what meets the advertised terms is broadcast; shares the claims with the gateway |
| Sui verifier, `src/sui.rs` | none (the chain's) | `verify`, `settle`, `check_chain` | the payee is credited the exact price, pinned inputs are live |
| replay cache, `src/session.rs` | payment id -> time of claim | `claim_payment`, `release_payment`, sweep | one holder per payment, blocked for its TTL |
| session store in memory, `src/session.rs` | id -> policy, quota left, deadline | `create_session`, `consume`, sweep | never more than the quota, on one policy only |
| session store and claims in Redis, `src/session.rs` | keys with a TTL on a server the replicas share | three Lua scripts and a MULTI | the same, for all replicas together, and claims that survive a replica |
| session token codec, `src/session.rs` | none | `mint`, `verify` | a token names a session that was sold and a deadline |
| rate limiter, `src/ratelimit.rs` | (label, client) -> two window counts | `check`, `cleanup_idle` | sliding window, same verdict in memory and in Redis |
| configuration, `src/config.rs` | read once | `load`, `validate`, `policy_for` | nothing unusable is ever served |
| process, `src/main.rs` | | start, cleanup task, shutdown | refuses to start on the wrong chain |
| paying client, `src/payclient.rs` | none (the wallet's) | `funding`, `check`, `build_payment`, `send` | pays once, by the cheapest path the order allows |
| demo console, `src/bin/x402-demo.rs` | `spent` under a mutex, `per_ip` | `send` (one task per visitor) | spends no more than its limits, tells visitors what happened to the money |
| command line, `src/bin/x402-pay.rs` | none | one payment per run | exits 0 when served |
| Envoy, compose file, scripts | | | timeouts, environment |

How they interact: Envoy opens an ext_proc stream or calls ext_authz; both run
`decide`, which calls the session store, the replay cache, the facilitator and
the limiter in that order and awaits each. The facilitator calls the fullnode
up to four times per verification and once more to broadcast. ext_proc asks the
breaker before `decide` and reports to it after settlement. POST /settle enters
at the facilitator and shares the replay cache. The cleanup task sweeps the
stores every minute. Everything shared is reached by concurrent tokio tasks.
With a Redis backend several replicas share sessions and claims, and nothing
else. The demo and the command line are clients of the gateway, through the
ext_proc filter that `envoy.yaml` puts in front of every route, and may pay from one
wallet. Envoy gives up on ext_proc after 5 s and answers for itself, while the
gateway's task goes on.

The hard behaviours are therefore: interleaving at every await; a claim whose
TTL runs while its holder is still waiting; the lost answer of a broadcast; a
process restart that forgets every claim; a clock read before a lock; a breaker
asked by requests that never report; a policy resolved by a path while a session
remembers a name; a script that ran and whose answer was lost; a deadline judged
by two clocks; a server that loses keys; a budget tested before and raised after
a payment. `PROJECT.json` lists each hazard at its line.

## 2. Modules

| module | models | used by |
|---|---|---|
| `Breaker` | `Window`, `state_at`, `record_at` as operators | `BreakerUse`, `Gateway` |
| `BreakerUse` | concurrent streams asking the breaker and reporting to it | `SettlementBreaker`; implemented by `Gateway` |
| `SettlementBreaker` | the same with the history its properties speak of | `SettlementBreakerProofs` |
| `ReplayCache` | `replay_ttl`, claim, release, sweep as operators | `Gateway` |
| `Gateway` | ext_proc streams, ext_authz checks and /settle calls over one replay cache, breaker and chain | `GatewayProofs` |
| `SingleUse` | abstract: a payment has one owner at a time and buys one session | refined by `Gateway` |
| `PaidSession`, `SessionStore` | a session; threads in `consume`'s compare-exchange loop | `SessionBackends`, `BackendProofs` |
| `RedisStore` | workers on several replicas over one Redis: sessions and claims | `SessionBackends`, `RedisProofs` |
| `SessionLedger` | abstract: a session is opened once, spent, closed, never extended | implemented by both stores |
| `SessionBackends` | the choice of a backend, and the two refinement mappings | `MCSessionStore`, `BackendProofs` |
| `RateLimiter` | one bucket, in memory and in Redis side by side | `LimiterProofs` |
| `PolicyTable` | `load`, `validate`, `apply_to`, `policy_for` as operators | `Startup`, `Storefront` |
| `Startup` | the operator, the deployment, `main` up to the servers | `MCStartup`, `PolicyProofs` |
| `Storefront` | `decide`'s tiers and ext_proc's response phase over several products | `MCStorefront`, `StorefrontProofs` |
| `Wallet` | the payer's funds, the choice of a path, both builders, as operators | `Console` |
| `Wire` | how ext_proc frames a decision, Envoy's own answer, and what a client concludes, as operators | `Console` |
| `Console` | the demo's `send` handlers and x402-pay, paying from one wallet | `MCConsole`, `ConsoleProofs` |

Conventions. An operator named `XYZ` with a capital spelling in the source
(`WINDOW`, `MIN_SAMPLES`) is that constant. The operators just above a definition
and marked *Mutant* are plausible mistakes in it; nothing in a specification
uses them. Variables marked *history* record what happened for the properties
and are never read by an action.

### Breaker, BreakerUse and SettlementBreaker

A window is `[outcomes, opened_at, probing]`, where `opened_at` is kept as the
time since it was set, saturated at the cooldown: the code compares the difference with the
cooldown and nothing else, so the model needs no bounded clock. `state_at` has a
verdict (`Verdict`) and an effect (`AfterState`): it claims the probe as it
answers. In `BreakerUse` a stream is `Admitted`, then `Reported` once or `Ended`
(upstream failed, payment refused, hang-up); `Asked` is the request that asks for
the state and carries no payment, `Restarted` a process that comes back with a new
breaker. `SettlementBreaker` has one action for each, which adds history variables
(run of failures, quiet time, probes, giveaways) and restricts nothing: no action
reads them. `Gateway` has the rest of the service around the same breaker and
implements `BreakerUse`.

### Gateway

Each surface has a program counter, `claim → verify → upstream → settle →
execute → settled | failed`, one step per await in the code; every step may
interleave with every other surface's. A broadcast (`Executions`)
executes and is answered, executes and the answer is lost, is on its way
(`limbo`, may land or die later), does not arrive, or aborts. A pinned payment is refused by
`assert_inputs_are_live` once executed; a gasless one is not. `held` counts how
long a surface has had its claim and `Tick` waits for a surface at `MaxHold`:
this is the bound "the TTL must outlive settlement latency" that a comment of
`claim_payment_at` states. The code relies on it without enforcing it: Envoy's
timeouts (5 s per ext_proc message, 10 s and 30 s per route) end a request, but
a settlement in a stream's task has no deadline of its own. `HoldAssumption`
makes it explicit.

### SessionStore, RedisStore, SessionLedger

`Load`, `Spend`, `Retry` and `Exhausted` are the atomic operations of `spend_one`,
which runs under a shard's read lock: the sweep needs the write lock, so it cannot
run while a thread is between `Load` and `Spend` (the second half of
`ServedAsBought`).

In `RedisStore` a worker is one request on one replica. Every script and the MULTI
of `create_session` is one step, because Redis runs it as one; a call can fail
before it ran, or run and lose its answer, and the caller sees the same error. A
key's TTL runs on the server (`Second`); the deadline in a token is compared with
the clock of the replica it is presented to (`SKEW`). `CrashReplica` ends the
requests of a replica, `LoseKeys` is eviction or a server restart: the shipped
Redis has no persistence and `allkeys-lru`. A worker that bought goes on through
verify, execute and mint, since `OneTokenPerPayment` and `FailedMintIsFinal` are
about claims and sessions together; the chain itself is Gateway's subject and here
only a set of payments that landed. "Several workers of one replica" needs no
separate case: workers share nothing but the server.

`SessionLedger` says what both promise: open fresh, serve or waste one request,
close. `SessionBackends` runs the backend chosen at start and maps both stores to it.

### RateLimiter

The limiter's clock reading (`Ask`) and its use (`CheckAt`) are separate steps, and
the subtraction wraps as a release build's does (`Sub`, `WORD`). Both backends run
side by side on the same requests.

### PolicyTable, Startup, Storefront

A configuration is a record; amounts are the numbers their strings parse to, and
prefixes are sequences of tokens. `Startup` takes it through load, environment,
validation, chain check and store connection. `Storefront` starts from a valid
configuration: a request (`Visits`) is resolved by path and policy name, sessions
keep the name, buckets the label. A phase of a request is one step there; the
interleavings inside the stores are what the other modules are for, and the
breaker and POST /settle, which only take payments away, are left out.

### Wallet, Wire, Console

A handler is `first → peek → clock → entry → lock → probe → build → send → upstream
→ answer`, one step per await of `send`; x402-pay skips the demo's controls. The
gateway is external here: it may refuse, verify, serve, fail or settle as the
other modules allow, in stub mode or against the chain. Both clients go through
ext_proc, which settles after the upstream served; the ext_authz filter is commented
out in `envoy.yaml`, and its framing is left out. Envoy may give up on ext_proc in
either phase (`CutWhileDeciding`, `CutWhileSettling`): the client gets a 5xx without
anything of the gateway's on it (`EnvoyReply`), and in the response phase the task
settles all the same. `payclient::send` takes that 5xx for an ordinary answer, and so
does the model; an answer that never arrives is the other branch of `Answer`. A
visitor may close the page at any await: axum drops the handler, the mutex is
released, and a payment that is with the gateway may still land (`limbo`, `Lands`). A
coin's value stands for its version, since only spending changes either. `Wire` keeps
of an answer what a client can tell apart: status, challenge, receipt, token, meters,
phases of Server-Timing, and (unseen by clients) who answered. The 5xx of Envoy's
router passes the filter like an upstream's and counts as one. Headers and bodies are
not spelled out.

## 3. Runs

| run | bounds | shows |
|---|---|---|
| `breaker` | shipped constants 20/5/30 s, 3 streams, 1 policy | open after five failures in a row and only while the last report was one, one probe per report, cooldown kept, at most 4 + streams responses unpaid, keeps reopening while the probe is given back |
| `gateway_deferred` | 2 streams, 1 payment and 1 without an id, 1 restart | one session per payment and only for money, no charge before delivery, a payment without an id buys nothing, releases only what is unspent, abandoned claims lapse |
| `gateway_surfaces` | 1 stream, 1 check, 1 caller with two timeouts, 1 payment, a sweep that keeps records for less than any TTL, 1 restart | exclusive use across surfaces and TTLs, closed payments stay claimed, refinement of `SingleUse` and of `BreakerUse` |
| `sessions` | memory: 2 threads, 2 sessions, 2 policies with quota 2 and 1; Redis: 2 replicas (one a second behind), 2 workers, 2 keys, 1 payment, claims of 2 s, 1 crash, 1 loss | exact accounting in both, a session ends on time whoever crashes and its token with it up to the replicas' clocks, one token per payment across replicas, a failed mint stays failed; the loop ends; both implement the ledger |
| `rate_limiter` | window 3 s, limit 3, 3 requests at a time with readings up to 1 s old, 15 s | cleanup invisible, bursts smoothed, windows never overfull, backends agree on timely readings |
| `startup_safety` | sound and unsound values of each setting, 1 policy, up to 2 routes, 6 answers of the node, Redis up or down, started by compose or by hand | nothing unusable is served, distinct prefixes may stand in any order, each policy credits the wallet chosen for it |
| `storefront` | 2 products by policy name and by prefix, 4 payments (honest, split, short in another coin, taken from the payee), a default price too large to be paid, 5 kinds of request, 2 streams | sessions stay with what they bought, at its price, allowances are not shared |
| `console` | 2 visitors at one address, x402-pay, one target below and one at the gasless floor, `max_plays` 1, 1 play an hour, 1 coin, 1 payment in limbo at a time; the turn of an hour or one run of x402-pay | spend limits, what is counted and shown is what happened to the money, payments distinct, every /send returns |

Why the bounds are enough. One payment suffices for the gateway properties: they speak
of one payment at a time, and payments share only the breaker. Two or three surfaces
give every pair a conflict. Gateway's times (`FLOOR` 4 or 5, TTL up to 6, hold 2) keep
the order of the real ones (a floor of 300 s, requests of at most 30 s); in
`gateway_surfaces` `RETENTION` 4 lies below both TTLs (5 and 6), as a short session
duration makes it, and above the hold; and ages saturate at `HORIZON`, so its clock is
unbounded. The breaker runs with the real constants. The limiter's clock is bounded
(`MAX_NOW`), three windows after the start, so that a bucket of the first one can be
cleaned up; the run ends there, which is why it does not check for deadlock. A reading a
second old is what a wait of less than a second for the lock amounts to. With `MAX_LAG =
2` `CleanupTransparent` fails: a request that waits two seconds and then meets a bucket
that was just dropped is judged without the count it would have carried over.
`BurstSmoothed` still holds with 2 and fails with 3. `U128 = 16` and `I128 = 8` keep the
factor of two between the widths. A Redis claim of 2 s with requests of at most 1 s
keeps the order of the real ones (`RedisAssumption`), and one crash and one loss suffice
for properties about one payment or one session; two keys let a second session be sold
for what a first one cost. In `console` a budget of one play makes every second payer a
competitor for the last one; an hour's turn and the command line do not meet in one
behaviour, because x402-pay reads neither the clock nor `per_ip`. Symmetry is used on
the storefront's streams only.

Fairness. The breaker: time passes, a stream that got past the check ends in some
way, and clients keep offering payments; the property is conditional on the probe
being returned because the code does not guarantee that. Gateway: every surface
takes its next step (tokio keeps polling tasks; calls to the node end in an answer
or an error) and time passes (strong fairness, as `Tick` is disabled while a
surface is at its limit). Sessions: a thread inside `consume` is scheduled.
Console: every call of a handler is answered, fails or is cut off by Envoy's route
timeout (weak fairness of `SendStep`; the client itself sets no timeout, so this
rests on the gateway being reachable through Envoy; that the fullnode answers or fails
the calls of `probe` and `build`, which pass no Envoy, is an assumption and nothing
else), and tokio's mutex is handed
over in the order it was asked for (strong fairness of `Peek` and `TakeLock`).
Nothing makes a visitor leave or a payment in limbo land. No fairness is assumed
of clients, sweeps, restarts or the chain.

## 4. Where the code and its documentation differ

Four runs state a sentence of the documentation and TLC refutes it; the details
are under `findings` in `PROJECT.json`.

- `breaker_stuck_probe`: the probe can be claimed by a request that will never
  report; the policy then takes no payments until a restart.
- `gateway_api_release`: /settle gives back a claim although the transaction
  may have executed.
- `rate_reset`: a clock reading older than the entry underflows `reset_secs`.
- `storefront_cross_route`: with products told apart by path prefix only, a
  session of the cheap one serves the dear one. (In `storefront` at most one
  request kind has no policy name, and the property holds.)

Others are written into a property as an exception, or show when a configuration
is changed as said.

Payments:
- `BreakerStuckProbe.cfg` with `INVARIANT ProbeInFlightIsMarked`: the late report
  of an older stream clears the mark of a probe in flight (`breaker.rs:81`).
- "Opens past a 50% failure rate over at least five samples"
  (`docs/settlement-failure.md:34`, likewise `breaker.rs:16,40`) is not
  what happens: a success clears the window (`Breaker!RecordSuccess`), so the rate over
  what is left is always 100%. After two failures, a success and three failures, five
  of six, the breaker is still closed. `TripsOnRun` therefore only says what document
  and code agree on: five failures in a row open it, and it is open only while the last
  report was a failure.
- `GatewaySurfaces.cfg` with `Pinned = {}`, `INVARIANT OneSessionEver`: a payment
  that pins no object can buy again after its claim lapsed, if the node answers a
  repeated execution with the recorded effects and simulation lets it pass (both
  external, both assumed).
- `GatewaySurfaces.cfg` with `MULTIPLIER = 2`, `MAX_TIMEOUT = 5`, `RETENTION` and
  `HORIZON` 10, `PROPERTY BlockedForItsWindow`: `decide` means to keep a payment blocked
  beyond the window it was advertised for, but a /settle caller's own, shorter timeout
  decides how long everybody's claim counts (`facilitator_api.rs:238`).
- `GatewayDeferred.cfg` with `RETENTION = 3`, `PROPERTY SweepKeepsLiveClaims`: a
  session duration below the claim TTL makes the sweep remove live claims
  (`main.rs:141`, against the comment at `session.rs:243`).
- In stub mode a payment without an id is accepted (`x402.rs:756`):
  `UnidentifiedIsRefused` speaks of the other mode only.
- `SessionStore.cfg`, `OneTokenPerPayment` without `losses = 0`: a claim the shipped
  Redis evicts or forgets (`docker-compose.yml:118`, `docs/spec-gaps.md:69`) lets two
  requests work on one payment.

Configuration:
- The compose file says "Unset means gRPC credits the default wallet"
  (`docker-compose.yml:66-69`). An unset `X402_PAY_TO_GRPC` reaches the process as an
  empty address, which overrides the file (`config.rs:491`), and validation refuses it:
  the service does not start. `CreditsTheChosenWallet` shows that this refusal is all
  that keeps payments from being credited to nobody.
- `StartupSafety.cfg` with `INVARIANT TermsMatchTheNode`: the chain check exists because
  "terms advertising `sui:mainnet` served by a testnet node means real service sold for
  worthless testnet funds" (`sui.rs:421-424`, likewise `config.rs:402`), but it compares
  `sui_chain` with the node and `payment.network` with neither. With `sui_chain` testnet,
  a testnet node and `payment.network` `sui:mainnet` the service starts.
- `FileOrderIrrelevant` fails for a file with one prefix twice: file order decides
  (`config.rs:653`). `MCFiles` has distinct prefixes.
- A price from 2^127 on is validated as u128 and compared as i128 (`config.rs:509`):
  it cannot be paid. `storefront` has such a default price and `SoldAtItsPrice` shows
  that nothing is sold for less because of it.

Clients:
- `CeilingHolds` allows for `unseen`: payments whose answer was lost, whose visitor
  left, or which Envoy's own answer stood in for, are not counted towards what
  `x402-demo.rs:63` calls a hard ceiling.
- `ShownIsTrue` allows for answers without the gateway's timing. Envoy gives the
  response phase 5 s and fails closed (`envoy.yaml:327,339`); if the gateway is then
  settling, the console shows "SKIPPED — upstream did not return 2xx, so nothing was
  charged" (`x402-demo.rs:348-356`), and the spawned task goes on to charge. Without
  `\/ r.timing = {}` TLC refutes the property.
- `HourlyAllowance` is a bound above `plays_per_ip_hourly` (`x402-demo.rs:71`): a handler
  that read the clock before the hour turned resets the entry of one that read it after
  (`x402-demo.rs:565`). Each handler of an address can add one request and one fresh
  allowance, and no more; with `Handlers(ip) = 2` and an allowance of one the run lets
  through more than one request in an hour.
- `PaymentsDistinct` excepts the coin path of x402-pay: it and the demo may pin the
  same coin of one wallet.
- A status is no sign of service for x402-pay: the breaker's refusal on the gRPC paths
  is a trailers-only 200 (`ext_proc.rs:198-208`), on which it exits 0
  (`x402-pay.rs:167`), as it does on every first answer but a 402. `ShownIsTrue` says
  what is still true then: no money goes with such an answer.
- Read off the model, not stated as properties: `check` says a path is usable
  where the builder then fails, for coins that suffice only together and a wallet
  without SUI (`payclient.rs:195`), and no other path is tried; all visitors share
  the demo's address at the gateway, hence one free allowance; a free target is
  charged for once that allowance is used up; a gateway that never answers blocks
  every /send, as the mutex is held meanwhile.

## 5. Proofs

All theorems hold for every value of the constants that satisfies the named
assumptions, which TLC evaluates in the runs.

`SettlementBreakerProofs` (assumes `BreakerAssumption`: positive constants and
`MIN_SAMPLES <= WINDOW`; finitely many streams): `TypeCorrect`, `RunTrips`,
`OneProbe`, `LossBounded`, `CooldownRespected`. None of the properties is
inductive alone. The invariant adds that a window only ever holds failures and is
open exactly when it holds enough of them (`WindowInv`), ties the window to the
history of reports (`HistoryInv`: run of failures, probes, quiet time), and
bounds, while a policy is open, giveaways plus streams in flight (`LossInv`): a
stream past the check can turn into at most one giveaway, and the sum, not the
count, is what the steps preserve. All of it is per process: a restart begins the
breaker and its history anew. `GatewayImplementsBreakerUse` (below) carries these
results over to the service.

`GatewayProofs` (assumes `HoldAssumption`, disjoint surfaces, and that saturated
ages still tell every TTL apart): `GatewayTypeCorrect`, `PaymentsExclusive`,
`SoldOnce`, `ClosedBlocks`, `OpaqueRefused`. Exclusive holding is not inductive: a
claim can lapse. The strengthening `HoldInv` says that the record of a held
payment is exactly as old as its holder has held it, hence younger than the
shortest TTL; `ClaimFresh` therefore cannot succeed for a second surface.
`SoldInv` relates sessions to the chain (a surface about to execute a pinned
payment has found it unspent, so nothing was sold for it), and `ClosedInv` bounds
the record's age after an attempt that kept its claim. A payment without an id is
held by any number of surfaces at once; `OpaqueInv` keeps each of them before the
upstream. There is one lemma per kind of step (claim, release, close, mint, sweep,
age, restart) and one per surface.

The same invariant carries the refinement and the action properties:

- `GatewayImplementsSingleUse` (hypothesis: not in stub mode): every step maps to one
  of `SingleUse`, an acquisition, a sale, a return, a restart, or to nothing. `HoldInv`
  makes the owner of a payment a function of the state, `SoldInv` is the guard of a sale.
- `DeliveredBeforeCharged` (only streams; with a check or a caller the property is false
  by design, they settle first): whoever is at `settle` or later has had a 2xx.
- `ReleasedUnspent` (no /settle callers; with one it is the violated run
  `gateway_api_release`): a surface that has broadcast has only the outcome left
  (`SentInv`), and no outcome of a stream or a check releases.
- `SweepTakesLapsed` (`RETENTION >= ReplayTtl(MAX_TIMEOUT)`): the sweep's `<` and the
  claim's `>=` leave no gap even where the two are equal. (`SweepKeepsLiveClaims`, which
  it states, is part of no run.)
- `GatewayImplementsBreakerUse` (no hypothesis): whatever checks, callers, sweeps and the
  chain do meanwhile, the breaker moves only as `BreakerUse` says. A stream has a label
  exactly while it is past the breaker (`LabelInv`), so `holder[h].policy` is the
  abstract `req`. Every step is first reduced to what it does to the windows and the
  labels (`UseStep`), and this to an action of `BreakerUse` or a stutter
  (`UseStepIsUse`); `SameBreaker` says that the instance's operators are Gateway's own.
  Since `SettlementBreaker` only adds history to `BreakerUse`, its theorems hold of the
  breaker inside the service: a settlement on another surface, or one reported under
  another policy, never enters the count.

`PolicyProofs` (`StartupAssumption`: what the operator writes are files with a sequence
of routes and exports with the variables `main` reads): `ApplyKeepsValid`,
`ValidResolves`, `RunningIsSound`, `WalletIsTheChosenOne` and `OrderIsIrrelevant`.
`validate` checks every layer alone; `ValidResolves` shows that this is enough for
whatever `policy_for` combines, and the inductive invariant `ServesValid` that only a
validated configuration is ever served. `WalletIsTheChosenOne` needs besides that what
is served is what the file and the environment of its start load to
(`ServesWhatItLoaded`), and rests on `NothingWasEmpty`: the empty address is no usable
one (`StartupAssumption`), so a configuration that passed `validate` took no wallet from
a variable compose made up. `OrderIsIrrelevant` has the hypothesis `PrefixesDistinct`.
It is needed, and `validate` does not establish it: of two routes with one prefix
`max_by_key` takes the one that stands last. Given it, two longest matches of a path are
equal (`SamePrefix`), so the choice is the same from either end.

`RedisProofs` (assumes `TierAssumption` and `RedisAssumption`; the part that matters
is `MaxWork < CLAIM_TTL`, the claim outlives the work on a payment):
`DeductionsCounted`, `SessionsEndOnTime`, `TokensSingleUse`, `FailedMintsStayFailed`.
`TokenInv`, for the second half of `SessionsEndOnTime`, says of every token given out that
its deadline is the key's end by the clock of some replica, which no tick, use or crash
changes. `StoreInv` accounts for each key: unused until drawn, then alive, with life plus age
equal to its duration and its quota explained by answered and unanswered requests.
`ClaimInv` ties claims to requests while no key was lost: the TTL left on the claim of
a payment being worked on plus the time it has been worked on is exactly `CLAIM_TTL`,
hence the claim still stands and nobody else is granted it, and a payment past
re-verification has bought nothing yet. `FailedMintIsFinal` is a temporal formula:
`Wasted` (landed, nothing bought, nobody past re-verification with it) is stable.

`BackendProofs`, the memory store (assumes `TierAssumption`: positive quotas and
durations): `SessionTypeCorrect` and `SessionsServeAsBought`. A thread that is about to
exchange a counter must still have a session of its own policy under it (`SpendInv`, which
the sweep respects because it waits for the shard's readers), and an id that was not given
out has served nothing (`FreshInv`); with both, the accounting is preserved by an exchange
that succeeds and untouched by everything else.

`BackendProofs`, both stores (assumes also `BookedAssumption`, that "no session" is not a
session): `LedgerKept`, the refinement `ImplementsLedger`. Every step of either store maps
to an opening, a request served or wasted, a closing (the sweep, a restart, expiry, lost
keys), or leaves the ledger as it is; `SInv` and the `RInv` of `RedisProofs` provide the
guards.

`LimiterProofs` (assumes `LimiterAssumption`): `LimiterTypeCorrect`, `WindowsHold`,
`CleanupHarmless`, `BackendsAgree` and `BurstsSmoothed`. `CleanupHarmless` has the hypothesis
`MAX_LAG <= 1`; `Same` says that a dropped bucket is so old that any reading of this second
or the last would roll it over to an empty one. The hypothesis is needed: see the
`rate_limiter` bounds. `BackendsAgree` needs none, since `RedisAgrees` only speaks of
states in which no late reading was counted. `Mirrors` says how the two stores
correspond: the Redis counters of the bucket's two windows are its two counts, later
counters are zero, and without a bucket no counter is recent enough to count;
`CountersLast` that no counter expires before its window stops counting. Rolling over,
counting, expiring and cleaning up each keep the correspondence. `BurstsSmoothed` has
the hypothesis `MAX_LAG <= 2`, which is tight: TLC refutes the property with 3. The
admissions of the last seconds are kept cumulatively (`recent[d]` counts the last `d`), so
no sum has to be unfolded. `Smooth` relates them to the bucket, for every span: `Filled`
says how full the bucket can be once it weighs the previous window, `Counted` which of the
two counts the admissions of a span are part of, and what is left of them after a
rollover, a cleanup or a reading from before the bucket's window.

`StorefrontProofs` (assumes `NoPayAssumption`, that "nothing" is neither a payment nor a
request nor what one resolves to): for every policy table, set of requests and payments.
A session does not remember its price and a bucket does not remember its entry, so the
invariant says where they came from (`SaleInv`): a live session is the one some
request's entry sells, to a payment that is spent and was credited at that entry's
price; what is spent does not verify again. `PricesHold` follows without a hypothesis.
`SessionsKeepToTheirEntry` needs `NamesDecide`: requests with the same policy name
resolve to the same entry. `NamesDecideWhen` gives two ways to configure that (every
request carries a name the file defines, or there are no routes); a table in between is
the violated run `storefront_cross_route`. `AllowancesAreOwn` needs `LabelsDistinct`: no
prefix is also a policy's name, and neither is the default's label. The passing run's
table satisfies both hypotheses.

`ConsoleProofs` (assumes `ConsoleAssumption`: finitely many visitors, and a wallet with
an address balance, a coin and gas): `SpentCountsMoney`, `BudgetHolds`,
`DistinctInFlight`, `ShownHolds`, `AllowanceHolds`, for any number of visitors, any
prices, budget and funds, and any number of runs of x402-pay. That `spent` counts money
is not inductive: `CInv` adds that whoever is past the budget check holds the mutex and
has room in the budget (`OnePays`), that a pending gasless payment shares its nonce with
no other transaction anybody has (`NoncesFresh`), that a payment which has executed
cannot execute again, because the gas it was pinned to is spent or it has left limbo
(`ExecutesOnce`), and what a handler's last answer implies about the chain (`Told`).
Every step of a visitor and of x402-pay is an instance of one lemma about an exchange
that moves (`StepOf`). `HourInv`, for `AllowanceHolds`, counts the handlers of an
address that cannot reset the entry of this hour any more (`Fresh`: they have read no
earlier hour that they still have to apply). What this hour let through, plus one
allowance, is at most the fresh handlers' share and what the entry counts: a reset takes
the count away and makes one more handler fresh, and a handler becomes stale again only
when the hour turns, with a count of zero. `NoncesFresh` is why `Nonce` is a `CHOOSE`
over the unused numbers: the 32 random bits are any number not in use, and the proof
uses nothing else of them.

What the configuration proofs and the storefront's say together: `Storefront` assumes of
its table what `validate` checks (`ConfigAssumption`), `RunningIsSound` is that nothing else
is ever served, and `ValidResolves` that every entry `policy_for` can combine from such a
table has usable terms. With `PricesHold`, a started service sells at validated terms only.

Only model-checked: the liveness properties `ReopensUnlessProbeIsStuck`, `ClaimsLapse`,
`ConsumeReturns` and `SendReturns`, since fairness is outside the prover's reach. Every other
property of a passing run is a theorem.
The type invariants of the breaker, the gateway, the sessions and the limiter are the other
way round: proved, and part of no run.

## 6. Not modelled

- The token codec's cryptography. `Present` and `Presents` take its result and its
  deadline.
- The framing of the ext_authz surface (`decision_to_response`); its order of claim,
  settlement and session is Gateway's `Checks` and Storefront's `SettleAtOnce`.
- Two conversions are taken as exact: `ttl_secs as i64` (`session.rs:499`), the identity
  below 2^63 seconds, and the `f64` arithmetic of the limiter's estimate
  (`ratelimit.rs:199-200`), integers in the model.
- Rendering: the text of challenges, receipts, meters and pages. `Wire` keeps which of
  them an answer carries.
- The signature check and the simulation inside the node, beyond what they answer.
- `asset_decimals`, the gasless-floor warning, YAML syntax, /64 bucketing of client
  addresses.
- The demo's other routes, which read and change nothing, and the sponsored payment
  path, which `check` never offers.
- Metrics, listeners, signals: I/O.

## 7. What is left

Of the safety properties, nothing within these models. Further work would be on the models:
the token codec's deadline as its own module, several buckets of the limiter at once, and
the demo's session tokens across visitors.
