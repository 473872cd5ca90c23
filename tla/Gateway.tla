------------------------------- MODULE Gateway -------------------------------
(***************************************************************************)
(* The life of a payment through the whole service: every surface that can *)
(* spend one, the replay cache they share, the breaker, and the chain.     *)
(*                                                                         *)
(*   Streams  ext_proc streams (src/src/ext_proc.rs): claim and verify on  *)
(*            the request, settle on the response once the upstream served *)
(*   Checks   ext_authz calls (src/src/auth.rs, SettlePolicy::Immediate):  *)
(*            claim, verify and settle before the upstream                 *)
(*   Callers  POST /settle of the facilitator API                          *)
(*            (src/src/facilitator_api.rs)                                 *)
(*                                                                         *)
(* A surface awaits a store or a fullnode between its steps, so every step *)
(* below may interleave with every other surface's.  The store is the      *)
(* in-memory one of a single replica.  What a session is worth once minted *)
(* is SessionStore's subject; here a payment's sessions are counted.       *)
(***************************************************************************)
EXTENDS Breaker, ReplayCache

CONSTANTS
    Policies,       \* policy labels
    Payments,       \* signed transactions, by their bytes
    Streams, Checks, Callers,
    None,
    MAX_TIMEOUT,    \* maxTimeoutSeconds the policies advertise
    ApiTimeouts,    \* maxTimeoutSeconds a /settle caller may put in its request
    MaxHold,        \* longest a surface works on one claimed payment
    StubMode,       \* VerificationMode::StubAcceptAll
    Opaque,         \* payments x402::payment_id yields None for
    Pinned,         \* payments that pin an object; a gasless one pins none
    BadTerms,       \* payments that do not meet the terms (check_terms)
    MaxBoots        \* bound on process restarts

Holders == Streams \cup Checks \cup Callers

\* "the TTL must outlive settlement latency" (the comment in claim_payment_at).
\* The code relies on this and does not enforce it: Envoy's timeouts (5 s and
\* 30 s) end the request, but a stream's settlement runs on without a deadline.
ASSUME HoldAssumption ==
    /\ MaxHold \in Nat
    /\ MaxHold < FLOOR
    /\ MaxHold < RETENTION

ASSUME SurfacesAssumption ==
    /\ Streams \cap Checks = {}
    /\ Streams \cap Callers = {}
    /\ Checks \cap Callers = {}
    /\ None \notin Holders
    /\ None \notin Payments
    /\ None \notin Policies

ASSUME GatewayAssumption ==
    /\ MAX_TIMEOUT \in Nat
    /\ ApiTimeouts \subseteq Nat
    /\ StubMode \in BOOLEAN
    /\ Opaque \subseteq Payments
    /\ Pinned \subseteq Payments
    /\ BadTerms \subseteq Payments
    /\ MaxBoots \in Nat
    \* Saturated ages still tell every TTL apart.
    /\ \A t \in ApiTimeouts \cup {MAX_TIMEOUT} : ReplayTtl(t) <= HORIZON

VARIABLES
    window,       \* policy -> breaker Window
    claims,       \* payment -> its entry in seen_payments
    chain,        \* payment -> what the chain holds of it (external)
    holder,       \* surface -> the attempt it is making
    boots,        \* process restarts so far
    minted,       \* payment -> sessions created from it (to 2)
    \* History, read by the properties only:
    delivered,    \* payments some upstream answered 2xx for
    closed        \* payment -> seconds since an attempt to settle it ended
                  \* with the claim kept

vars == <<window, claims, chain, holder, boots, minted, delivered, closed>>

\* One request's local state: the payment, the policy label, the TTL it
\* claims with, the seconds since it was granted, and whether it has broadcast.
IdleAttempt ==
    [pc |-> "idle", pay |-> None, policy |-> None, ttl |-> 0, held |-> 0,
     sent |-> "no"]

\* Steps at which a surface is working on a payment it has been granted.
Working == {"verify", "upstream", "settle", "execute", "settled", "failed"}

Holds(h, p) == holder[h].pc \in Working /\ holder[h].pay = p

Become(h, pc) == holder' = [holder EXCEPT ![h].pc = pc]
Leave(h) == holder' = [holder EXCEPT ![h] = IdleAttempt]

\* x402::payment_id is Some.
Identified == Payments \ Opaque

Init ==
    /\ window = [q \in Policies |-> NewWindow]
    /\ claims = [p \in Payments |-> NoClaim]
    /\ chain = [p \in Payments |-> "live"]
    /\ holder = [h \in Holders |-> IdleAttempt]
    /\ boots = 0
    /\ minted = [p \in Payments |-> 0]
    /\ delivered = {}
    /\ closed = [p \in Payments |-> NoClaim]

-----------------------------------------------------------------------------
(* Requests arriving *)

\* handle_request_headers without a payment-signature header: the breaker is
\* asked all the same, then `decide` serves from a session or the free tier.
RequestWithoutPayment(q) ==
    /\ window' = [window EXCEPT ![q] = AfterState(@)]
    /\ UNCHANGED <<claims, chain, holder, boots, minted, delivered, closed>>

\* A paying stream the breaker refuses: settlement_unavailable (503).
RefuseAtBreaker(h, q) ==
    /\ holder[h].pc = "idle"
    /\ ~AcceptsPayment(Verdict(window[q]))
    /\ window' = [window EXCEPT ![q] = AfterState(@)]
    /\ UNCHANGED <<claims, chain, holder, boots, minted, delivered, closed>>

\* A paying stream it lets through into `decide`, which may still serve it from
\* a session it also carries or find its header malformed (`Abandon`).
BeginStream(h, p, q) ==
    /\ holder[h].pc = "idle"
    /\ AcceptsPayment(Verdict(window[q]))
    /\ window' = [window EXCEPT ![q] = AfterState(@)]
    /\ holder' = [holder EXCEPT ![h] =
                    [pc |-> "claim", pay |-> p, policy |-> q,
                     ttl |-> ReplayTtl(MAX_TIMEOUT), held |-> 0, sent |-> "no"]]
    /\ UNCHANGED <<claims, chain, boots, minted, delivered, closed>>

\* An ext_authz check: `decide` without a breaker in front of it.
BeginCheck(h, p, q) ==
    /\ holder[h].pc = "idle"
    /\ holder' = [holder EXCEPT ![h] =
                    [pc |-> "claim", pay |-> p, policy |-> q,
                     ttl |-> ReplayTtl(MAX_TIMEOUT), held |-> 0, sent |-> "no"]]
    /\ UNCHANGED <<window, claims, chain, boots, minted, delivered, closed>>

\* POST /settle: the requirements, and with them the TTL, are the caller's.
BeginSettle(h, p, t) ==
    /\ holder[h].pc = "idle"
    /\ holder' = [holder EXCEPT ![h] =
                    [pc |-> "claim", pay |-> p, policy |-> None,
                     ttl |-> ReplayTtl(t), held |-> 0, sent |-> "no"]]
    /\ UNCHANGED <<window, claims, chain, boots, minted, delivered, closed>>

\* Served from a session, or malformed: nothing is claimed, nothing recorded.
\* A /settle whose version is wrong (check_version) and a claim the store
\* cannot answer (PaymentClaim::Backend) end here too.
Abandon(h) ==
    /\ holder[h].pc = "claim"
    /\ Leave(h)
    /\ UNCHANGED <<window, claims, chain, boots, minted, delivered, closed>>

-----------------------------------------------------------------------------
(* Claiming *)

\* Where a granted payment goes next: a stream verifies and waits for the
\* upstream, the other two settle at once.
Granted(h) == IF h \in Streams THEN "verify" ELSE "settle"

\* claim_payment answers Fresh.
ClaimFresh(h) ==
    /\ holder[h].pc = "claim"
    /\ holder[h].pay \in Identified
    /\ IsFresh(claims[holder[h].pay], holder[h].ttl)
    /\ claims' = [claims EXCEPT ![holder[h].pay] = AfterClaim(@)]
    /\ Become(h, Granted(h))
    /\ UNCHANGED <<window, chain, boots, minted, delivered, closed>>

\* payment_id is None: there is nothing to claim and the attempt goes on.
SkipClaim(h) ==
    /\ holder[h].pc = "claim"
    /\ holder[h].pay \in Opaque
    /\ Become(h, Granted(h))
    /\ UNCHANGED <<window, claims, chain, boots, minted, delivered, closed>>

\* Mutant: a refused replay renews the record it was refused by.
ClaimReplayedRenewing(h) ==
    /\ holder[h].pc = "claim"
    /\ holder[h].pay \in Identified
    /\ ~IsFresh(claims[holder[h].pay], holder[h].ttl)
    /\ claims' = [claims EXCEPT ![holder[h].pay] = 0]
    /\ Leave(h)
    /\ UNCHANGED <<window, chain, boots, minted, delivered, closed>>

\* claim_payment answers Replay: refused, whether it is reported as a replay or
\* as an expired authorization.
ClaimReplayed(h) ==
    /\ holder[h].pc = "claim"
    /\ holder[h].pay \in Identified
    /\ ~IsFresh(claims[holder[h].pay], holder[h].ttl)
    /\ Leave(h)
    /\ UNCHANGED <<window, claims, chain, boots, minted, delivered, closed>>

-----------------------------------------------------------------------------
(* Verifying *)

\* assert_inputs_are_live: the fullnode still sees every pinned object at its
\* pinned version; nothing is asked about a payment that pins none.
InputsAreLive(p) == p \in Pinned => chain[p] \in {"live", "limbo"}

\* Mutant: the bytes of a payment are taken on trust.
SuiVerifiesBlindly(p) == InputsAreLive(p)

\* SuiVerifier::verify can answer Ok: the bytes decode and the inputs are live.
SuiVerifies(p) == p \notin Opaque /\ InputsAreLive(p)

\* Facilitator::verify can answer Ok: the terms match and, outside stub mode,
\* the Sui verifier agrees.
CanVerify(p) == p \notin BadTerms /\ (StubMode \/ SuiVerifies(p))

\* ... and Err: bad terms, or a refusal or RPC error of the fullnode.
CanReject(p) == p \in BadTerms \/ ~StubMode

\* A stream's verification on the request path: the pending payment.
VerifyOk(h) ==
    /\ holder[h].pc = "verify"
    /\ CanVerify(holder[h].pay)
    /\ Become(h, "upstream")
    /\ UNCHANGED <<window, claims, chain, boots, minted, delivered, closed>>

\* Denied; the claim stays.
VerifyRejected(h) ==
    /\ holder[h].pc = "verify"
    /\ CanReject(holder[h].pay)
    /\ Leave(h)
    /\ UNCHANGED <<window, claims, chain, boots, minted, delivered, closed>>

-----------------------------------------------------------------------------
(* The response phase of a stream *)

\* Mutant: any response settles the pending payment.
UpstreamFailedSettling(h) ==
    /\ holder[h].pc = "upstream"
    /\ Become(h, "settle")
    /\ UNCHANGED <<window, claims, chain, boots, minted, delivered, closed>>

\* Not 2xx: discarded unsettled and released, if it had an id to claim.
UpstreamFailed(h) ==
    /\ holder[h].pc = "upstream"
    /\ claims' = IF holder[h].pay \in Identified
                 THEN [claims EXCEPT ![holder[h].pay] = AfterRelease(@)]
                 ELSE claims
    /\ Leave(h)
    /\ UNCHANGED <<window, chain, boots, minted, delivered, closed>>

UpstreamOk(h) ==
    /\ holder[h].pc = "upstream"
    /\ Become(h, "settle")
    /\ delivered' = delivered \cup {holder[h].pay}
    /\ UNCHANGED <<window, claims, chain, boots, minted, closed>>

\* Envoy closes the stream before any response: `process` ends, pending is
\* dropped with it, and nobody releases the claim or tells the breaker.
HangUp(h) ==
    /\ holder[h].pc = "upstream"
    /\ Leave(h)
    /\ UNCHANGED <<window, claims, chain, boots, minted, delivered, closed>>

-----------------------------------------------------------------------------
(* Facilitator::settle: check the terms, verify again, broadcast *)

SettleVerified(h) ==
    /\ holder[h].pc = "settle"
    /\ CanVerify(holder[h].pay)
    /\ Become(h, IF StubMode THEN "settled" ELSE "execute")
    /\ UNCHANGED <<window, claims, chain, boots, minted, delivered, closed>>

SettleRejected(h) ==
    /\ holder[h].pc = "settle"
    /\ CanReject(holder[h].pay)
    /\ Become(h, "failed")
    /\ UNCHANGED <<window, claims, chain, boots, minted, delivered, closed>>

\* What ExecuteTransaction may do to the chain and answer.  An executed
\* transaction is answered again with the same effects; any answer may be lost
\* on the way back, with the transaction executed, on its way, or neither; and
\* one that executes and aborts has used up its inputs.
Executions(c) ==
    CASE c \in {"live", "limbo"} ->
           {<<"landed", "settled">>, <<"landed", "failed">>,
            <<"limbo", "failed">>, <<c, "failed">>, <<"dead", "failed">>}
      [] c = "landed" -> {<<"landed", "settled">>, <<"landed", "failed">>}
      [] c = "dead" -> {<<"dead", "failed">>}

\* SuiVerifier::settle
Execute(h) ==
    /\ holder[h].pc = "execute"
    /\ \E x \in Executions(chain[holder[h].pay]) :
          /\ chain' = [chain EXCEPT ![holder[h].pay] = x[1]]
          /\ holder' = [holder EXCEPT ![h].pc = x[2], ![h].sent = "yes"]
    /\ UNCHANGED <<window, claims, boots, minted, delivered, closed>>

-----------------------------------------------------------------------------
(* What each surface does with the outcome *)

Fewer(a, b) == IF a < b THEN a ELSE b

\* create_session succeeds, or the store refuses and the request is served
\* without a token.
MayMint(p) ==
    \/ minted' = [minted EXCEPT ![p] = Fewer(@ + 1, 2)]
    \/ UNCHANGED minted

Close(p) == closed' = [closed EXCEPT ![p] = 0]

\* handle_response_headers, Ok: record_success, then create_session.
StreamSettled(h) ==
    /\ holder[h].pc = "settled"
    /\ window' = [window EXCEPT ![holder[h].policy] = Record(@, FALSE)]
    /\ MayMint(holder[h].pay)
    /\ Close(holder[h].pay)
    /\ Leave(h)
    /\ UNCHANGED <<claims, chain, boots, delivered>>

\* `decide`, Immediate, Ok.
CheckSettled(h) ==
    /\ holder[h].pc = "settled"
    /\ MayMint(holder[h].pay)
    /\ Close(holder[h].pay)
    /\ Leave(h)
    /\ UNCHANGED <<window, claims, chain, boots, delivered>>

\* /settle, Ok: a receipt and no session.
CallerSettled(h) ==
    /\ holder[h].pc = "settled"
    /\ Close(holder[h].pay)
    /\ Leave(h)
    /\ UNCHANGED <<window, claims, chain, boots, minted, delivered>>

\* Mutant: a failed settlement frees the authorization for another try.
StreamFailedReleasing(h) ==
    /\ holder[h].pc = "failed"
    /\ window' = [window EXCEPT ![holder[h].policy] = Record(@, TRUE)]
    /\ claims' = [claims EXCEPT ![holder[h].pay] = AfterRelease(@)]
    /\ Close(holder[h].pay)
    /\ Leave(h)
    /\ UNCHANGED <<chain, boots, minted, delivered>>

\* handle_response_headers, Err: served and not paid for; record_failure, and
\* the claim is kept.
StreamFailed(h) ==
    /\ holder[h].pc = "failed"
    /\ window' = [window EXCEPT ![holder[h].policy] = Record(@, TRUE)]
    /\ Close(holder[h].pay)
    /\ Leave(h)
    /\ UNCHANGED <<claims, chain, boots, minted, delivered>>

\* Mutant: every failed settlement is reported to the breaker, a denied one too.
CheckFailedReporting(h) ==
    /\ holder[h].pc = "failed"
    /\ window' = [window EXCEPT ![holder[h].policy] = Record(@, TRUE)]
    /\ Close(holder[h].pay)
    /\ Leave(h)
    /\ UNCHANGED <<claims, chain, boots, minted, delivered>>

\* `decide`, Immediate, Err: denied, the claim is kept.
CheckFailed(h) ==
    /\ holder[h].pc = "failed"
    /\ Close(holder[h].pay)
    /\ Leave(h)
    /\ UNCHANGED <<window, claims, chain, boots, minted, delivered>>

\* /settle, Err: released, if it had an id.
CallerFailed(h) ==
    /\ holder[h].pc = "failed"
    /\ claims' = IF holder[h].pay \in Identified
                 THEN [claims EXCEPT ![holder[h].pay] = AfterRelease(@)]
                 ELSE claims
    /\ Leave(h)
    /\ UNCHANGED <<window, chain, boots, minted, delivered, closed>>

\* A unary handler's future is dropped at an await when its client goes away;
\* a broadcast already under way may or may not reach the network.  (A
\* stream's handler runs in a task of its own and finishes.)
CallerGone(h) ==
    /\ holder[h].pc \in {"settle", "execute"}
    /\ \/ UNCHANGED chain
       \/ /\ holder[h].pc = "execute"
          /\ chain[holder[h].pay] = "live"
          /\ chain' = [chain EXCEPT ![holder[h].pay] = "limbo"]
    /\ Leave(h)
    /\ UNCHANGED <<window, claims, boots, minted, delivered, closed>>

-----------------------------------------------------------------------------
(* Background and environment *)

\* The cleanup task's pass over one replay record.
Sweep(p) ==
    /\ claims[p] # AfterSweep(claims[p])
    /\ claims' = [claims EXCEPT ![p] = AfterSweep(@)]
    /\ UNCHANGED <<window, chain, holder, boots, minted, delivered, closed>>

\* A broadcast whose answer was lost is executed after all.
Land(p) ==
    /\ chain[p] = "limbo"
    /\ chain' = [chain EXCEPT ![p] = "landed"]
    /\ UNCHANGED <<window, claims, holder, boots, minted, delivered, closed>>

\* The payer spends a pinned coin elsewhere, or empties the balance a gasless
\* payment draws on, or its epoch ends.
Kill(p) ==
    /\ chain[p] \in {"live", "limbo"}
    /\ chain' = [chain EXCEPT ![p] = "dead"]
    /\ UNCHANGED <<window, claims, holder, boots, minted, delivered, closed>>

\* One second passes, unless a surface has used up its time.
Tick ==
    /\ \A h \in Holders : holder[h].pc \in Working => holder[h].held < MaxHold
    /\ holder' = [h \in Holders |->
                    IF holder[h].pc \in Working
                    THEN [holder[h] EXCEPT !.held = @ + 1] ELSE holder[h]]
    /\ claims' = [p \in Payments |-> Older(claims[p])]
    /\ closed' = [p \in Payments |-> Older(closed[p])]
    /\ window' = [q \in Policies |-> Elapse(window[q])]
    /\ UNCHANGED <<chain, boots, minted, delivered>>

\* The process dies and comes back: everything in memory is gone, a broadcast
\* under way may still reach the network.
Restart ==
    /\ boots < MaxBoots
    /\ boots' = boots + 1
    /\ window' = [q \in Policies |-> NewWindow]
    /\ claims' = [p \in Payments |-> NoClaim]
    /\ holder' = [h \in Holders |-> IdleAttempt]
    /\ closed' = [p \in Payments |-> NoClaim]
    /\ LET going == {p \in Payments :
                       /\ chain[p] = "live"
                       /\ \E h \in Holders : holder[h].pc = "execute" /\ holder[h].pay = p}
       IN  \E out \in SUBSET going :
             chain' = [p \in Payments |-> IF p \in out THEN "limbo" ELSE chain[p]]
    /\ UNCHANGED <<minted, delivered>>

-----------------------------------------------------------------------------
StreamStep(h) ==
    \/ Abandon(h) \/ ClaimFresh(h) \/ SkipClaim(h) \/ ClaimReplayed(h)
    \/ VerifyOk(h) \/ VerifyRejected(h)
    \/ UpstreamOk(h) \/ UpstreamFailed(h) \/ HangUp(h)
    \/ SettleVerified(h) \/ SettleRejected(h) \/ Execute(h)
    \/ StreamSettled(h) \/ StreamFailed(h)

CheckStep(h) ==
    \/ Abandon(h) \/ ClaimFresh(h) \/ SkipClaim(h) \/ ClaimReplayed(h)
    \/ SettleVerified(h) \/ SettleRejected(h) \/ Execute(h)
    \/ CheckSettled(h) \/ CheckFailed(h) \/ CallerGone(h)

CallerStep(h) ==
    \/ Abandon(h) \/ ClaimFresh(h) \/ SkipClaim(h) \/ ClaimReplayed(h)
    \/ SettleVerified(h) \/ SettleRejected(h) \/ Execute(h)
    \/ CallerSettled(h) \/ CallerFailed(h) \/ CallerGone(h)

Next ==
    \/ \E q \in Policies : RequestWithoutPayment(q)
    \/ \E h \in Streams, q \in Policies : RefuseAtBreaker(h, q)
    \/ \E h \in Streams, p \in Payments, q \in Policies : BeginStream(h, p, q)
    \/ \E h \in Checks, p \in Payments, q \in Policies : BeginCheck(h, p, q)
    \/ \E h \in Callers, p \in Payments, t \in ApiTimeouts : BeginSettle(h, p, t)
    \/ \E h \in Streams : StreamStep(h)
    \/ \E h \in Checks : CheckStep(h)
    \/ \E h \in Callers : CallerStep(h)
    \/ \E p \in Payments : Sweep(p) \/ Land(p) \/ Kill(p)
    \/ Tick
    \/ Restart

Spec == Init /\ [][Next]_vars

\* Every await of a surface is answered, fails or is cut off, and the clock
\* keeps running: it stands still only while a surface is out of time.
Fairness ==
    /\ \A h \in Streams : WF_vars(StreamStep(h))
    /\ \A h \in Checks : WF_vars(CheckStep(h))
    /\ \A h \in Callers : WF_vars(CallerStep(h))
    /\ SF_vars(Tick)

FairSpec == Spec /\ Fairness

-----------------------------------------------------------------------------
(* Properties *)

Attempt ==
    [pc     : Working \cup {"idle", "claim"},
     pay    : Payments \cup {None},
     policy : Policies \cup {None},
     ttl    : Nat,
     held   : 0 .. MaxHold,
     sent   : {"no", "yes"}]

TypeOK ==
    /\ window \in [Policies -> Window]
    /\ claims \in [Payments -> Claim]
    /\ chain \in [Payments -> {"live", "limbo", "landed", "dead"}]
    /\ holder \in [Holders -> Attempt]
    /\ boots \in 0 .. MaxBoots
    /\ minted \in [Payments -> 0 .. 2]
    /\ delivered \subseteq Payments
    /\ closed \in [Payments -> Claim]

\* "The claim is shared with the gateway path, so a payment spent through one
\* surface cannot be spent again through the other" (facilitator_api::settle):
\* no two requests, on whichever surfaces, are ever past claim_payment with
\* the same payment, whatever lapses, is swept or is released meanwhile.
HoldersExclusive ==
    \A g, h \in Holders, p \in Identified :
       Holds(g, p) /\ Holds(h, p) => g = h

\* The reason payments are claimed (auth::decide, step 2): against a chain, a
\* session exists only for a transaction that executed, and one signature that
\* pins an object never mints a second session, although the chain answers a
\* repeated broadcast with success and a restart forgets every claim.
OneSessionPerPayment ==
    ~StubMode =>
       /\ \A p \in Payments : minted[p] > 0 => chain[p] = "landed"
       /\ \A p \in Pinned : minted[p] <= 1

\* "What stops one payment minting many sessions?  A replay claim ... The chain
\* only rejects re-execution once settlement lands, which leaves a window this
\* closes" (docs/how-it-works.md): the same for every payment.
OneSessionEver ==
    ~StubMode => \A p \in Payments : minted[p] <= 1

\* "The replay claim is held, not released" (docs/settlement-failure.md): once an
\* attempt has settled a payment, or failed to without giving it back, no
\* surface gets to work on that payment until the shortest TTL has run out,
\* whatever else is presented, refused or swept meanwhile.
ClosedStaysClaimed ==
    \A p \in Identified :
       (/\ closed[p] # NoClaim
        /\ closed[p] + MaxHold < FLOOR
        /\ closed[p] + MaxHold < RETENTION)
          => \A h \in Holders : ~Holds(h, p)

\* The point of ext_proc: where only streams spend payments, nothing is ever
\* broadcast for a payment no upstream has answered 2xx.
ChargedOnlyAfterDelivery ==
    \A p \in Payments : chain[p] \in {"limbo", "landed"} => p \in delivered

\* "The authorization was never spent, so release it" (facilitator_api::settle):
\* a surface that gives its claim back has not put the payment on chain.
ReleasesOnlyUnspent ==
    [][\A h \in Holders :
          (/\ holder[h].pc \in Working
           /\ holder'[h].pc = "idle"
           /\ holder[h].pay \in Identified
           /\ claims'[holder[h].pay] = NoClaim
           /\ boots' = boots)
             => ~(holder[h].sent = "yes" /\ chain[holder[h].pay] = "landed")]_vars

\* "Hold the claim for longer than the advertised window, so the authorization
\* stays blocked after it has also expired" (auth::decide).  A /settle caller's
\* own, shorter window decides for everybody, so this is a promise the surfaces
\* together do not keep.
BlockedForItsWindow ==
    [][\A h \in Holders :
          (/\ holder[h].pc = "claim"
           /\ holder'[h].pc \in Working
           /\ holder[h].pay \in Identified
           /\ claims[holder[h].pay] # NoClaim)
             => claims[holder[h].pay] > MAX_TIMEOUT]_vars

\* "It must comfortably exceed the per-payment claim TTL ... or a claim would be
\* swept while still live" (replay_retention_secs): the sweep takes no record
\* a gateway claim would still be refused by.
SweepKeepsLiveClaims ==
    [][\A p \in Payments :
          Sweep(p) => IsFresh(claims[p], ReplayTtl(MAX_TIMEOUT))]_vars

\* payment_id "returns None when the payload is not a Sui exact payload, which
\* the caller will reject for other reasons anyway": such a payment goes unclaimed
\* through the surfaces, any number of times at once, and outside stub mode none
\* of them calls the upstream, broadcasts or sells a session for it.
UnidentifiedIsRefused ==
    ~StubMode =>
       \A p \in Opaque :
          /\ minted[p] = 0
          /\ p \notin delivered
          /\ \A h \in Holders : holder[h].pay = p => holder[h].sent = "no"

\* A refused replay never prolongs the block: however often a payment is
\* presented again, it keeps becoming claimable (or is not blocked at all).
ClaimsLapse ==
    \A p \in Payments : []<>IsFresh(claims[p], ReplayTtl(MAX_TIMEOUT))

\* The abstract specification: who is spending a payment, and what it bought.
Owner(p) ==
    IF \E h \in Holders : Holds(h, p) THEN CHOOSE h \in Holders : Holds(h, p)
    ELSE None

Ledger == INSTANCE SingleUse WITH
    Surfaces <- Holders, Signed <- Identified, Once <- Identified \cap Pinned,
    Nobody <- None,
    owner <- [p \in Identified |-> Owner(p)],
    sold <- [p \in Identified |-> minted[p]]

\* Claims, chain and surfaces together implement single use.
ImplementsSingleUse == Ledger!SingleSpec

Breaking == INSTANCE BreakerUse WITH
    Requests <- Streams, Idle <- None,
    req <- [h \in Streams |-> holder[h].policy]

\* The breaker is driven by the streams and nobody else: whatever checks and
\* callers do meanwhile, a stream passes it once per payment, reports at most one
\* outcome for that, under the label it was let through with, and a settlement
\* of another surface never counts for or against a policy.
ImplementsBreakerUse == Breaking!UseSpec
=============================================================================
