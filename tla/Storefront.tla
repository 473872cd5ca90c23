------------------------------ MODULE Storefront ------------------------------
(***************************************************************************)
(* What is sold, and to whom: the tier decision of X402Auth::decide        *)
(* (src/src/auth.rs) and the response phase of ext_proc, over a policy     *)
(* table with several products.  A request is resolved to terms by its     *)
(* path and the policy name Envoy attached; a session remembers only that  *)
(* name, a rate-limit bucket the label of the terms.                       *)
(*                                                                         *)
(* One action is one phase of one request.  How the phases of competing    *)
(* requests interleave inside the stores is the subject of Gateway (the    *)
(* replay claim), SessionStore (the quota counter) and RateLimiter (the    *)
(* window); here a claim, a spend and a rate check are single steps, and   *)
(* the breaker and POST /settle, which only ever take a payment away from  *)
(* a request, are left out.  Payments are verified against a chain         *)
(* (sui-grpc mode).                                                        *)
(***************************************************************************)
EXTENDS PolicyTable, FiniteSetsExt

CONSTANTS
    Config,      \* the validated configuration
    Visits,      \* requests: [path, policy, client]; client is Unset when unknown
    Payments,    \* [accepted : [payTo, amount, asset], wellFormed, credits]
    Streams,     \* ext_proc streams
    NoPay

ASSUME ConfigAssumption == Valid(Config)

VARIABLES
    stream,      \* StreamState::pending, path and policy
    claimed,     \* the replay cache
    spent,       \* payments executed on chain (external)
    session,     \* payment -> the session it bought, or NoPay
    bucket,      \* free-tier counts of the current window: <<label, client>> -> count
    \* History, read by the properties only:
    bought,      \* payment -> the entry of the file its session was sold under
    usedOn,      \* payment -> the entries its session has served requests of
    freeServed   \* free requests of the window: <<entry, client>> -> count

vars == <<stream, claimed, spent, session, bucket, bought, usedOn, freeServed>>

Resolve(v) == PolicyFor(Config, v.path, v.policy)

\* NoPay stands for None: it is no payment, no request and no entry.
ASSUME NoPayAssumption ==
    /\ NoPay \notin Payments
    /\ NoPay \notin Visits
    /\ \A v \in Visits : Resolve(v) # NoPay

Idle == [pay |-> NoPay, visit |-> NoPay]

Clients == {v.client : v \in Visits} \ {Unset}
Labels == {Resolve(v).label : v \in Visits} \cup {DEFAULT_POLICY_LABEL}
Buckets == Labels \X Clients
Entries == {Resolve(v).from : v \in Visits} \X Clients

Init ==
    /\ stream = [s \in Streams |-> Idle]
    /\ claimed = {}
    /\ spent = {}
    /\ session = [p \in Payments |-> NoPay]
    /\ bucket = [b \in Buckets |-> 0]
    /\ bought = [p \in Payments |-> NoPay]
    /\ usedOn = [p \in Payments |-> {}]
    /\ freeServed = [e \in Entries |-> 0]

-----------------------------------------------------------------------------
(* 1. Existing paid session *)

\* Mutant: any live session is good for any request.
HonouredAnywhere(t, v) ==
    /\ t # NoPay
    /\ session[t] # NoPay
    /\ session[t].left > 0

\* `consume` accepts the token presented with the visit.
Honoured(t, v) ==
    /\ t # NoPay
    /\ session[t] # NoPay
    /\ session[t].policy = v.policy
    /\ session[t].left > 0

\* Served whatever else the request carries.
FromSession(v, t) ==
    /\ Honoured(t, v)
    /\ session' = [session EXCEPT ![t].left = @ - 1]
    /\ usedOn' = [usedOn EXCEPT ![t] = @ \cup {Resolve(v).from}]
    /\ UNCHANGED <<stream, claimed, spent, bucket, bought, freeServed>>

-----------------------------------------------------------------------------
(* 2. New payment *)

\* Facilitator::check_terms.  A version, scheme or network that is not ours, an
\* empty transaction or signature is ~wellFormed.
CheckTerms(p, t) ==
    /\ p.wellFormed
    /\ p.accepted.amount = t.amount
    /\ p.accepted.asset = t.asset
    /\ p.accepted.payTo = t.payTo

\* The sum assert_credits takes over the simulated balance changes.
Credited(p, t) ==
    MapThenSumSet(LAMBDA i : p.credits[i].amount,
                  {i \in DOMAIN p.credits :
                     p.credits[i].to = t.payTo /\ p.credits[i].coin = t.asset})

\* Mutant: the price is cast to the narrower width instead of parsed as it.
AssertCreditsWrapped(p, t) ==
    Credited(p, t) = IF t.amount < I128 THEN t.amount ELSE t.amount - U128

\* Validation parses a price as u128, this as i128: one it cannot read is a
\* price nothing meets.
AssertCredits(p, t) == ParsesAsI128(t.amount) /\ Credited(p, t) = t.amount

\* Facilitator::verify can succeed.
Verifies(p, t) == CheckTerms(p, t) /\ p \notin spent /\ AssertCredits(p, t)

\* The session create_session stores: the visit's policy name, and the paid
\* tier the visit resolves to.
NewSession(v) ==
    [policy |-> v.policy, quota |-> Resolve(v).terms.paid.quota,
     left |-> Resolve(v).terms.paid.quota]

\* create_session, or a store that fails: served without a token.
Mint(p, v) ==
    \/ /\ session' = [session EXCEPT ![p] = NewSession(v)]
       /\ bought' = [bought EXCEPT ![p] = Resolve(v)]
    \/ UNCHANGED <<session, bought>>

\* Deferred: claimed, verified, kept for the response phase.
Admit(s, v, t, p) ==
    /\ stream[s] = Idle
    /\ ~Honoured(t, v)
    /\ p \notin claimed
    /\ Verifies(p, Resolve(v).terms)
    /\ claimed' = claimed \cup {p}
    /\ stream' = [stream EXCEPT ![s] = [pay |-> p, visit |-> v]]
    /\ UNCHANGED <<spent, session, bucket, bought, usedOn, freeServed>>

\* Claimed, and refused by Facilitator::verify.
RejectPayment(v, t, p) ==
    /\ ~Honoured(t, v)
    /\ p \notin claimed
    /\ claimed' = claimed \cup {p}
    /\ UNCHANGED <<stream, spent, session, bucket, bought, usedOn, freeServed>>

\* Immediate: claimed, settled and minted in the request phase.
SettleAtOnce(v, t, p) ==
    /\ ~Honoured(t, v)
    /\ p \notin claimed
    /\ Verifies(p, Resolve(v).terms)
    /\ claimed' = claimed \cup {p}
    /\ spent' = spent \cup {p}
    /\ Mint(p, v)
    /\ UNCHANGED <<stream, bucket, usedOn, freeServed>>

\* Refused by verify_and_settle, or the answer of the broadcast was lost.
SettleAtOnceFails(v, t, p) ==
    /\ ~Honoured(t, v)
    /\ p \notin claimed
    /\ claimed' = claimed \cup {p}
    /\ \/ spent' = spent
       \/ Verifies(p, Resolve(v).terms) /\ spent' = spent \cup {p}
    /\ UNCHANGED <<stream, session, bucket, bought, usedOn, freeServed>>

-----------------------------------------------------------------------------
(* 3. Anonymous free tier *)

\* Mutant: one bucket for all that Envoy gave no policy name.
BucketOfEnvoy(v) ==
    <<IF v.policy = Unset THEN DEFAULT_POLICY_LABEL ELSE Resolve(v).label, v.client>>

\* ratelimit::key_for
BucketOf(v) == <<Resolve(v).label, v.client>>

\* limiter.check allows.  Without a client address nothing is free.
ServeFree(v, t) ==
    /\ ~Honoured(t, v)
    /\ v.client # Unset
    /\ bucket[BucketOf(v)] < Resolve(v).terms.free.max
    /\ bucket' = [bucket EXCEPT ![BucketOf(v)] = @ + 1]
    /\ freeServed' = [freeServed EXCEPT ![<<Resolve(v).from, v.client>>] = @ + 1]
    /\ UNCHANGED <<stream, claimed, spent, session, bought, usedOn>>

-----------------------------------------------------------------------------
(* The response phase of ext_proc *)

\* The upstream succeeded and Facilitator::settle does: the policy is resolved
\* again, from the path and the name the stream kept.
Settle(s) ==
    /\ stream[s] # Idle
    /\ LET p == stream[s].pay
           v == stream[s].visit
       IN  /\ Verifies(p, Resolve(v).terms)
           /\ spent' = spent \cup {p}
           /\ Mint(p, v)
    /\ stream' = [stream EXCEPT ![s] = Idle]
    /\ UNCHANGED <<claimed, bucket, usedOn, freeServed>>

\* It does not; the transaction may have been executed all the same.  Or Envoy
\* hangs up, and the pending payment goes with the stream.
SettleFails(s) ==
    /\ stream[s] # Idle
    /\ \/ spent' = spent
       \/ /\ Verifies(stream[s].pay, Resolve(stream[s].visit).terms)
          /\ spent' = spent \cup {stream[s].pay}
    /\ stream' = [stream EXCEPT ![s] = Idle]
    /\ UNCHANGED <<claimed, session, bucket, bought, usedOn, freeServed>>

\* The upstream failed: released unsettled.
Discard(s) ==
    /\ stream[s] # Idle
    /\ claimed' = claimed \ {stream[s].pay}
    /\ stream' = [stream EXCEPT ![s] = Idle]
    /\ UNCHANGED <<spent, session, bucket, bought, usedOn, freeServed>>

-----------------------------------------------------------------------------
(* Time *)

\* A claim no request is working on lapses.
Lapse(p) ==
    /\ p \in claimed
    /\ \A s \in Streams : stream[s].pay # p
    /\ claimed' = claimed \ {p}
    /\ UNCHANGED <<stream, spent, session, bucket, bought, usedOn, freeServed>>

Expire(p) ==
    /\ session[p] # NoPay
    /\ session' = [session EXCEPT ![p] = NoPay]
    /\ UNCHANGED <<stream, claimed, spent, bucket, bought, usedOn, freeServed>>

\* Every bucket's window has passed.
WindowPasses ==
    /\ bucket' = [b \in Buckets |-> 0]
    /\ freeServed' = [e \in Entries |-> 0]
    /\ UNCHANGED <<stream, claimed, spent, session, bought, usedOn>>

Tokens == Payments \cup {NoPay}

Next ==
    \/ \E v \in Visits, t \in Payments : FromSession(v, t)
    \/ \E s \in Streams, v \in Visits, t \in Tokens, p \in Payments : Admit(s, v, t, p)
    \/ \E v \in Visits, t \in Tokens, p \in Payments :
          RejectPayment(v, t, p) \/ SettleAtOnce(v, t, p) \/ SettleAtOnceFails(v, t, p)
    \/ \E v \in Visits, t \in Tokens : ServeFree(v, t)
    \/ \E s \in Streams : Settle(s) \/ SettleFails(s) \/ Discard(s)
    \/ \E p \in Payments : Lapse(p) \/ Expire(p)
    \/ WindowPasses

Spec == Init /\ [][Next]_vars

-----------------------------------------------------------------------------
(* Properties *)

\* "Sessions are scoped to the policy that bought them, so a session bought on
\* the cheap route does not unlock the expensive one" (README.md): a session
\* only ever serves requests of the entry of the file it was sold under.
SessionServesWhatItBought ==
    \A p \in Payments : \A e \in usedOn[p] : bought[p] # NoPay /\ e = bought[p].from

\* A client cannot "buy access on its own terms" (verify_and_settle), nor on
\* another route's: whatever a payment claims to have accepted and wherever it
\* is presented, the payee of the entry it bought from is credited the price of
\* that entry in its coin, and the session has the size that entry sells.
SoldAtItsPrice ==
    \A p \in Payments : bought[p] # NoPay =>
       /\ p \in spent
       /\ Credited(p, bought[p].terms) = bought[p].terms.amount
       /\ session[p] # NoPay => session[p].quota = bought[p].terms.paid.quota

\* "two policies never share a free-tier allowance" (ResolvedPolicy::label): what
\* a bucket has counted is what the one entry it belongs to has served.
FreeAllowanceIsOwn ==
    \A v \in Visits : v.client # Unset =>
       bucket[<<Resolve(v).label, v.client>>] = freeServed[<<Resolve(v).from, v.client>>]
=============================================================================
