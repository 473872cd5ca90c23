----------------------------- MODULE PaidSession -----------------------------
(***************************************************************************)
(* One paid session of MemorySessionStore (src/src/session.rs) and what    *)
(* `create_session`, `consume` and the sweep do to it.  A session is what  *)
(* the server keeps; the bearer token names it and carries the same        *)
(* deadline.  `life` is `expires_at - now`, never below zero.              *)
(***************************************************************************)
EXTENDS Integers

CONSTANTS
    Policies,      \* policies a session can be bought under
    QUOTA,         \* paid_tier.quota of each policy
    DURATION       \* paid_tier.duration_secs of each policy

ASSUME TierAssumption ==
    /\ "none" \notin Policies
    /\ QUOTA \in [Policies -> Nat \ {0}]
    /\ DURATION \in [Policies -> Nat \ {0}]

\* A vacant map slot.
NoSession == [policy |-> "none", left |-> 0, life |-> 0]

Session == [policy : Policies, left : Nat, life : Nat]

\* create_session_at under the terms of `policy`.
NewSession(policy) ==
    [policy |-> policy, left |-> QUOTA[policy], life |-> DURATION[policy]]

\* consume_at, after the token and its deadline: the server still has the
\* session, and it was bought under exactly this policy.
Covers(s, policy) == s # NoSession /\ s.policy = policy

\* Mutant: the decrement is a store of what was read, not an exchange.
ExchangesBlindly(s, seen) == TRUE

\* compare_exchange_weak(seen, seen - 1) finds the counter as it was read.
Exchanges(s, seen) == s.left = seen

\* spend_one's store; `seen` is what the counter was read as.
AfterSpend(s, seen) == [s EXCEPT !.left = seen - 1]

\* cleanup_expired_at: `retain(now < expires_at)`.
AfterSessionSweep(s) == IF s.life = 0 THEN NoSession ELSE s

\* One second passes.
Shorter(s) == IF s.life = 0 THEN s ELSE [s EXCEPT !.life = @ - 1]
=============================================================================
