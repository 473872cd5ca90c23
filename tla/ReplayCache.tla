----------------------------- MODULE ReplayCache -----------------------------
(***************************************************************************)
(* The replay cache: `seen_payments` of MemorySessionStore                 *)
(* (src/src/session.rs) and the TTL auth.rs asks for.  One entry is the    *)
(* claim on one payment id; each operation runs under the DashMap entry's  *)
(* lock (or as one Redis script) and is a function on that entry.          *)
(*                                                                         *)
(* Time.  The code stores the second of the first sighting and compares    *)
(* `now - first_seen` with the TTL and with the sweep's retention.  A      *)
(* claim is kept here as its age, saturated at HORIZON, which is at least  *)
(* as large as everything an age is compared with.                         *)
(***************************************************************************)
EXTENDS Integers

CONSTANTS
    FLOOR,         \* shortest claim TTL (300 s)
    MULTIPLIER,    \* TTL per second of maxTimeoutSeconds (10)
    RETENTION,     \* replay_retention_secs: the sweep's age limit
    HORIZON        \* ages are saturated here

ASSUME ReplayAssumption ==
    /\ FLOOR \in Nat \ {0}
    /\ MULTIPLIER \in Nat
    /\ RETENTION \in Nat \ {0}
    /\ HORIZON \in Nat
    /\ RETENTION <= HORIZON
    /\ FLOOR <= HORIZON

\* auth::replay_ttl
ReplayTtl(max_timeout_seconds) ==
    LET scaled == max_timeout_seconds * MULTIPLIER
    IN  IF scaled > FLOOR THEN scaled ELSE FLOOR

\* A vacant entry.
NoClaim == -1

Claim == {NoClaim} \cup (0 .. HORIZON)

\* claim_payment_at: `Fresh` on a vacant or lapsed entry, `Replay` otherwise.
IsFresh(claim, ttl) == claim = NoClaim \/ claim >= ttl

\* Mutant: a lapsed entry is reported fresh but keeps its old timestamp.
AfterClaimStale(claim) == IF claim = NoClaim THEN 0 ELSE claim

\* A granted claim restarts at age zero, over whatever lapsed entry was there.
AfterClaim(claim) == 0

\* release_payment: removed, without asking whose claim it is.
AfterRelease(claim) == NoClaim

\* cleanup_expired_at: `retain(now - first_seen < replay_retention_secs)`.
AfterSweep(claim) == IF claim >= RETENTION THEN NoClaim ELSE claim

\* One second passes.
Older(claim) == IF claim = NoClaim \/ claim >= HORIZON THEN claim ELSE claim + 1
=============================================================================
