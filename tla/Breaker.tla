------------------------------- MODULE Breaker -------------------------------
(***************************************************************************)
(* The circuit breaker's `Window` (src/src/breaker.rs): what is remembered *)
(* about the settlements of one policy, and the two operations on it,      *)
(* `state_at` and `record_at`, as functions from a window to a window.     *)
(* The variables live in the modules that use it (SettlementBreaker,       *)
(* Gateway); each operation runs under the DashMap entry's lock, so it is  *)
(* one atomic step there.                                                  *)
(*                                                                         *)
(* Time.  The code stores the second it opened and compares                *)
(* `now - opened_at` with COOLDOWN_SECS and nothing else.  `opened_at` is  *)
(* therefore kept here as the seconds elapsed since it was set, saturated  *)
(* at COOLDOWN_SECS; Elapse is one second passing.  Every comparison the   *)
(* code makes has the same outcome and no bound on the clock is needed.    *)
(***************************************************************************)
EXTENDS Integers, Sequences, FiniteSets

CONSTANTS
    WINDOW,          \* outcomes remembered per policy (20)
    MIN_SAMPLES,     \* outcomes needed before it may trip (5)
    COOLDOWN_SECS    \* seconds it stays open before a probe (30)

ASSUME BreakerAssumption ==
    /\ WINDOW \in Nat
    /\ MIN_SAMPLES \in Nat \ {0}
    /\ MIN_SAMPLES <= WINDOW
    /\ COOLDOWN_SECS \in Nat \ {0}

\* `opened_at: None`.
NotOpen == -1

\* One element of `outcomes: VecDeque<bool>`.
Outcome == {"failure", "success"}

Window ==
    [outcomes  : Seq(Outcome),
     opened_at : {NotOpen} \cup (0 .. COOLDOWN_SECS),
     probing   : BOOLEAN]

\* `Window::default()`: a policy nobody has asked about yet.
NewWindow == [outcomes |-> <<>>, opened_at |-> NotOpen, probing |-> FALSE]

IsOpen(w) == w.opened_at # NotOpen

-----------------------------------------------------------------------------
(* state_at *)

\* What `state_at` returns.
Verdict(w) ==
    IF ~IsOpen(w) THEN "Closed"
    ELSE IF w.opened_at < COOLDOWN_SECS \/ w.probing THEN "Open"
    ELSE "HalfOpen"

\* Mutant: the half-open verdict does not claim the probe.
AfterStateUnclaimed(w) == w

\* Mutant: every refused caller restarts the cooldown.
AfterStateRearming(w) ==
    IF Verdict(w) = "Open" THEN [w EXCEPT !.opened_at = 0]
    ELSE IF Verdict(w) = "HalfOpen" THEN [w EXCEPT !.probing = TRUE]
    ELSE w

\* What `state_at` leaves behind: returning HalfOpen claims the probe.
AfterState(w) ==
    IF Verdict(w) = "HalfOpen" THEN [w EXCEPT !.probing = TRUE] ELSE w

\* Mutant: an open breaker refuses nobody.
AcceptsPaymentAlways(verdict) == TRUE

\* BreakerState::accepts_payment.
AcceptsPayment(verdict) == verdict \in {"Closed", "HalfOpen"}

-----------------------------------------------------------------------------
(* record_at *)

\* `while outcomes.len() > WINDOW { pop_front }` after one push.
Trim(s) == IF Len(s) > WINDOW THEN Tail(s) ELSE s

Failures(s) == Cardinality({i \in 1 .. Len(s) : s[i] = "failure"})

\* `total >= MIN_SAMPLES && failures / total >= FAILURE_THRESHOLD` (0.5).
Trips(s) == Len(s) >= MIN_SAMPLES /\ 2 * Failures(s) >= Len(s)

\* A success forgets every remembered failure and closes the breaker.
RecordSuccess(w) == NewWindow

\* Mutant: trips one failure too late, and only from closed.
RecordFailureLate(w) ==
    LET seen == Trim(Append(w.outcomes, "failure"))
    IN  [outcomes  |-> seen,
         opened_at |-> IF IsOpen(w) \/ (Len(seen) > MIN_SAMPLES /\ Trips(seen)) THEN 0 ELSE NotOpen,
         probing   |-> FALSE]

\* Mutant: a failure while open leaves the cooldown running from before.
RecordFailureNotReopening(w) ==
    LET seen == Trim(Append(w.outcomes, "failure"))
    IN  [outcomes  |-> seen,
         opened_at |-> IF IsOpen(w) THEN w.opened_at
                       ELSE IF Trips(seen) THEN 0 ELSE NotOpen,
         probing   |-> FALSE]

\* A failure while open restarts the cooldown; while closed it may trip.
RecordFailure(w) ==
    LET seen == Trim(Append(w.outcomes, "failure"))
    IN  [outcomes  |-> seen,
         opened_at |-> IF IsOpen(w) \/ Trips(seen) THEN 0 ELSE NotOpen,
         probing   |-> FALSE]

\* `record(policy, failed)`; either outcome ends whatever probe was claimed.
Record(w, failed) == IF failed THEN RecordFailure(w) ELSE RecordSuccess(w)

-----------------------------------------------------------------------------
\* One second passes (the clock of util.rs, read by `state` and `record`).
Elapse(w) ==
    IF IsOpen(w) /\ w.opened_at < COOLDOWN_SECS
    THEN [w EXCEPT !.opened_at = @ + 1]
    ELSE w
=============================================================================
