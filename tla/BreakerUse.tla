----------------------------- MODULE BreakerUse -----------------------------
(***************************************************************************)
(* How the per-policy circuit breaker (src/src/breaker.rs) is used by its  *)
(* only callers, the concurrent ext_proc streams of src/src/ext_proc.rs.   *)
(*                                                                         *)
(* Every request of a policy calls `state`, paying or not.  A paying one   *)
(* that is let through is in flight until its settlement is reported with  *)
(* `record`, seconds or minutes of other requests' steps later, or until   *)
(* it ends without any report at all.  SettlementBreaker adds the history  *)
(* its properties speak of; Gateway, which has the rest of the service,    *)
(* implements UseSpec.                                                     *)
(***************************************************************************)
EXTENDS Breaker

CONSTANTS
    Policies,     \* policy labels, DEFAULT_POLICY_LABEL among them
    Requests,     \* streams that can carry a payment at the same time
    Idle          \* a stream that carries no payment past the breaker

ASSUME RequestsAssumption == IsFiniteSet(Requests)
ASSUME PoliciesAssumption == Idle \notin Policies

VARIABLES
    window,       \* SettlementBreaker.policies: policy -> Window
    req           \* per stream: Idle, or the policy it is paying under

UseInit ==
    /\ window = [p \in Policies |-> NewWindow]
    /\ req = [r \in Requests |-> Idle]

\* handle_request_headers of a request without a payment-signature header: it
\* asks for the state, ignores it, and never reports an outcome.
Asked(p) ==
    /\ window' = [window EXCEPT ![p] = AfterState(@)]
    /\ UNCHANGED req

\* handle_request_headers of a paying request that the breaker lets through.
Admitted(r, p) ==
    /\ req[r] = Idle
    /\ AcceptsPayment(Verdict(window[p]))
    /\ window' = [window EXCEPT ![p] = AfterState(@)]
    /\ req' = [req EXCEPT ![r] = p]

\* ... and one that it answers with settlement_unavailable (503).
Refused(r, p) ==
    /\ req[r] = Idle
    /\ ~AcceptsPayment(Verdict(window[p]))
    /\ Asked(p)

\* handle_response_headers: record_success for `Ok(settlement)`; for `Err(e)`,
\* where the resource was served all the same, record_failure.
Reported(r, p, failed) ==
    /\ req[r] = p
    /\ window' = [window EXCEPT ![p] = Record(@, failed)]
    /\ req' = [req EXCEPT ![r] = Idle]

\* A paying request that ends without a report: refused by `decide` (replayed,
\* malformed, not verified), upstream not 2xx, or Envoy hung up.
Ended(r) ==
    /\ req[r] # Idle
    /\ req' = [req EXCEPT ![r] = Idle]
    /\ UNCHANGED window

\* A second passes.
Waited ==
    /\ window' = [p \in Policies |-> Elapse(window[p])]
    /\ UNCHANGED req

\* The process dies and comes back with a new breaker and no streams.
Restarted ==
    /\ window' = [p \in Policies |-> NewWindow]
    /\ req' = [r \in Requests |-> Idle]

UseNext ==
    \/ \E p \in Policies : Asked(p)
    \/ \E r \in Requests, p \in Policies : Admitted(r, p)
    \/ \E r \in Requests, p \in Policies : Refused(r, p)
    \/ \E r \in Requests, p \in Policies : Reported(r, p, FALSE)
    \/ \E r \in Requests, p \in Policies : Reported(r, p, TRUE)
    \/ \E r \in Requests : Ended(r)
    \/ Waited
    \/ Restarted

UseSpec == UseInit /\ [][UseNext]_<<window, req>>
=============================================================================
