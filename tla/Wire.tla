-------------------------------- MODULE Wire --------------------------------
(***************************************************************************)
(* What a client reads off the answer to its request: how ext_proc, the    *)
(* surface envoy.yaml puts in front of every route, frames a decision      *)
(* (src/src/ext_proc.rs), what Envoy answers when ext_proc fails it, and   *)
(* what payclient::send keeps of the answer (src/src/payclient.rs).        *)
(*                                                                         *)
(* An Attempt has the HTTP status, whether a PAYMENT-REQUIRED challenge    *)
(* came with it, the PAYMENT-RESPONSE receipt ("stub" is a success whose   *)
(* transaction is a stub- placeholder), whether a session token came, the  *)
(* meters published, and the phases in Server-Timing.  `by` says who       *)
(* really answered ("upstream" includes Envoy's router, whose own 5xx goes *)
(* back through the filter like an upstream's); no client can see it.      *)
(***************************************************************************)
EXTENDS Integers

NoAttempt == [status |-> 0, challenge |-> "no", receipt |-> "none", session |-> "no",
              meters |-> {}, timing |-> {}, by |-> "nobody"]

\* is_success of ext_proc: any 2xx.
IsSuccess(status) == status \in 200..299

\* Meter::headers: Unknown yields nothing.
MeterHeaders(meter) == {meter} \ {"unknown"}

-----------------------------------------------------------------------------
(* ext_proc *)

\* Decision::Deny in handle_request_headers: a 402, whoever asks.
ImmediateDenial(receipt, meter) ==
    [status |-> 402, challenge |-> "yes", receipt |-> receipt, session |-> "no",
     meters |-> MeterHeaders(meter), timing |-> {"decide"}, by |-> "gateway"]

\* settlement_unavailable: a trailers-only 200 on the gRPC paths, else 503.
BreakerDenial(grpcPath) ==
    [status |-> IF grpcPath THEN 200 ELSE 503, challenge |-> "no",
     receipt |-> "none", session |-> "no", meters |-> {}, timing |-> {},
     by |-> "gateway"]

\* handle_response_headers with nothing pending, or with a pending payment the
\* upstream did not answer 2xx.
PassedThrough(status, meter) ==
    [status |-> status, challenge |-> "no", receipt |-> "none", session |-> "no",
     meters |-> MeterHeaders(meter), timing |-> {"decide"}, by |-> "upstream"]

\* Mutant: the phases of a settled answer are not reported.
SettledUntimed(status, receipt, session) ==
    [status |-> status, challenge |-> "no", receipt |-> receipt, session |-> session,
     meters |-> IF session = "yes" THEN MeterHeaders("session") ELSE {},
     timing |-> {"decide"}, by |-> "upstream"]

\* The pending payment settled, or failed to after the resource was served.  The
\* meter of the request phase is Unknown for a payment; a token brings its own.
AfterSettling(status, receipt, session) ==
    [status |-> status, challenge |-> "no", receipt |-> receipt, session |-> session,
     meters |-> IF session = "yes" THEN MeterHeaders("session") ELSE {},
     timing |-> {"decide", "settle"}, by |-> "upstream"]

\* Envoy's own answer when ext_proc misses message_timeout or its stream breaks,
\* failure_mode_allow being false: nothing of the gateway's is on it.
EnvoyReply ==
    [status |-> 504, challenge |-> "no", receipt |-> "none", session |-> "no",
     meters |-> {}, timing |-> {}, by |-> "envoy"]

-----------------------------------------------------------------------------
(* What the clients conclude *)

\* Mutant: a receipt is a receipt.
ReceiptSettledAny(receipt) == receipt # "none"

\* x402-demo: `r.success && !r.transaction.starts_with("stub-")`.
ReceiptSettled(receipt) == receipt = "settled"

\* attempt_spans of a paid attempt: the settlement was seen, was SKIPPED and
\* "nothing was charged", or is not mentioned.
SettlementSpan(attempt) ==
    IF "settle" \in attempt.timing THEN "pay"
    ELSE IF attempt.status # 200 THEN "skip"
    ELSE "none"
=============================================================================
