------------------------- MODULE SettlementBreaker -------------------------
(***************************************************************************)
(* BreakerUse, with the history that says what the breaker is for: how     *)
(* long a run of failures is, when the last one was reported, how many     *)
(* probes are out and how much has been served unpaid.                     *)
(***************************************************************************)
EXTENDS BreakerUse

VARIABLES
    \* History, read by the properties only:
    probe,        \* streams whose `state` call returned HalfOpen
    streak,       \* failures reported since the last success (to MIN_SAMPLES)
    quiet,        \* seconds since the last reported failure (to COOLDOWN_SECS)
    probes,       \* HalfOpen verdicts given out since the last report
    giveaways     \* failures since the last success or paying probe

vars == <<window, req, probe, streak, quiet, probes, giveaways>>

Lesser(a, b) == IF a < b THEN a ELSE b

-----------------------------------------------------------------------------
Init ==
    /\ UseInit
    /\ probe = {}
    /\ streak = [p \in Policies |-> 0]
    /\ quiet = [p \in Policies |-> 0]
    /\ probes = [p \in Policies |-> 0]
    /\ giveaways = [p \in Policies |-> 0]

\* HalfOpen verdicts are counted up to two: one too many is enough.
CountProbe(p) ==
    probes' = [probes EXCEPT ![p] =
                  IF Verdict(window[p]) = "HalfOpen" THEN Lesser(@ + 1, 2) ELSE @]

AskWithoutPayment(p) ==
    /\ Asked(p)
    /\ CountProbe(p)
    /\ UNCHANGED <<probe, streak, quiet, giveaways>>

AdmitPayment(r, p) ==
    /\ Admitted(r, p)
    /\ CountProbe(p)
    /\ LET probing == Verdict(window[p]) = "HalfOpen"
       IN  /\ probe' = IF probing THEN probe \cup {r} ELSE probe
           /\ giveaways' = [giveaways EXCEPT ![p] = IF probing THEN 0 ELSE @]
    /\ UNCHANGED <<streak, quiet>>

RefusePayment(r, p) ==
    /\ Refused(r, p)
    /\ CountProbe(p)
    /\ UNCHANGED <<probe, streak, quiet, giveaways>>

ReportSuccess(r, p) ==
    /\ Reported(r, p, FALSE)
    /\ probe' = probe \ {r}
    /\ streak' = [streak EXCEPT ![p] = 0]
    /\ giveaways' = [giveaways EXCEPT ![p] = 0]
    /\ probes' = [probes EXCEPT ![p] = 0]
    /\ UNCHANGED quiet

ReportFailure(r, p) ==
    /\ Reported(r, p, TRUE)
    /\ probe' = probe \ {r}
    /\ streak' = [streak EXCEPT ![p] = Lesser(@ + 1, MIN_SAMPLES)]
    /\ quiet' = [quiet EXCEPT ![p] = 0]
    /\ giveaways' = [giveaways EXCEPT ![p] = @ + 1]
    /\ probes' = [probes EXCEPT ![p] = 0]

EndUnreported(r) ==
    /\ Ended(r)
    /\ probe' = probe \ {r}
    /\ UNCHANGED <<streak, quiet, probes, giveaways>>

Tick ==
    /\ Waited
    /\ quiet' = [p \in Policies |-> Lesser(quiet[p] + 1, COOLDOWN_SECS)]
    /\ UNCHANGED <<probe, streak, probes, giveaways>>

\* The history begins anew with the process: what the old one gave away is
\* bounded by itself.
Restart ==
    /\ Restarted
    /\ probe' = {}
    /\ streak' = [p \in Policies |-> 0]
    /\ quiet' = [p \in Policies |-> 0]
    /\ probes' = [p \in Policies |-> 0]
    /\ giveaways' = [p \in Policies |-> 0]

Report(r, p) == ReportSuccess(r, p) \/ ReportFailure(r, p)

Next ==
    \/ \E p \in Policies : AskWithoutPayment(p)
    \/ \E r \in Requests, p \in Policies : AdmitPayment(r, p)
    \/ \E r \in Requests, p \in Policies : RefusePayment(r, p)
    \/ \E r \in Requests, p \in Policies : ReportSuccess(r, p)
    \/ \E r \in Requests, p \in Policies : ReportFailure(r, p)
    \/ \E r \in Requests : EndUnreported(r)
    \/ Tick
    \/ Restart

Spec == Init /\ [][Next]_vars

\* The clock keeps running, and a stream does not stay in flight for ever: it
\* is either settled and reported or it ends (Envoy's route timeout).  Clients
\* keep offering payments on every policy.
Fairness ==
    /\ WF_vars(Tick)
    /\ \A r \in Requests :
         WF_vars((\E p \in Policies : Report(r, p)) \/ EndUnreported(r))
    /\ \A p \in Policies :
         WF_vars(\E r \in Requests : AdmitPayment(r, p) \/ RefusePayment(r, p))

FairSpec == Spec /\ Fairness

-----------------------------------------------------------------------------
(* Properties *)

TypeOK ==
    /\ window \in [Policies -> Window]
    /\ req \in [Requests -> Policies \cup {Idle}]
    /\ probe \subseteq Requests
    /\ streak \in [Policies -> 0 .. MIN_SAMPLES]
    /\ quiet \in [Policies -> 0 .. COOLDOWN_SECS]
    /\ probes \in [Policies -> 0 .. 2]
    /\ giveaways \in [Policies -> Nat]

\* "a run of them means the gateway is giving the resource away and must stop
\* taking payments it cannot settle" (ext_proc.rs, where a failure is reported):
\* a policy is tripped whenever its last MIN_SAMPLES reports were failures, by
\* whichever streams and across late reports, and as "a single success closes it
\* immediately" (docs/settlement-failure.md), only while the last one was.
TripsOnRun ==
    \A p \in Policies :
       /\ streak[p] = MIN_SAMPLES => IsOpen(window[p])
       /\ IsOpen(window[p]) => streak[p] > 0

\* state_at hands out at most one half-open verdict per policy until some
\* settlement of that policy is reported, however many requests race for it.
OneProbePerReport == \A p \in Policies : probes[p] <= 1

\* The loss breaker.rs exists to bound: on one policy, the paid responses served
\* without being paid for since the last success, probe or restart never exceed
\* the run that trips it plus the streams that were already past the check.
GiveawaysBounded ==
    \A p \in Policies : giveaways[p] <= MIN_SAMPLES - 1 + Cardinality(Requests)

\* A payment gets past the check on a tripped policy only when a full cooldown
\* has passed since the latest failure anyone reported on it, late reports of
\* streams admitted before the trip included.
CooldownAfterLastFailure ==
    [][\A r \in Requests, p \in Policies :
          (req[r] = Idle /\ req'[r] = p)
             => (streak[p] < MIN_SAMPLES \/ quiet[p] = COOLDOWN_SECS)]_vars

\* A breaker whose probe claim is given back again and again also keeps taking
\* payments again and again: late failures of earlier streams and refused
\* callers can delay the half-open state of state_at, never postpone it for ever.
ReopensUnlessProbeIsStuck ==
    \A p \in Policies :
       []<>(~window[p].probing) => []<>AcceptsPayment(Verdict(window[p]))

\* "a caller that receives `HalfOpen` is the single request permitted through
\* and must report its outcome" (the comment on `state`): a claimed probe is
\* eventually given back.
ProbeIsReported ==
    \A p \in Policies : window[p].probing ~> ~window[p].probing

\* "Set while a half-open probe is in flight" (the comment on `probing`): as
\* long as a stream that was let through as the probe is in flight, the flag
\* is set and nobody else is let through as one.
ProbeInFlightIsMarked ==
    \A r \in probe, p \in Policies : req[r] = p => window[p].probing
=============================================================================
