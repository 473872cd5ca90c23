---------------------- MODULE SettlementBreakerProofs ----------------------
(***************************************************************************)
(* Proofs about SettlementBreaker, for any number of policies and streams  *)
(* and any MIN_SAMPLES, WINDOW and COOLDOWN_SECS.                          *)
(*                                                                         *)
(* The inductive invariant IInv ties the implementation's window to the    *)
(* history: the remembered outcomes are failures only, their number is the *)
(* run length, the age of the trip is the age of the last failure, a       *)
(* claimed probe is the one verdict handed out, and while a policy is open *)
(* every further giveaway uses up a stream that was already in flight.     *)
(***************************************************************************)
EXTENDS SettlementBreaker, FiniteSetTheorems, SequenceTheorems, TLAPS

InFlight(p) == {r \in Requests : req[r] = p}

AllFailures(s) == \A i \in 1 .. Len(s) : s[i] = "failure"

WindowInv(w) ==
    /\ AllFailures(w.outcomes)
    /\ Len(w.outcomes) <= WINDOW
    /\ IsOpen(w) <=> Len(w.outcomes) >= MIN_SAMPLES
    /\ w.probing => IsOpen(w)

HistoryInv(p) ==
    /\ streak[p] = Lesser(Len(window[p].outcomes), MIN_SAMPLES)
    /\ IsOpen(window[p]) => window[p].opened_at = quiet[p]
    /\ probes[p] = IF window[p].probing THEN 1 ELSE 0

LossInv(p) ==
    IF IsOpen(window[p])
    THEN giveaways[p] + Cardinality(InFlight(p))
            <= MIN_SAMPLES - 1 + Cardinality(Requests)
    ELSE giveaways[p] <= Len(window[p].outcomes)

IInv ==
    /\ TypeOK
    /\ \A p \in Policies : WindowInv(window[p]) /\ HistoryInv(p) /\ LossInv(p)

-----------------------------------------------------------------------------
(* Facts about the operations of Breaker. *)

\* The positions of a sequence of length n number n.
LEMMA CardinalityUpTo ==
    ASSUME NEW n \in Nat
    PROVE  Cardinality(1 .. n) = n
<1>1. Cardinality(1 .. n) = IF 1 > n THEN 0 ELSE n - 1 + 1
  BY FS_Interval, 1 \in Int, n \in Int, Zenon
<1> QED
  BY <1>1

\* A window of failures stays one under record_failure's push and trim, and
\* the rate test on it is a test of its length.
LEMMA PushTrim ==
    ASSUME NEW s \in Seq(Outcome), AllFailures(s), Len(s) <= WINDOW
    PROVE  LET t == Trim(Append(s, "failure"))
           IN  /\ t \in Seq(Outcome)
               /\ AllFailures(t)
               /\ Len(t) = Lesser(Len(s) + 1, WINDOW)
               /\ Trips(t) <=> Len(t) >= MIN_SAMPLES
<1> DEFINE a == Append(s, "failure")
           t == Trim(a)
<1> USE BreakerAssumption
<1>1. /\ a \in Seq(Outcome) /\ Len(a) = Len(s) + 1 /\ Len(s) \in Nat
      /\ a # << >>
  BY DEF Outcome
<1>2. AllFailures(a)
  BY <1>1 DEF AllFailures
<1>3. /\ t \in Seq(Outcome)
      /\ Len(t) = Lesser(Len(s) + 1, WINDOW)
      /\ AllFailures(t)
  <2>1. CASE Len(a) > WINDOW
    <3>1. t = Tail(a)
      BY <2>1 DEF Trim
    <3>2. /\ Tail(a) \in Seq(Outcome)
          /\ Len(Tail(a)) = Len(a) - 1
          /\ \A i \in 1 .. Len(Tail(a)) : Tail(a)[i] = a[i + 1]
      BY <1>1, HeadTailProperties
    <3>3. ASSUME NEW i \in 1 .. Len(Tail(a))
          PROVE  Tail(a)[i] = "failure"
      <4>1. i + 1 \in 1 .. Len(a)
        BY <1>1, <3>2
      <4>2. a[i + 1] = "failure"
        BY <1>2, <4>1 DEF AllFailures
      <4> QED
        BY <3>2, <4>2
    <3>4. AllFailures(t)
      BY <3>1, <3>3 DEF AllFailures
    <3> QED
      BY <1>1, <2>1, <3>1, <3>2, <3>4 DEF Lesser
  <2>2. CASE ~(Len(a) > WINDOW)
    BY <1>1, <1>2, <2>2 DEF Trim, Lesser
  <2> QED
    BY <2>1, <2>2
<1>4. Failures(t) = Len(t)
  <2> HIDE DEF t
  <2>1. Len(t) \in Nat
    BY <1>3
  <2>2. {i \in 1 .. Len(t) : t[i] = "failure"} = 1 .. Len(t)
    BY <1>3 DEF AllFailures
  <2>3. Cardinality(1 .. Len(t)) = Len(t)
    BY <2>1, CardinalityUpTo
  <2> QED
    BY <2>2, <2>3 DEF Failures
<1>5. Trips(t) <=> Len(t) >= MIN_SAMPLES
  <2> HIDE DEF t
  <2>1. Len(t) \in Nat
    BY <1>3
  <2> QED
    BY <1>4, <2>1 DEF Trips
<1> QED
  BY <1>3, <1>5

\* Asking, reporting and waiting keep a window well formed.
LEMMA WindowSteps ==
    ASSUME NEW w \in Window, WindowInv(w)
    PROVE  /\ AfterState(w) \in Window /\ WindowInv(AfterState(w))
           /\ RecordFailure(w) \in Window /\ WindowInv(RecordFailure(w))
           /\ Elapse(w) \in Window /\ WindowInv(Elapse(w))
<1> USE BreakerAssumption
<1>1. AfterState(w) \in Window /\ WindowInv(AfterState(w))
  BY DEF AfterState, Verdict, Window, WindowInv, IsOpen, NotOpen
<1>2. RecordFailure(w) \in Window /\ WindowInv(RecordFailure(w))
  <2> DEFINE t == Trim(Append(w.outcomes, "failure"))
  <2>1. /\ t \in Seq(Outcome) /\ AllFailures(t)
        /\ Len(t) = Lesser(Len(w.outcomes) + 1, WINDOW)
        /\ Trips(t) <=> Len(t) >= MIN_SAMPLES
    BY PushTrim DEF Window, WindowInv
  <2>2. Len(w.outcomes) \in Nat
    BY DEF Window
  <2>3. RecordFailure(w) = [outcomes  |-> t,
                            opened_at |-> IF IsOpen(w) \/ Trips(t) THEN 0 ELSE NotOpen,
                            probing   |-> FALSE]
    BY DEF RecordFailure
  <2> HIDE DEF t
  <2> QED
    BY <2>1, <2>2, <2>3 DEF Window, WindowInv, IsOpen, NotOpen, Lesser
<1>3. Elapse(w) \in Window /\ WindowInv(Elapse(w))
  BY DEF Elapse, Window, WindowInv, IsOpen, NotOpen
<1> QED
  BY <1>1, <1>2, <1>3

\* Window::default() satisfies what is kept of every window.
LEMMA NewWindowFacts == NewWindow \in Window /\ WindowInv(NewWindow)
  BY BreakerAssumption
     DEF NewWindow, Window, WindowInv, IsOpen, NotOpen, AllFailures
-----------------------------------------------------------------------------
(* Counting the streams in flight on a policy. *)

\* A set of streams has a size, at most that of all of them.
LEMMA StreamCount ==
    ASSUME NEW S \in SUBSET Requests
    PROVE  /\ Cardinality(S) \in Nat
           /\ Cardinality(Requests) \in Nat
           /\ Cardinality(S) <= Cardinality(Requests)
<1>1. IsFiniteSet(S) /\ Cardinality(S) <= Cardinality(Requests)
  BY RequestsAssumption, FS_Subset
<1> QED
  BY <1>1, RequestsAssumption, FS_CardinalityType

\* The same for the streams in flight on one policy, before and after a step.
LEMMA InFlightCount ==
    ASSUME NEW p
    PROVE  /\ Cardinality(InFlight(p)) \in Nat
           /\ Cardinality(Requests) \in Nat
           /\ Cardinality(InFlight(p)) <= Cardinality(Requests)
           /\ Cardinality(InFlight(p)') \in Nat
           /\ Cardinality(InFlight(p)') <= Cardinality(Requests)
<1>1. InFlight(p) \in SUBSET Requests
  BY DEF InFlight
<1>2. InFlight(p)' \in SUBSET Requests
  BY DEF InFlight
<1>3. Cardinality(InFlight(p)) \in Nat /\ Cardinality(InFlight(p)) <= Cardinality(Requests)
  BY <1>1, StreamCount
<1>4. Cardinality(InFlight(p)') \in Nat /\ Cardinality(InFlight(p)') <= Cardinality(Requests)
  BY <1>2, StreamCount
<1>5. Cardinality(Requests) \in Nat
  BY <1>1, StreamCount
<1> QED
  BY <1>3, <1>4, <1>5

\* A stream that stops paying under p leaves one fewer in flight on p, and
\* the others' counts alone.
LEMMA InFlightLeave ==
    ASSUME TypeOK, NEW r \in Requests, req[r] # Idle,
           req' = [req EXCEPT ![r] = Idle], NEW p \in Policies
    PROVE  /\ req[r] = p =>
                 /\ Cardinality(InFlight(p)') = Cardinality(InFlight(p)) - 1
                 /\ Cardinality(InFlight(p)') <= Cardinality(Requests) - 1
           /\ req[r] # p => InFlight(p)' = InFlight(p)
<1>1. p # Idle
  BY PoliciesAssumption
<1>2. ASSUME req[r] # p PROVE InFlight(p)' = InFlight(p)
  BY <1>1, <1>2 DEF InFlight, TypeOK
<1>3. ASSUME req[r] = p
      PROVE  /\ Cardinality(InFlight(p)') = Cardinality(InFlight(p)) - 1
             /\ Cardinality(InFlight(p)') <= Cardinality(Requests) - 1
  <2>1. InFlight(p)' = InFlight(p) \ {r}
    BY <1>1, <1>3 DEF InFlight, TypeOK
  <2>2. r \in InFlight(p) /\ InFlight(p) \in SUBSET Requests
    BY <1>3 DEF InFlight
  <2>3. IsFiniteSet(InFlight(p))
    BY <2>2, RequestsAssumption, FS_Subset
  <2>4. Cardinality(InFlight(p) \ {r}) = Cardinality(InFlight(p)) - 1
    BY <2>2, <2>3, FS_RemoveElement
  <2> QED
    BY <2>1, <2>4, InFlightCount
<1> QED
  BY <1>2, <1>3

-----------------------------------------------------------------------------
(* IInv is inductive: one lemma per kind of step. *)

\* The initial state satisfies the inductive invariant.
LEMMA InitIInv == Init => IInv
<1> SUFFICES ASSUME Init PROVE IInv
  OBVIOUS
<1> USE BreakerAssumption
<1>1. TypeOK
  BY NewWindowFacts DEF Init, UseInit, TypeOK
<1>2. ASSUME NEW p \in Policies
      PROVE  WindowInv(window[p]) /\ HistoryInv(p) /\ LossInv(p)
  BY NewWindowFacts DEF Init, UseInit, HistoryInv, LossInv, NewWindow, IsOpen, NotOpen, Lesser
<1> QED
  BY <1>1, <1>2 DEF IInv

\* What asking for the state does to one policy, whoever asks.
LEMMA AskedPolicy ==
    ASSUME IInv, NEW p \in Policies,
           window' = [window EXCEPT ![p] = AfterState(@)],
           CountProbe(p), UNCHANGED <<streak, quiet>>
    PROVE  /\ window' \in [Policies -> Window]
           /\ probes' \in [Policies -> 0 .. 2]
           /\ \A q \in Policies : WindowInv(window'[q]) /\ HistoryInv(q)'
           /\ \A q \in Policies : /\ IsOpen(window'[q]) = IsOpen(window[q])
                                  /\ window'[q].outcomes = window[q].outcomes
<1> USE BreakerAssumption
<1>1. window[p] \in Window /\ WindowInv(window[p])
  BY DEF IInv, TypeOK
<1>2. AfterState(window[p]) \in Window /\ WindowInv(AfterState(window[p]))
  BY <1>1, WindowSteps
<1>3. /\ window' \in [Policies -> Window]
      /\ window'[p] = AfterState(window[p])
      /\ \A q \in Policies \ {p} : window'[q] = window[q]
  BY <1>2 DEF IInv, TypeOK
<1>4. /\ probes' \in [Policies -> 0 .. 2]
      /\ \A q \in Policies \ {p} : probes'[q] = probes[q]
      /\ probes'[p] = IF Verdict(window[p]) = "HalfOpen"
                        THEN Lesser(probes[p] + 1, 2) ELSE probes[p]
  BY DEF CountProbe, IInv, TypeOK, Lesser
<1>5. /\ AfterState(window[p]).outcomes = window[p].outcomes
      /\ AfterState(window[p]).opened_at = window[p].opened_at
      /\ Verdict(window[p]) = "HalfOpen" =>
            ~window[p].probing /\ AfterState(window[p]).probing
      /\ Verdict(window[p]) # "HalfOpen" => AfterState(window[p]) = window[p]
  BY <1>1 DEF AfterState, Verdict, Window
<1>6. HistoryInv(p)'
  <2>1. probes'[p] = IF window'[p].probing THEN 1 ELSE 0
    <3>1. CASE Verdict(window[p]) = "HalfOpen"
      BY <1>3, <1>4, <1>5, <3>1 DEF IInv, HistoryInv, Lesser
    <3>2. CASE Verdict(window[p]) # "HalfOpen"
      BY <1>3, <1>4, <1>5, <3>2 DEF IInv, HistoryInv
    <3> QED
      BY <3>1, <3>2
  <2> QED
    BY <1>3, <1>5, <2>1 DEF IInv, HistoryInv, IsOpen
<1>7. ASSUME NEW q \in Policies, q # p PROVE HistoryInv(q)'
  BY <1>3, <1>4, <1>7 DEF IInv, HistoryInv, IsOpen
<1>8. ASSUME NEW q \in Policies
      PROVE /\ IsOpen(window'[q]) = IsOpen(window[q])
            /\ window'[q].outcomes = window[q].outcomes
  BY <1>3, <1>5 DEF IsOpen
<1>9. ASSUME NEW q \in Policies PROVE WindowInv(window'[q])
  BY <1>2, <1>3 DEF IInv
<1> QED
  BY <1>3, <1>4, <1>6, <1>7, <1>8, <1>9
\* Asking without getting through (no payment, or a refused one).
LEMMA AskStep ==
    ASSUME IInv, NEW p \in Policies,
           window' = [window EXCEPT ![p] = AfterState(@)],
           CountProbe(p), UNCHANGED <<req, probe, streak, quiet, giveaways>>
    PROVE  IInv'
<1>1. TypeOK'
  BY AskedPolicy DEF IInv, TypeOK
<1>2. ASSUME NEW q \in Policies PROVE LossInv(q)'
  <2>1. InFlight(q)' = InFlight(q)
    BY DEF InFlight
  <2> QED
    BY <2>1, AskedPolicy DEF IInv, LossInv
<1> QED
  BY <1>1, <1>2, AskedPolicy DEF IInv

\* A payment let past the breaker preserves it.
LEMMA AdmitStep ==
    ASSUME IInv, NEW r \in Requests, NEW p \in Policies, AdmitPayment(r, p)
    PROVE  IInv'
<1> USE BreakerAssumption DEF AdmitPayment, Admitted
<1>1. /\ window' \in [Policies -> Window]
      /\ probes' \in [Policies -> 0 .. 2]
      /\ \A q \in Policies : WindowInv(window'[q]) /\ HistoryInv(q)'
      /\ \A q \in Policies : /\ IsOpen(window'[q]) = IsOpen(window[q])
                             /\ window'[q].outcomes = window[q].outcomes
  BY AskedPolicy
<1>2. giveaways' \in [Policies -> Nat]
  BY DEF IInv, TypeOK
<1>3. TypeOK'
  BY <1>1, <1>2 DEF IInv, TypeOK
<1>4. ASSUME NEW q \in Policies, q # p PROVE LossInv(q)'
  <2>1. InFlight(q)' = InFlight(q)
    BY <1>4, PoliciesAssumption DEF InFlight, IInv, TypeOK
  <2>2. giveaways'[q] = giveaways[q]
    BY <1>4 DEF IInv, TypeOK
  <2> QED
    BY <1>1, <2>1, <2>2 DEF IInv, LossInv
<1>5. LossInv(p)'
  <2>1. CASE Verdict(window[p]) = "HalfOpen"
    <3>1. giveaways'[p] = 0
      BY <2>1 DEF IInv, TypeOK
    <3>2. /\ Cardinality(InFlight(p)') \in Nat
          /\ Cardinality(Requests) \in Nat
          /\ Cardinality(InFlight(p)') <= Cardinality(Requests)
      BY InFlightCount
    <3>3. IsOpen(window'[p])
      BY <1>1, <2>1 DEF Verdict
    <3> QED
      BY <3>1, <3>2, <3>3 DEF LossInv
  <2>2. CASE Verdict(window[p]) # "HalfOpen"
    <3>1. ~IsOpen(window[p])
      BY <2>2 DEF AcceptsPayment, Verdict
    <3>2. giveaways'[p] = giveaways[p]
      BY <2>2 DEF IInv, TypeOK
    <3> QED
      BY <1>1, <3>1, <3>2 DEF IInv, LossInv
  <2> QED
    BY <2>1, <2>2
<1> QED
  BY <1>1, <1>3, <1>4, <1>5 DEF IInv

\* record_success preserves it.
LEMMA SuccessStep ==
    ASSUME IInv, NEW r \in Requests, NEW p \in Policies, ReportSuccess(r, p)
    PROVE  IInv'
<1> USE BreakerAssumption DEF ReportSuccess, Reported, Record, RecordSuccess
<1>1. /\ window'[p] = NewWindow
      /\ \A q \in Policies \ {p} : window'[q] = window[q]
  BY DEF IInv, TypeOK
<1>2. TypeOK'
  BY NewWindowFacts DEF IInv, TypeOK
<1>3. WindowInv(window'[p]) /\ HistoryInv(p)' /\ LossInv(p)'
  BY <1>1, NewWindowFacts
     DEF IInv, TypeOK, HistoryInv, LossInv, NewWindow, IsOpen, NotOpen, Lesser
<1>4. ASSUME NEW q \in Policies, q # p
      PROVE  WindowInv(window'[q]) /\ HistoryInv(q)' /\ LossInv(q)'
  <2>1. InFlight(q)' = InFlight(q)
    BY <1>4, PoliciesAssumption, InFlightLeave DEF IInv
  <2>2. /\ streak'[q] = streak[q] /\ quiet'[q] = quiet[q]
        /\ probes'[q] = probes[q] /\ giveaways'[q] = giveaways[q]
    BY <1>4 DEF IInv, TypeOK
  <2> QED
    BY <1>1, <1>4, <2>1, <2>2 DEF IInv, HistoryInv, LossInv, IsOpen
<1> QED
  BY <1>2, <1>3, <1>4 DEF IInv

\* record_failure preserves it, tripping, restarting the cooldown or neither.
LEMMA FailureStep ==
    ASSUME IInv, NEW r \in Requests, NEW p \in Policies, ReportFailure(r, p)
    PROVE  IInv'
<1> USE BreakerAssumption
<1> DEFINE w == window[p]
           t == Trim(Append(w.outcomes, "failure"))
<1>1. w \in Window /\ WindowInv(w) /\ HistoryInv(p) /\ LossInv(p)
  BY DEF IInv, TypeOK
<1>2. /\ t \in Seq(Outcome) /\ AllFailures(t)
      /\ Len(t) = Lesser(Len(w.outcomes) + 1, WINDOW)
      /\ Trips(t) <=> Len(t) >= MIN_SAMPLES
      /\ Len(w.outcomes) \in Nat
  BY <1>1, PushTrim DEF Window, WindowInv
<1>3. RecordFailure(w) \in Window /\ WindowInv(RecordFailure(w))
  BY <1>1, WindowSteps
<1>4. window' = [window EXCEPT ![p] = RecordFailure(w)]
  BY DEF ReportFailure, Reported, Record
<1> HIDE DEF t
<1>5. /\ window'[p] = RecordFailure(w)
      /\ \A q \in Policies \ {p} : window'[q] = window[q]
      /\ window' \in [Policies -> Window]
  BY <1>3, <1>4 DEF IInv, TypeOK
<1>6. /\ window'[p].outcomes = t
      /\ window'[p].opened_at = IF IsOpen(w) \/ Trips(t) THEN 0 ELSE NotOpen
      /\ ~window'[p].probing
  BY <1>5 DEF RecordFailure, t
<1> HIDE DEF w
<1>7. /\ streak'[p] = Lesser(streak[p] + 1, MIN_SAMPLES)
      /\ quiet'[p] = 0 /\ probes'[p] = 0 /\ giveaways'[p] = giveaways[p] + 1
      /\ giveaways[p] \in Nat
  BY DEF IInv, TypeOK, ReportFailure
<1>8. TypeOK'
  <2>1. streak' \in [Policies -> 0 .. MIN_SAMPLES]
    BY DEF IInv, TypeOK, ReportFailure, Lesser
  <2>2. req' \in [Requests -> Policies \cup {Idle}] /\ probe' \subseteq Requests
    BY DEF IInv, TypeOK, ReportFailure, Reported
  <2>3. /\ quiet' \in [Policies -> 0 .. COOLDOWN_SECS]
        /\ probes' \in [Policies -> 0 .. 2]
        /\ giveaways' \in [Policies -> Nat]
    BY DEF IInv, TypeOK, ReportFailure
  <2> QED
    BY <1>5, <2>1, <2>2, <2>3 DEF TypeOK
<1>9. HistoryInv(p)'
  <2>1. streak[p] = Lesser(Len(w.outcomes), MIN_SAMPLES)
    BY <1>1 DEF HistoryInv, w
  <2>2. streak'[p] = Lesser(Len(t), MIN_SAMPLES)
    BY <1>2, <1>7, <2>1 DEF Lesser
  <2>3. IsOpen(window'[p]) => window'[p].opened_at = 0
    BY <1>6 DEF IsOpen
  <2> QED
    BY <1>6, <1>7, <2>2, <2>3 DEF HistoryInv
<1>10. LossInv(p)'
  <2>1. /\ Cardinality(InFlight(p)') = Cardinality(InFlight(p)) - 1
        /\ Cardinality(InFlight(p)') <= Cardinality(Requests) - 1
    BY PoliciesAssumption, InFlightLeave DEF IInv, ReportFailure, Reported
  <2>2. Cardinality(InFlight(p)) \in Nat /\ Cardinality(Requests) \in Nat
    BY InFlightCount
  <2>3. IsOpen(window'[p]) <=> IsOpen(w) \/ Len(t) >= MIN_SAMPLES
    BY <1>2, <1>6 DEF IsOpen, NotOpen
  <2>4. CASE IsOpen(w)
    BY <1>1, <1>7, <2>1, <2>2, <2>3, <2>4 DEF LossInv, w
  <2>5. CASE ~IsOpen(w) /\ Len(t) >= MIN_SAMPLES
    <3>1. giveaways[p] <= MIN_SAMPLES - 1
      BY <1>1, <1>2, <1>7, <2>5 DEF LossInv, WindowInv, w
    <3> QED
      BY <1>7, <2>1, <2>2, <2>3, <2>5, <3>1 DEF LossInv
  <2>6. CASE ~IsOpen(w) /\ ~(Len(t) >= MIN_SAMPLES)
    <3>1. Len(t) = Len(w.outcomes) + 1
      BY <1>2, <2>6 DEF Lesser
    <3> QED
      BY <1>1, <1>2, <1>6, <1>7, <2>3, <2>6, <3>1 DEF LossInv, w
  <2> QED
    BY <2>4, <2>5, <2>6
<1>11. ASSUME NEW q \in Policies, q # p
       PROVE  WindowInv(window'[q]) /\ HistoryInv(q)' /\ LossInv(q)'
  <2>1. InFlight(q)' = InFlight(q)
    BY <1>11, PoliciesAssumption, InFlightLeave DEF IInv, ReportFailure, Reported
  <2>2. /\ streak'[q] = streak[q] /\ quiet'[q] = quiet[q]
        /\ probes'[q] = probes[q] /\ giveaways'[q] = giveaways[q]
    BY <1>11 DEF IInv, TypeOK, ReportFailure
  <2> QED
    BY <1>5, <1>11, <2>1, <2>2 DEF IInv, HistoryInv, LossInv, IsOpen
<1> QED
  BY <1>3, <1>5, <1>8, <1>9, <1>10, <1>11 DEF IInv

\* A stream that ends without a report preserves it.
LEMMA EndStep ==
    ASSUME IInv, NEW r \in Requests, EndUnreported(r)
    PROVE  IInv'
<1> USE DEF EndUnreported, Ended
<1>1. TypeOK'
  BY DEF IInv, TypeOK
<1>2. ASSUME NEW q \in Policies
      PROVE  WindowInv(window'[q]) /\ HistoryInv(q)' /\ LossInv(q)'
  <2>0. /\ req[r] = q => Cardinality(InFlight(q)') = Cardinality(InFlight(q)) - 1
        /\ req[r] # q => InFlight(q)' = InFlight(q)
    BY InFlightLeave DEF IInv
  <2>1. Cardinality(InFlight(q)') <= Cardinality(InFlight(q))
    BY <2>0, InFlightCount
  <2>2. /\ Cardinality(InFlight(q)) \in Nat /\ Cardinality(Requests) \in Nat
        /\ Cardinality(InFlight(q)') \in Nat
    BY InFlightCount
  <2>3. giveaways[q] \in Nat
    BY DEF IInv, TypeOK
  <2>4. LossInv(q)'
    BY <2>1, <2>2, <2>3, BreakerAssumption DEF IInv, LossInv
  <2> QED
    BY <2>4 DEF IInv, HistoryInv
<1> QED
  BY <1>1, <1>2 DEF IInv

\* A second passing preserves it.
LEMMA TickStep ==
    ASSUME IInv, Tick
    PROVE  IInv'
<1> USE BreakerAssumption DEF Tick, Waited
<1>1. TypeOK'
  BY WindowSteps DEF IInv, TypeOK, Lesser
<1>2. ASSUME NEW q \in Policies
      PROVE  WindowInv(window'[q]) /\ HistoryInv(q)' /\ LossInv(q)'
  <2>1. window[q] \in Window /\ window'[q] = Elapse(window[q])
    BY DEF IInv, TypeOK
  <2>2. /\ window'[q].outcomes = window[q].outcomes
        /\ window'[q].probing = window[q].probing
        /\ IsOpen(window'[q]) <=> IsOpen(window[q])
        /\ IsOpen(window[q]) =>
              window'[q].opened_at = Lesser(window[q].opened_at + 1, COOLDOWN_SECS)
    BY <2>1 DEF Elapse, Window, IsOpen, NotOpen, Lesser
  <2>3. WindowInv(window'[q])
    BY <2>1, WindowSteps DEF IInv
  <2>4. HistoryInv(q)'
    <3>1. quiet'[q] = Lesser(quiet[q] + 1, COOLDOWN_SECS)
      OBVIOUS
    <3>2. probes'[q] = IF window'[q].probing THEN 1 ELSE 0
      BY <2>2 DEF IInv, HistoryInv
    <3> QED
      BY <2>2, <3>1, <3>2 DEF IInv, HistoryInv
  <2>5. LossInv(q)'
    <3>1. InFlight(q)' = InFlight(q)
      BY DEF InFlight
    <3> QED
      BY <2>2, <3>1 DEF IInv, LossInv
  <2> QED
    BY <2>3, <2>4, <2>5
<1> QED
  BY <1>1, <1>2 DEF IInv

\* A restart preserves it: it leaves what Init allows.
LEMMA RestartStep ==
    ASSUME IInv, Restart
    PROVE  IInv'
<1> USE BreakerAssumption
<1>1. TypeOK'
  BY NewWindowFacts DEF Restart, Restarted, TypeOK
<1>2. ASSUME NEW q \in Policies
      PROVE  WindowInv(window'[q]) /\ HistoryInv(q)' /\ LossInv(q)'
  BY NewWindowFacts
     DEF Restart, Restarted, HistoryInv, LossInv, NewWindow, IsOpen, NotOpen, Lesser
<1> QED
  BY <1>1, <1>2 DEF IInv

\* The invariant is inductive.
LEMMA NextIInv == IInv /\ [Next]_vars => IInv'
<1> SUFFICES ASSUME IInv, [Next]_vars PROVE IInv'
  OBVIOUS
<1>1. ASSUME NEW p \in Policies, AskWithoutPayment(p) PROVE IInv'
  BY <1>1, AskStep DEF AskWithoutPayment, Asked
<1>2. ASSUME NEW r \in Requests, NEW p \in Policies, AdmitPayment(r, p) PROVE IInv'
  BY <1>2, AdmitStep
<1>3. ASSUME NEW r \in Requests, NEW p \in Policies, RefusePayment(r, p) PROVE IInv'
  BY <1>3, AskStep DEF RefusePayment, Refused, Asked
<1>4. ASSUME NEW r \in Requests, NEW p \in Policies, ReportSuccess(r, p) PROVE IInv'
  BY <1>4, SuccessStep
<1>5. ASSUME NEW r \in Requests, NEW p \in Policies, ReportFailure(r, p) PROVE IInv'
  BY <1>5, FailureStep
<1>6. ASSUME NEW r \in Requests, EndUnreported(r) PROVE IInv'
  BY <1>6, EndStep
<1>7. CASE Tick
  BY <1>7, TickStep
<1>8. CASE Restart
  BY <1>8, RestartStep
<1>9. CASE UNCHANGED vars
  <2>1. \A q : InFlight(q)' = InFlight(q)
    BY <1>9 DEF InFlight, vars
  <2> QED
    BY <1>9, <2>1 DEF IInv, TypeOK, HistoryInv, LossInv, vars
<1> QED
  BY <1>1, <1>2, <1>3, <1>4, <1>5, <1>6, <1>7, <1>8, <1>9 DEF Next

\* It holds in every reachable state.
LEMMA AlwaysIInv == Spec => []IInv
  BY InitIInv, NextIInv, PTL DEF Spec

-----------------------------------------------------------------------------
(* The theorems. *)

\* Every reachable state of the breaker and its streams is well typed.
THEOREM TypeCorrect == Spec => []TypeOK
<1>1. IInv => TypeOK
  BY DEF IInv
<1> QED
  BY <1>1, AlwaysIInv, PTL

\* A run of MIN_SAMPLES failures trips record_at's window, and only a window whose
\* last report was a failure is tripped.
THEOREM RunTrips == Spec => []TripsOnRun
<1>1. IInv => TripsOnRun
  <2> SUFFICES ASSUME IInv, NEW p \in Policies
               PROVE  /\ streak[p] = MIN_SAMPLES => IsOpen(window[p])
                      /\ IsOpen(window[p]) => streak[p] > 0
    BY DEF TripsOnRun
  <2>1. Len(window[p].outcomes) \in Nat
    BY DEF IInv, TypeOK, Window
  <2> QED
    BY <2>1, BreakerAssumption DEF IInv, WindowInv, HistoryInv, Lesser
<1> QED
  BY <1>1, AlwaysIInv, PTL

\* state_at hands out one half-open verdict per reported outcome, whatever the
\* number of racing requests.
THEOREM OneProbe == Spec => []OneProbePerReport
<1>1. IInv => OneProbePerReport
  BY DEF IInv, HistoryInv, OneProbePerReport
<1> QED
  BY <1>1, AlwaysIInv, PTL

\* The number of paid responses given away on a policy between two successes,
\* probes or restarts is bounded by the trip run plus the streams in flight.
THEOREM LossBounded == Spec => []GiveawaysBounded
<1>1. IInv => GiveawaysBounded
  <2> SUFFICES ASSUME IInv, NEW p \in Policies
               PROVE  giveaways[p] <= MIN_SAMPLES - 1 + Cardinality(Requests)
    BY DEF GiveawaysBounded
  <2>1. /\ Len(window[p].outcomes) \in Nat /\ giveaways[p] \in Nat
        /\ Cardinality(InFlight(p)) \in Nat /\ Cardinality(Requests) \in Nat
    BY InFlightCount DEF IInv, TypeOK, Window
  <2> QED
    BY <2>1, BreakerAssumption DEF IInv, WindowInv, LossInv
<1> QED
  BY <1>1, AlwaysIInv, PTL

\* No payment is let past a tripped policy before a full cooldown since the
\* last failure reported on it.
THEOREM CooldownRespected == Spec => CooldownAfterLastFailure
<1>1. IInv /\ [Next]_vars =>
        [\A r \in Requests, p \in Policies :
            (req[r] = Idle /\ req'[r] = p)
               => (streak[p] < MIN_SAMPLES \/ quiet[p] = COOLDOWN_SECS)]_vars
  <2> SUFFICES ASSUME IInv, Next, NEW r \in Requests, NEW p \in Policies,
                      req[r] = Idle, req'[r] = p
               PROVE  streak[p] < MIN_SAMPLES \/ quiet[p] = COOLDOWN_SECS
    BY DEF vars
  <2>0. p # Idle
    BY PoliciesAssumption
  <2>1. AdmitPayment(r, p)
    <3>1. ASSUME NEW s \in Requests, NEW q \in Policies, AdmitPayment(s, q)
          PROVE  AdmitPayment(r, p)
      BY <2>0, <3>1 DEF AdmitPayment, Admitted, IInv, TypeOK
    <3>2. ASSUME NEW s \in Requests, req' = [req EXCEPT ![s] = Idle] PROVE FALSE
      BY <2>0, <3>2 DEF IInv, TypeOK
    <3>3. ~UNCHANGED req
      BY <2>0
    <3>4. req' # [s \in Requests |-> Idle]
      BY <2>0
    <3> QED
      BY <3>1, <3>2, <3>3, <3>4
         DEF Next, AskWithoutPayment, Asked, RefusePayment, Refused, ReportSuccess,
             ReportFailure, Reported, EndUnreported, Ended, Tick, Waited, Restart, Restarted
  <2>2. /\ WindowInv(window[p]) /\ HistoryInv(p) /\ window[p] \in Window
        /\ Len(window[p].outcomes) \in Nat
    BY DEF IInv, TypeOK, Window
  <2>3. ~IsOpen(window[p]) \/ ~(window[p].opened_at < COOLDOWN_SECS)
    BY <2>1 DEF AdmitPayment, Admitted, AcceptsPayment, Verdict
  <2>4. IsOpen(window[p]) => window[p].opened_at <= COOLDOWN_SECS
    BY <2>2, BreakerAssumption DEF Window, IsOpen, NotOpen
  <2> QED
    BY <2>2, <2>3, <2>4, BreakerAssumption
       DEF WindowInv, HistoryInv, Lesser, Window, NotOpen, IsOpen
<1> QED
  BY <1>1, AlwaysIInv, PTL DEF Spec, CooldownAfterLastFailure
=============================================================================
