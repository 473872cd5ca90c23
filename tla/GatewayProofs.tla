---------------------------- MODULE GatewayProofs ----------------------------
(***************************************************************************)
(* Proofs about Gateway, for any sets of surfaces, payments and policies,  *)
(* any TTLs and any number of restarts.                                    *)
(*                                                                         *)
(* Mutual exclusion is not inductive by itself.  What makes it so is that  *)
(* the record of a payment being worked on is exactly as old as the work   *)
(* (HoldInv): it is younger than every TTL a claim can come with and than  *)
(* the sweep's limit, so nobody is granted the payment and nobody but its  *)
(* holder takes the record away.  SoldInv adds what is sold and what the   *)
(* chain holds, ClosedInv how long an attempt to settle blocks the next.   *)
(* LabelInv, at the end, is what the breaker is used under.                *)
(***************************************************************************)
EXTENDS Gateway, TLAPS

HoldInv ==
    \A h \in Holders :
       /\ holder[h].pc # "idle" => holder[h].pay \in Payments
       /\ holder[h].pc = "claim" => holder[h].ttl >= FLOOR /\ holder[h].held = 0
       /\ (holder[h].pc \in Working /\ holder[h].pay \in Identified)
             => claims[holder[h].pay] = holder[h].held

SoldInv ==
    ~StubMode =>
       /\ \A p \in Payments :
             /\ p \in Pinned => minted[p] <= 1
             /\ minted[p] > 0 => chain[p] = "landed"
       /\ \A h \in Holders :
             /\ holder[h].pc \in {"execute", "settled"} =>
                   /\ holder[h].pay \in Identified
                   /\ holder[h].pay \in Pinned => minted[holder[h].pay] = 0
             /\ holder[h].pc = "settled" => chain[holder[h].pay] = "landed"

ClosedInv ==
    \A p \in Identified :
       (/\ closed[p] # NoClaim
        /\ closed[p] + MaxHold < FLOOR
        /\ closed[p] + MaxHold < RETENTION)
          => /\ claims[p] \in closed[p] .. closed[p] + MaxHold
             /\ \A h \in Holders : ~Holds(h, p)

Core == HoldersExclusive /\ HoldInv /\ SoldInv /\ ClosedInv

IInv == TypeOK /\ Core

-----------------------------------------------------------------------------
(* Constants and operators *)

\* replay_ttl is at least its floor, whatever timeout is asked for.
LEMMA TtlFacts ==
    ASSUME NEW t \in Nat
    PROVE  ReplayTtl(t) \in Nat /\ ReplayTtl(t) >= FLOOR
<1>1. t * MULTIPLIER \in Nat
  BY ReplayAssumption
<1> QED
  BY <1>1, ReplayAssumption DEF ReplayTtl

\* Every breaker operation maps a Window to a Window.
LEMMA WindowType ==
    ASSUME NEW w \in Window
    PROVE  /\ AfterState(w) \in Window
           /\ Record(w, TRUE) \in Window
           /\ Record(w, FALSE) \in Window
           /\ Elapse(w) \in Window
           /\ NewWindow \in Window
<1> USE BreakerAssumption
<1>1. AfterState(w) \in Window
  BY DEF AfterState, Window
<1>2. NewWindow \in Window
  BY DEF NewWindow, Window, NotOpen
<1>3. Record(w, FALSE) \in Window
  BY <1>2 DEF Record, RecordSuccess
<1>4. Record(w, TRUE) \in Window
  <2> DEFINE t == Trim(Append(w.outcomes, "failure"))
  <2>1. t \in Seq(Outcome)
    BY DEF Trim, Window, Outcome
  <2> DEFINE o == IF IsOpen(w) \/ Trips(t) THEN 0 ELSE NotOpen
  <2>2. Record(w, TRUE) = [outcomes |-> t, opened_at |-> o, probing |-> FALSE]
    BY DEF Record, RecordFailure
  <2>3. o \in {NotOpen} \cup (0 .. COOLDOWN_SECS)
    OBVIOUS
  <2> HIDE DEF t, o
  <2>4. [outcomes |-> t, opened_at |-> o, probing |-> FALSE] \in Window
    BY <2>1, <2>3 DEF Window
  <2> QED
    BY <2>2, <2>4, Zenon
<1>5. Elapse(w) \in Window
  BY DEF Elapse, Window, IsOpen, NotOpen
<1> QED
  BY <1>1, <1>2, <1>3, <1>4, <1>5

\* The two values a claim is set to are claims.
LEMMA ClaimFacts == 0 \in Claim /\ NoClaim \in Claim
  BY ReplayAssumption DEF Claim

\* A surface at rest is a well-typed attempt.
LEMMA IdleType == IdleAttempt \in Attempt
  BY HoldAssumption DEF IdleAttempt, Attempt

-----------------------------------------------------------------------------
(* Shapes of steps *)

\* One surface moves, on the same payment if it keeps working; what is on
\* chain stays there.
LEMMA MoveStep ==
    ASSUME IInv, NEW h \in Holders, NEW a \in Attempt,
           holder' = [holder EXCEPT ![h] = a],
           UNCHANGED <<claims, minted, closed>>,
           \A p \in Payments : chain[p] = "landed" => chain'[p] = "landed",
           \/ a.pc = "idle"
           \/ a.pc = "claim" /\ a.pay \in Payments /\ a.ttl >= FLOOR /\ a.held = 0
           \/ a.pc \in {"verify", "settle"} /\ a.pay \in Opaque
           \/ /\ a.pc \in Working
              /\ holder[h].pc \in Working
              /\ a.pay = holder[h].pay
              /\ a.held = holder[h].held
              /\ ~StubMode =>
                    /\ a.pc = "execute" =>
                          /\ a.pay \in Identified
                          /\ a.pay \in Pinned => minted[a.pay] = 0
                    /\ a.pc = "settled" => /\ holder[h].pc = "execute"
                                           /\ chain'[a.pay] = "landed"
    PROVE  Core'
<1> USE GatewayAssumption
<1>1. /\ holder \in [Holders -> Attempt]
      /\ holder'[h] = a
      /\ \A g \in Holders : g # h => holder'[g] = holder[g]
  BY DEF IInv, TypeOK
<1>2. HoldInv'
  BY <1>1 DEF IInv, Core, HoldInv, Identified, Working
<1>3. \A g \in Holders, p \in Identified : Holds(g, p)' => Holds(g, p)
  BY <1>1 DEF Holds, Identified, Working
<1>4. HoldersExclusive'
  BY <1>3 DEF IInv, Core, HoldersExclusive, Identified
<1>5. SoldInv'
  <2> SUFFICES ASSUME ~StubMode PROVE SoldInv'
    BY DEF SoldInv
  <2>1. \A p \in Payments : /\ p \in Pinned => minted'[p] <= 1
                            /\ minted'[p] > 0 => chain'[p] = "landed"
    BY DEF IInv, Core, SoldInv
  <2>2. ASSUME NEW g \in Holders
        PROVE  /\ holder'[g].pc \in {"execute", "settled"}
                     => /\ holder'[g].pay \in Identified
                        /\ holder'[g].pay \in Pinned => minted'[holder'[g].pay] = 0
               /\ holder'[g].pc = "settled" => chain'[holder'[g].pay] = "landed"
    BY <1>1 DEF IInv, Core, SoldInv, Identified, Working
  <2> QED
    BY <2>1, <2>2 DEF SoldInv, Identified
<1>6. ClosedInv'
  BY <1>3 DEF IInv, Core, ClosedInv, Identified
<1> QED
  BY <1>2, <1>4, <1>5, <1>6 DEF Core

\* A surface leaves and gives the record of its payment back.
LEMMA ReleaseStep ==
    ASSUME IInv, NEW h \in Holders, holder[h].pc \in Working,
           Leave(h),
           claims' = IF holder[h].pay \in Identified
                     THEN [claims EXCEPT ![holder[h].pay] = AfterRelease(@)]
                     ELSE claims,
           UNCHANGED <<minted, closed, chain>>
    PROVE  Core'
<1> USE GatewayAssumption
<1>1. /\ holder \in [Holders -> Attempt]
      /\ claims \in [Payments -> Claim]
      /\ holder'[h] = IdleAttempt
      /\ \A g \in Holders : g # h => holder'[g] = holder[g]
  BY DEF IInv, TypeOK, Leave
<1>2. \A g \in Holders, p \in Identified : Holds(g, p)' => Holds(g, p) /\ g # h
  BY <1>1 DEF Holds, Working, IdleAttempt
<1>3. \A p \in Identified : p # holder[h].pay => claims'[p] = claims[p]
  BY <1>1 DEF Identified
<1>4. HoldersExclusive'
  BY <1>2 DEF IInv, Core, HoldersExclusive, Identified
<1>5. HoldInv'
  <2> SUFFICES ASSUME NEW g \in Holders, g # h
               PROVE  (holder[g].pc \in Working /\ holder[g].pay \in Identified)
                         => claims'[holder[g].pay] = holder[g].held
    BY <1>1 DEF IInv, Core, HoldInv, IdleAttempt, Working, Identified
  <2>1. holder[g].pc \in Working /\ holder[g].pay \in Identified
           => holder[g].pay # holder[h].pay
    BY DEF IInv, Core, HoldersExclusive, Holds
  <2> QED
    BY <1>3, <2>1 DEF IInv, Core, HoldInv
<1>6. SoldInv'
  BY <1>1 DEF IInv, Core, SoldInv, IdleAttempt, Identified
<1>7. ClosedInv'
  <2> SUFFICES ASSUME NEW p \in Identified,
                      closed[p] # NoClaim,
                      closed[p] + MaxHold < FLOOR,
                      closed[p] + MaxHold < RETENTION
               PROVE  /\ claims'[p] \in closed[p] .. closed[p] + MaxHold
                      /\ \A g \in Holders : ~Holds(g, p)'
    BY DEF ClosedInv, Identified, Holds
  <2>1. /\ claims[p] \in closed[p] .. closed[p] + MaxHold
        /\ \A g \in Holders : ~Holds(g, p)
    BY DEF IInv, Core, ClosedInv
  <2>2. p # holder[h].pay
    BY <2>1 DEF Holds
  <2> QED
    BY <1>2, <1>3, <2>1, <2>2
<1> QED
  BY <1>4, <1>5, <1>6, <1>7 DEF Core

\* claim_payment answers Fresh: nobody else can be working on the payment, for
\* then its record would be too young.
LEMMA ClaimStep ==
    ASSUME IInv, NEW h \in Holders, ClaimFresh(h)
    PROVE  Core'
<1> USE GatewayAssumption, HoldAssumption, ReplayAssumption
<1> DEFINE q == holder[h].pay
<1>1. /\ holder \in [Holders -> Attempt]
      /\ claims \in [Payments -> Claim]
      /\ q \in Identified /\ q \in Payments
      /\ holder[h].ttl \in Nat /\ holder[h].ttl >= FLOOR
      /\ holder[h].held = 0
      /\ holder[h].pc = "claim"
  BY DEF IInv, TypeOK, Core, HoldInv, ClaimFresh, Identified, Attempt
<1>2. /\ holder'[h] = [holder[h] EXCEPT !.pc = Granted(h)]
      /\ \A g \in Holders : g # h => holder'[g] = holder[g]
      /\ claims'[q] = 0
      /\ \A p \in Payments : p # q => claims'[p] = claims[p]
      /\ UNCHANGED <<chain, minted, closed>>
  BY <1>1 DEF ClaimFresh, Become, AfterClaim
<1>3. /\ holder'[h].pc = Granted(h) /\ holder'[h].pay = q
      /\ holder'[h].held = 0
      /\ Granted(h) \in {"verify", "settle"}
  BY <1>1, <1>2 DEF Attempt, Granted
<1>4. claims[q] = NoClaim \/ claims[q] >= FLOOR
  <2>1. claims[q] = NoClaim \/ claims[q] >= holder[h].ttl
    BY DEF ClaimFresh, IsFresh
  <2>2. claims[q] \in Int
    BY <1>1 DEF Claim, NoClaim
  <2> QED
    BY <1>1, <2>1, <2>2
<1>5. \A g \in Holders : ~Holds(g, q)
  <2> SUFFICES ASSUME NEW g \in Holders, Holds(g, q) PROVE FALSE
    OBVIOUS
  <2>1. claims[q] = holder[g].held
    BY <1>1 DEF IInv, Core, HoldInv, Holds
  <2>2. holder[g].held \in 0 .. MaxHold
    BY <1>1 DEF Attempt
  <2> QED
    BY <1>4, <2>1, <2>2 DEF NoClaim
<1>6. \A g \in Holders, p \in Identified : Holds(g, p)' => Holds(g, p) \/ (g = h /\ p = q)
  BY <1>2, <1>3 DEF Holds
<1>7. HoldersExclusive'
  BY <1>5, <1>6 DEF IInv, Core, HoldersExclusive, Identified
<1>8. HoldInv'
  <2> SUFFICES ASSUME NEW g \in Holders
               PROVE  /\ holder'[g].pc # "idle" => holder'[g].pay \in Payments
                      /\ holder'[g].pc = "claim"
                            => holder'[g].ttl >= FLOOR /\ holder'[g].held = 0
                      /\ (holder'[g].pc \in Working /\ holder'[g].pay \in Identified)
                            => claims'[holder'[g].pay] = holder'[g].held
    BY DEF HoldInv, Identified, Working
  <2>1. CASE g = h
    BY <1>1, <1>2, <1>3, <2>1
  <2>2. CASE g # h
    BY <1>2, <1>5, <2>2 DEF IInv, Core, HoldInv, Holds, Identified
  <2> QED
    BY <2>1, <2>2
<1>9. SoldInv'
  <2>1. \A g \in Holders : holder'[g].pc \in {"execute", "settled"} => holder'[g] = holder[g]
    BY <1>2, <1>3
  <2> QED
    BY <1>2, <2>1 DEF IInv, Core, SoldInv, Identified
<1>10. ClosedInv'
  <2> SUFFICES ASSUME NEW p \in Identified,
                      closed[p] # NoClaim,
                      closed[p] + MaxHold < FLOOR,
                      closed[p] + MaxHold < RETENTION
               PROVE  /\ claims'[p] \in closed[p] .. closed[p] + MaxHold
                      /\ \A g \in Holders : ~Holds(g, p)'
    BY <1>2 DEF ClosedInv, Identified, Holds
  <2>1. /\ claims[p] \in closed[p] .. closed[p] + MaxHold
        /\ \A g \in Holders : ~Holds(g, p)
    BY DEF IInv, Core, ClosedInv
  <2>2. closed[p] \in 0 .. HORIZON
    BY DEF IInv, TypeOK, Identified, Claim
  <2>3. p # q
    BY <1>4, <2>1, <2>2 DEF NoClaim
  <2> QED
    BY <1>2, <1>6, <2>1, <2>3 DEF Identified
<1> QED
  BY <1>7, <1>8, <1>9, <1>10 DEF Core

\* A surface leaves and its claim stays: the record is as young as its work,
\* and whoever else holds something holds another payment.
LEMMA CloseStep ==
    ASSUME IInv, NEW h \in Holders, holder[h].pc \in Working,
           Close(holder[h].pay), Leave(h), UNCHANGED claims
    PROVE  HoldersExclusive' /\ HoldInv' /\ ClosedInv'
<1> USE GatewayAssumption, HoldAssumption
<1> DEFINE q == holder[h].pay
<1>1. /\ holder \in [Holders -> Attempt]
      /\ closed \in [Payments -> Claim]
      /\ holder[h].pc \in Working
      /\ q \in Payments
      /\ holder'[h] = IdleAttempt
      /\ \A g \in Holders : g # h => holder'[g] = holder[g]
      /\ closed'[q] = 0
      /\ \A p \in Payments : p # q => closed'[p] = closed[p]
      /\ UNCHANGED claims
  BY DEF IInv, TypeOK, Core, HoldInv, Close, Leave, Working
<1>2. \A g \in Holders, p \in Identified : Holds(g, p)' => Holds(g, p) /\ g # h
  BY <1>1 DEF Holds, Working, IdleAttempt
<1>3. HoldersExclusive'
  BY <1>2 DEF IInv, Core, HoldersExclusive, Identified
<1>4. HoldInv'
  BY <1>1 DEF IInv, Core, HoldInv, IdleAttempt, Working, Identified
<1>5. ClosedInv'
  <2> SUFFICES ASSUME NEW p \in Identified,
                      closed'[p] # NoClaim,
                      closed'[p] + MaxHold < FLOOR,
                      closed'[p] + MaxHold < RETENTION
               PROVE  /\ claims[p] \in closed'[p] .. closed'[p] + MaxHold
                      /\ \A g \in Holders : ~Holds(g, p)'
    BY <1>1 DEF ClosedInv, Identified, Holds
  <2>1. CASE p = q
    <3>1. Holds(h, p)
      BY <1>1, <2>1 DEF Holds
    <3>2. claims[p] = holder[h].held /\ holder[h].held \in 0 .. MaxHold
      BY <1>1, <2>1 DEF IInv, Core, HoldInv, Working, Attempt
    <3>3. \A g \in Holders : ~Holds(g, p)'
      BY <1>2, <3>1 DEF IInv, Core, HoldersExclusive
    <3> QED
      BY <1>1, <2>1, <3>2, <3>3
  <2>2. CASE p # q
    BY <1>1, <1>2, <2>2 DEF IInv, Core, ClosedInv, Identified
  <2> QED
    BY <2>1, <2>2
<1> QED
  BY <1>3, <1>4, <1>5

\* A settled surface leaves, with or without a session.
LEMMA MintStep ==
    ASSUME IInv, NEW h \in Holders, holder[h].pc = "settled",
           MayMint(holder[h].pay), Close(holder[h].pay), Leave(h),
           UNCHANGED <<claims, chain>>
    PROVE  Core'
<1> USE GatewayAssumption
<1> DEFINE q == holder[h].pay
<1>1. /\ holder \in [Holders -> Attempt]
      /\ minted \in [Payments -> 0 .. 2]
      /\ q \in Payments
      /\ holder'[h] = IdleAttempt
      /\ \A g \in Holders : g # h => holder'[g] = holder[g]
  BY DEF IInv, TypeOK, Core, HoldInv, Leave
<1>2. "settled" \in Working
  BY DEF Working
<1>3. HoldersExclusive' /\ HoldInv' /\ ClosedInv'
  BY <1>2, CloseStep
<1>4. SoldInv'
  <2> SUFFICES ASSUME ~StubMode PROVE SoldInv'
    BY DEF SoldInv
  <2>1. /\ q \in Identified
        /\ q \in Pinned => minted[q] = 0
        /\ chain[q] = "landed"
    BY DEF IInv, Core, SoldInv
  <2>2. /\ q \in Pinned => minted'[q] <= 1
        /\ \A p \in Payments : p # q => minted'[p] = minted[p]
    BY <1>1, <2>1 DEF MayMint, Fewer
  <2>3. ASSUME NEW g \in Holders, g # h, holder[g].pc \in {"execute", "settled"}
        PROVE  holder[g].pay # q
    BY <2>1, <2>3 DEF IInv, Core, HoldersExclusive, Holds, Working
  <2>4. \A p \in Payments : /\ p \in Pinned => minted'[p] <= 1
                            /\ minted'[p] > 0 => chain'[p] = "landed"
    BY <2>1, <2>2 DEF IInv, Core, SoldInv
  <2>5. ASSUME NEW g \in Holders
        PROVE  /\ holder'[g].pc \in {"execute", "settled"}
                     => /\ holder'[g].pay \in Identified
                        /\ holder'[g].pay \in Pinned => minted'[holder'[g].pay] = 0
               /\ holder'[g].pc = "settled" => chain'[holder'[g].pay] = "landed"
    <3>1. CASE g = h
      BY <1>1, <3>1 DEF IdleAttempt
    <3>2. CASE g # h
      BY <1>1, <2>2, <2>3, <3>2 DEF IInv, Core, SoldInv, Identified
    <3> QED
      BY <3>1, <3>2
  <2> QED
    BY <2>4, <2>5 DEF SoldInv, Identified
<1> QED
  BY <1>3, <1>4 DEF Core

\* A surface leaves with its claim kept and nothing sold.
LEMMA FailStep ==
    ASSUME IInv, NEW h \in Holders, holder[h].pc \in Working,
           Close(holder[h].pay), Leave(h), UNCHANGED <<claims, chain, minted>>
    PROVE  Core'
<1>1. /\ holder \in [Holders -> Attempt]
      /\ holder'[h] = IdleAttempt
      /\ \A g \in Holders : g # h => holder'[g] = holder[g]
  BY DEF IInv, TypeOK, Leave
<1>2. SoldInv'
  BY <1>1 DEF IInv, Core, SoldInv, IdleAttempt, Identified
<1> QED
  BY <1>2, CloseStep DEF Core

\* The cleanup task reaps only records older than any work.
LEMMA SweepStep ==
    ASSUME IInv, NEW q \in Payments, Sweep(q)
    PROVE  Core'
<1> USE GatewayAssumption, HoldAssumption, ReplayAssumption
<1>1. /\ claims[q] >= RETENTION /\ claims[q] \in Int
      /\ \A p \in Payments : p # q => claims'[p] = claims[p]
      /\ UNCHANGED <<holder, chain, minted, closed>>
      /\ holder \in [Holders -> Attempt]
      /\ closed \in [Payments -> Claim]
  BY DEF IInv, TypeOK, Sweep, AfterSweep, Claim, NoClaim
<1>2. ASSUME NEW g \in Holders, holder[g].pc \in Working, holder[g].pay \in Identified
      PROVE  holder[g].pay # q
  BY <1>1, <1>2 DEF IInv, Core, HoldInv, Attempt
<1>3. HoldersExclusive'
  BY <1>1 DEF IInv, Core, HoldersExclusive, Holds, Identified
<1>4. HoldInv'
  BY <1>1, <1>2 DEF IInv, Core, HoldInv, Identified
<1>5. SoldInv'
  BY <1>1 DEF IInv, Core, SoldInv, Identified
<1>6. ClosedInv'
  <2> SUFFICES ASSUME NEW p \in Identified,
                      closed[p] # NoClaim,
                      closed[p] + MaxHold < FLOOR,
                      closed[p] + MaxHold < RETENTION
               PROVE  /\ claims'[p] \in closed[p] .. closed[p] + MaxHold
                      /\ \A g \in Holders : ~Holds(g, p)
    BY <1>1 DEF ClosedInv, Identified, Holds
  <2>1. /\ claims[p] \in closed[p] .. closed[p] + MaxHold
        /\ \A g \in Holders : ~Holds(g, p)
    BY DEF IInv, Core, ClosedInv
  <2>2. closed[p] \in 0 .. HORIZON
    BY <1>1 DEF Identified, Claim
  <2>3. p # q
    BY <1>1, <2>1, <2>2
  <2> QED
    BY <1>1, <2>1, <2>3 DEF Identified
<1> QED
  BY <1>3, <1>4, <1>5, <1>6 DEF Core

\* The chain moves on by itself; what has landed stays.
LEMMA ChainStep ==
    ASSUME IInv, UNCHANGED <<holder, claims, minted, closed>>,
           \A p \in Payments : chain[p] = "landed" => chain'[p] = "landed"
    PROVE  Core'
<1>1. HoldersExclusive' /\ HoldInv' /\ ClosedInv'
  BY DEF IInv, Core, HoldersExclusive, HoldInv, ClosedInv, Holds, Identified
<1>2. SoldInv'
  <2>1. ASSUME NEW g \in Holders, ~StubMode, holder[g].pc = "settled"
        PROVE  chain'[holder[g].pay] = "landed"
    BY <2>1 DEF IInv, Core, SoldInv, Identified
  <2> QED
    BY <2>1 DEF IInv, Core, SoldInv, Identified
<1> QED
  BY <1>1, <1>2 DEF Core

\* A second passes: work and records age together.
LEMMA AgeStep ==
    ASSUME IInv, Tick
    PROVE  Core'
<1> USE GatewayAssumption, HoldAssumption, ReplayAssumption
<1>1. /\ holder \in [Holders -> Attempt]
      /\ claims \in [Payments -> Claim]
      /\ closed \in [Payments -> Claim]
      /\ UNCHANGED <<chain, minted>>
      /\ \A p \in Payments : claims'[p] = Older(claims[p])
      /\ \A p \in Payments : closed'[p] = Older(closed[p])
  BY DEF IInv, TypeOK, Tick
<1>2. ASSUME NEW g \in Holders
      PROVE  /\ holder'[g].pc = holder[g].pc /\ holder'[g].pay = holder[g].pay
             /\ holder'[g].ttl = holder[g].ttl
             /\ holder[g].pc \in Working => /\ holder'[g].held = holder[g].held + 1
                                             /\ holder[g].held < MaxHold
             /\ holder[g].pc \notin Working => holder'[g] = holder[g]
             /\ holder[g].held \in 0 .. MaxHold
  BY <1>1 DEF Tick, Attempt
<1>3. HoldersExclusive'
  BY <1>2 DEF IInv, Core, HoldersExclusive, Holds, Identified
<1>4. HoldInv'
  <2> SUFFICES ASSUME NEW g \in Holders
               PROVE  /\ holder'[g].pc # "idle" => holder'[g].pay \in Payments
                      /\ holder'[g].pc = "claim"
                            => holder'[g].ttl >= FLOOR /\ holder'[g].held = 0
                      /\ (holder'[g].pc \in Working /\ holder'[g].pay \in Identified)
                            => claims'[holder'[g].pay] = holder'[g].held
    BY DEF HoldInv, Identified, Working
  <2>1. /\ holder'[g].pc # "idle" => holder'[g].pay \in Payments
        /\ holder'[g].pc = "claim" => holder'[g].ttl >= FLOOR /\ holder'[g].held = 0
    BY <1>2 DEF IInv, Core, HoldInv, Working
  <2>2. ASSUME holder[g].pc \in Working, holder[g].pay \in Identified
        PROVE  claims'[holder[g].pay] = holder'[g].held
    <3>1. /\ claims[holder[g].pay] = holder[g].held
          /\ claims'[holder[g].pay] = Older(claims[holder[g].pay])
      BY <1>1, <2>2 DEF IInv, Core, HoldInv, Identified
    <3> QED
      BY <1>2, <2>2, <3>1 DEF Older, NoClaim
  <2> QED
    BY <1>2, <2>1, <2>2
<1>5. SoldInv'
  BY <1>1, <1>2 DEF IInv, Core, SoldInv, Identified
<1>6. ClosedInv'
  <2> SUFFICES ASSUME NEW p \in Identified,
                      closed'[p] # NoClaim,
                      closed'[p] + MaxHold < FLOOR,
                      closed'[p] + MaxHold < RETENTION
               PROVE  /\ claims'[p] \in closed'[p] .. closed'[p] + MaxHold
                      /\ \A g \in Holders : ~Holds(g, p)'
    BY DEF ClosedInv, Identified, Holds
  <2>1. closed[p] \in {NoClaim} \cup (0 .. HORIZON) /\ claims[p] \in {NoClaim} \cup (0 .. HORIZON)
    BY <1>1 DEF Identified, Claim
  <2>2. /\ closed'[p] = Older(closed[p])
        /\ claims'[p] = Older(claims[p])
    BY <1>1 DEF Identified
  <2>3. /\ closed[p] # NoClaim
        /\ closed'[p] = closed[p] + 1
        /\ closed[p] + MaxHold < FLOOR
        /\ closed[p] + MaxHold < RETENTION
    BY <2>1, <2>2 DEF Older, NoClaim
  <2>4. /\ claims[p] \in closed[p] .. closed[p] + MaxHold
        /\ \A g \in Holders : ~Holds(g, p)
    BY <2>3 DEF IInv, Core, ClosedInv
  <2>5. claims'[p] = claims[p] + 1
    BY <2>1, <2>2, <2>3, <2>4 DEF Older, NoClaim
  <2> QED
    BY <1>2, <2>1, <2>3, <2>4, <2>5 DEF Holds, NoClaim
<1> QED
  BY <1>3, <1>4, <1>5, <1>6 DEF Core

\* After a restart nobody works on anything; the chain remembers.
LEMMA RestartStep ==
    ASSUME IInv, Restart
    PROVE  Core'
<1>1. /\ \A g \in Holders : holder'[g] = IdleAttempt
      /\ \A p \in Payments : closed'[p] = NoClaim
      /\ UNCHANGED minted
  BY DEF Restart
<1>2. \A p \in Payments : chain[p] = "landed" => chain'[p] = "landed"
  BY DEF Restart
<1>3. HoldersExclusive' /\ HoldInv' /\ ClosedInv'
  BY <1>1 DEF HoldersExclusive, HoldInv, ClosedInv, Holds, Working, IdleAttempt, Identified
<1>4. SoldInv'
  BY <1>1, <1>2 DEF IInv, Core, SoldInv, IdleAttempt, Identified
<1> QED
  BY <1>3, <1>4 DEF Core

-----------------------------------------------------------------------------
(* Types *)

\* Moving a surface to another working step keeps its type.
LEMMA MoveType ==
    ASSUME IInv, NEW h \in Holders, NEW pc \in Working, Become(h, pc)
    PROVE  holder' \in [Holders -> Attempt]
  BY DEF IInv, TypeOK, Become, Attempt

\* Returning a surface to idle keeps its type.
LEMMA LeaveType ==
    ASSUME IInv, NEW h \in Holders, Leave(h)
    PROVE  holder' \in [Holders -> Attempt]
  BY IdleType DEF IInv, TypeOK, Leave

\* A step that only moves one surface along.
LEMMA LocalType ==
    ASSUME IInv, holder' \in [Holders -> Attempt],
           UNCHANGED <<window, claims, chain, boots, minted, delivered, closed>>
    PROVE  TypeOK'
  BY DEF IInv, TypeOK

-----------------------------------------------------------------------------
(* Steps *)

\* The freshly started process satisfies the inductive invariant.
LEMMA InitIInv == Init => IInv
<1> SUFFICES ASSUME Init PROVE IInv
  OBVIOUS
<1> USE GatewayAssumption, ReplayAssumption
<1>1. \A h \in Holders : holder[h] = IdleAttempt
  BY DEF Init
<1>2. TypeOK
  <2>1. window \in [Policies -> Window]
    BY BreakerAssumption DEF Init, NewWindow, Window, NotOpen
  <2>2. holder \in [Holders -> Attempt]
    BY IdleType DEF Init
  <2> QED
    BY <2>1, <2>2 DEF Init, TypeOK, Claim
<1>3. HoldersExclusive /\ HoldInv
  BY <1>1 DEF HoldersExclusive, HoldInv, Holds, Working, IdleAttempt
<1>4. SoldInv
  BY <1>1 DEF Init, SoldInv, IdleAttempt
<1>5. ClosedInv
  BY DEF Init, ClosedInv, Identified
<1> QED
  BY <1>2, <1>3, <1>4, <1>5 DEF IInv, Core

\* Requests arriving, and the ones that end before a claim.
LEMMA ArriveStep ==
    ASSUME IInv, NEW h \in Holders, NEW p \in Payments, NEW q \in Policies \cup {None},
           NEW t \in Nat, window' \in [Policies -> Window],
           holder' = [holder EXCEPT ![h] =
                        [pc |-> "claim", pay |-> p, policy |-> q,
                         ttl |-> ReplayTtl(t), held |-> 0, sent |-> "no"]],
           UNCHANGED <<claims, chain, boots, minted, delivered, closed>>
    PROVE  IInv'
<1> DEFINE a == [pc |-> "claim", pay |-> p, policy |-> q,
                 ttl |-> ReplayTtl(t), held |-> 0, sent |-> "no"]
<1>1. a \in Attempt /\ a.ttl >= FLOOR
  BY TtlFacts, HoldAssumption DEF Attempt
<1>2. a.pc = "claim" /\ a.pay \in Payments /\ a.held = 0
  OBVIOUS
<1>3. holder' = [holder EXCEPT ![h] = a]
  OBVIOUS
<1> HIDE DEF a
<1>4. Core'
  BY <1>1, <1>2, <1>3, MoveStep
<1>5. TypeOK'
  BY <1>1, <1>3 DEF IInv, TypeOK
<1> QED
  BY <1>4, <1>5 DEF IInv

\* A surface that leaves, taking nothing and giving nothing back.
LEMMA LeaveStep ==
    ASSUME IInv, NEW h \in Holders, Leave(h),
           window' \in [Policies -> Window],
           chain' \in [Payments -> {"live", "limbo", "landed", "dead"}],
           \A p \in Payments : chain[p] = "landed" => chain'[p] = "landed",
           UNCHANGED <<claims, boots, minted, delivered, closed>>
    PROVE  IInv'
<1>1. IdleAttempt.pc = "idle"
  BY DEF IdleAttempt
<1>2. Core'
  BY <1>1, IdleType, MoveStep DEF Leave
<1>3. TypeOK'
  BY LeaveType DEF IInv, TypeOK
<1> QED
  BY <1>2, <1>3 DEF IInv

\* A surface that goes on to its next await.
LEMMA BecomeStep ==
    ASSUME IInv, NEW h \in Holders, NEW pc \in Working,
           \/ holder[h].pc \in Working
           \/ pc \in {"verify", "settle"} /\ holder[h].pay \in Opaque,
           pc \in {"execute", "settled"} =>
              /\ holder[h].pc = "settle"
              /\ CanVerify(holder[h].pay)
              /\ pc = IF StubMode THEN "settled" ELSE "execute",
           Become(h, pc),
           UNCHANGED <<window, claims, chain, boots, minted, closed>>,
           delivered' \subseteq Payments
    PROVE  IInv'
<1> USE GatewayAssumption
<1> DEFINE a == [holder[h] EXCEPT !.pc = pc]
<1>1. holder \in [Holders -> Attempt] /\ holder[h] \in Attempt
  BY DEF IInv, TypeOK
<1>2. /\ a \in Attempt /\ a.pc = pc /\ a.pay = holder[h].pay
      /\ a.held = holder[h].held
  BY <1>1 DEF Attempt
<1>3. holder' = [holder EXCEPT ![h] = a]
  BY DEF Become
<1>4. ASSUME ~StubMode, pc \in {"execute", "settled"}
      PROVE  /\ pc = "execute" /\ a.pay \in Identified
             /\ a.pay \in Pinned => minted[a.pay] = 0
  <2>1. pc = "execute" /\ CanVerify(holder[h].pay) /\ holder[h].pc = "settle"
    BY <1>4
  <2>2. holder[h].pay \in Payments
    BY <2>1 DEF IInv, Core, HoldInv
  <2>3. /\ holder[h].pay \in Pinned => chain[holder[h].pay] # "landed"
        /\ holder[h].pay \in Identified
    BY <1>4, <2>1, <2>2 DEF CanVerify, SuiVerifies, InputsAreLive, Identified
  <2>4. holder[h].pay \in Pinned => minted[holder[h].pay] = 0
    BY <1>4, <2>2, <2>3 DEF IInv, Core, SoldInv, TypeOK
  <2> QED
    BY <1>2, <2>1, <2>3, <2>4
<1> HIDE DEF a
<1>5. Core'
  BY <1>2, <1>3, <1>4, MoveStep
<1>6. TypeOK'
  BY <1>2, <1>3 DEF IInv, TypeOK
<1> QED
  BY <1>5, <1>6 DEF IInv

\* SuiVerifier::settle: whatever the fullnode does and answers.
LEMMA ExecuteStep ==
    ASSUME IInv, NEW h \in Holders, Execute(h)
    PROVE  IInv'
<1> USE GatewayAssumption
<1> DEFINE q == holder[h].pay
<1>1. /\ holder \in [Holders -> Attempt] /\ holder[h] \in Attempt
      /\ chain \in [Payments -> {"live", "limbo", "landed", "dead"}]
      /\ holder[h].pc = "execute" /\ q \in Payments
  BY DEF IInv, TypeOK, Core, HoldInv, Execute
<1>2. PICK x \in Executions(chain[q]) :
         /\ chain' = [chain EXCEPT ![q] = x[1]]
         /\ holder' = [holder EXCEPT ![h].pc = x[2], ![h].sent = "yes"]
  BY DEF Execute
<1>3. /\ x[1] \in {"live", "limbo", "landed", "dead"}
      /\ x[2] \in {"settled", "failed"}
      /\ x[2] = "settled" => x[1] = "landed"
      /\ chain[q] = "landed" => x[1] = "landed"
  BY <1>1, <1>2 DEF Executions
<1> DEFINE a == [holder[h] EXCEPT !.pc = x[2], !.sent = "yes"]
<1>4. /\ a \in Attempt /\ a.pc = x[2] /\ a.pay = q /\ a.held = holder[h].held
      /\ x[2] \in Working /\ holder[h].pc \in Working
  BY <1>1, <1>3 DEF Attempt, Working
<1>5. holder' = [holder EXCEPT ![h] = a]
  BY <1>1, <1>2
<1>6. /\ chain' \in [Payments -> {"live", "limbo", "landed", "dead"}]
      /\ \A p \in Payments : chain[p] = "landed" => chain'[p] = "landed"
      /\ x[2] = "settled" => chain'[q] = "landed"
  BY <1>1, <1>2, <1>3
<1>7. UNCHANGED <<window, claims, boots, minted, delivered, closed>>
  BY DEF Execute
<1> HIDE DEF a
<1>8. Core'
  BY <1>1, <1>3, <1>4, <1>5, <1>6, <1>7, MoveStep
<1>9. TypeOK'
  BY <1>4, <1>5, <1>6, <1>7 DEF IInv, TypeOK
<1> QED
  BY <1>8, <1>9 DEF IInv

\* The steps every surface can take between arriving and an outcome.
LEMMA SharedStep ==
    ASSUME IInv, NEW h \in Holders,
           \/ Abandon(h) \/ ClaimFresh(h) \/ SkipClaim(h) \/ ClaimReplayed(h)
           \/ SettleVerified(h) \/ SettleRejected(h) \/ Execute(h)
    PROVE  IInv'
<1>1. /\ window \in [Policies -> Window]
      /\ chain \in [Payments -> {"live", "limbo", "landed", "dead"}]
      /\ claims \in [Payments -> Claim]
      /\ delivered \subseteq Payments
  BY DEF IInv, TypeOK
<1>2. CASE Abandon(h)
  BY <1>1, <1>2, LeaveStep DEF Abandon
<1>3. CASE ClaimFresh(h)
  <2>1. Granted(h) \in Working
    BY DEF Granted, Working
  <2>2. holder' \in [Holders -> Attempt]
    BY <1>3, <2>1, MoveType DEF ClaimFresh
  <2>3. claims' \in [Payments -> Claim]
    BY <1>1, <1>3, ClaimFacts DEF ClaimFresh, AfterClaim
  <2>4. TypeOK'
    BY <1>3, <2>2, <2>3 DEF IInv, TypeOK, ClaimFresh
  <2> QED
    BY <1>3, <2>4, ClaimStep DEF IInv
<1>4. CASE SkipClaim(h)
  <2>1. Granted(h) \in Working /\ Granted(h) \in {"verify", "settle"}
    BY DEF Granted, Working
  <2> QED
    BY <1>1, <1>4, <2>1, BecomeStep DEF SkipClaim
<1>5. CASE ClaimReplayed(h)
  BY <1>1, <1>5, LeaveStep DEF ClaimReplayed
<1>6. CASE SettleVerified(h)
  <2> DEFINE pc == IF StubMode THEN "settled" ELSE "execute"
  <2>1. pc \in Working /\ holder[h].pc \in Working
    BY <1>6 DEF SettleVerified, Working
  <2> QED
    BY <1>1, <1>6, <2>1, BecomeStep DEF SettleVerified
<1>7. CASE SettleRejected(h)
  <2>1. "failed" \in Working /\ holder[h].pc \in Working
    BY <1>7 DEF SettleRejected, Working
  <2> QED
    BY <1>1, <1>7, <2>1, BecomeStep DEF SettleRejected
<1>8. CASE Execute(h)
  BY <1>8, ExecuteStep
<1> QED
  BY <1>2, <1>3, <1>4, <1>5, <1>6, <1>7, <1>8

\* create_session, granted or refused, keeps the type of the counters.
LEMMA MintType ==
    ASSUME NEW p \in Payments, minted \in [Payments -> 0 .. 2], MayMint(p)
    PROVE  minted' \in [Payments -> 0 .. 2]
  BY DEF MayMint, Fewer

\* Noting that an attempt ended keeps the type of the history.
LEMMA CloseType ==
    ASSUME IInv, NEW p, Close(p)
    PROVE  closed' \in [Payments -> Claim]
  BY ClaimFacts DEF IInv, TypeOK, Close

\* release_payment keeps the type of the replay cache.
LEMMA ReleaseType ==
    ASSUME NEW p, claims \in [Payments -> Claim],
           claims' = IF p \in Identified
                     THEN [claims EXCEPT ![p] = AfterRelease(@)] ELSE claims
    PROVE  claims' \in [Payments -> Claim]
  BY DEF AfterRelease, Claim

\* Every step of an ext_proc stream preserves the invariant.
LEMMA StreamIInv ==
    ASSUME IInv, NEW h \in Streams, StreamStep(h)
    PROVE  IInv'
<1>1. /\ window \in [Policies -> Window]
      /\ chain \in [Payments -> {"live", "limbo", "landed", "dead"}]
      /\ claims \in [Payments -> Claim]
      /\ minted \in [Payments -> 0 .. 2]
      /\ delivered \subseteq Payments
      /\ h \in Holders
      /\ holder[h].pc # "idle" => holder[h].pay \in Payments
  BY DEF IInv, TypeOK, Core, HoldInv, Holders
<1>2. \A w \in Window : Record(w, TRUE) \in Window /\ Record(w, FALSE) \in Window
  BY WindowType
<1>3. CASE VerifyOk(h)
  <2>1. "upstream" \in Working /\ holder[h].pc \in Working
    BY <1>3 DEF VerifyOk, Working
  <2> QED
    BY <1>1, <1>3, <2>1, BecomeStep DEF VerifyOk
<1>4. CASE VerifyRejected(h)
  BY <1>1, <1>4, LeaveStep DEF VerifyRejected
<1>5. CASE UpstreamOk(h)
  <2>1. /\ "settle" \in Working /\ holder[h].pc \in Working
        /\ delivered' \subseteq Payments
    BY <1>1, <1>5 DEF UpstreamOk, Working
  <2> QED
    BY <1>1, <1>5, <2>1, BecomeStep DEF UpstreamOk
<1>6. CASE UpstreamFailed(h)
  <2>1. holder[h].pc \in Working
    BY <1>6 DEF UpstreamFailed, Working
  <2>2. Core'
    BY <1>1, <1>6, <2>1, ReleaseStep DEF UpstreamFailed
  <2>3. claims' \in [Payments -> Claim] /\ holder' \in [Holders -> Attempt]
    BY <1>1, <1>6, ReleaseType, LeaveType DEF UpstreamFailed
  <2>4. TypeOK'
    BY <1>6, <2>3 DEF IInv, TypeOK, UpstreamFailed
  <2> QED
    BY <2>2, <2>4 DEF IInv
<1>7. CASE HangUp(h)
  BY <1>1, <1>7, LeaveStep DEF HangUp
<1>8. CASE StreamSettled(h)
  <2>1. window' \in [Policies -> Window]
    BY <1>1, <1>2, <1>8 DEF StreamSettled
  <2>2. minted' \in [Payments -> 0 .. 2] /\ holder' \in [Holders -> Attempt]
    BY <1>1, <1>8, MintType, LeaveType DEF StreamSettled
  <2>3. closed' \in [Payments -> Claim]
    BY <1>8, CloseType DEF StreamSettled
  <2>4. TypeOK'
    BY <1>8, <2>1, <2>2, <2>3 DEF IInv, TypeOK, StreamSettled
  <2>5. Core'
    BY <1>1, <1>8, MintStep DEF StreamSettled
  <2> QED
    BY <2>4, <2>5 DEF IInv
<1>9. CASE StreamFailed(h)
  <2>1. window' \in [Policies -> Window]
    BY <1>1, <1>2, <1>9 DEF StreamFailed
  <2>2. closed' \in [Payments -> Claim]
    BY <1>9, CloseType DEF StreamFailed
  <2>3. holder' \in [Holders -> Attempt]
    BY <1>1, <1>9, LeaveType DEF StreamFailed
  <2>4. TypeOK'
    BY <1>9, <2>1, <2>2, <2>3 DEF IInv, TypeOK, StreamFailed
  <2>5. Core'
    BY <1>1, <1>9, FailStep DEF StreamFailed, Working
  <2> QED
    BY <2>4, <2>5 DEF IInv
<1> QED
  BY <1>1, <1>3, <1>4, <1>5, <1>6, <1>7, <1>8, <1>9, SharedStep DEF StreamStep

\* A unary handler dropped at an await preserves it.
LEMMA CallerGoneStep ==
    ASSUME IInv, NEW h \in Holders, CallerGone(h)
    PROVE  IInv'
<1>1. /\ chain' \in [Payments -> {"live", "limbo", "landed", "dead"}]
      /\ \A p \in Payments : chain[p] = "landed" => chain'[p] = "landed"
      /\ window' \in [Policies -> Window]
  BY DEF IInv, TypeOK, CallerGone
<1> QED
  BY <1>1, LeaveStep DEF CallerGone

\* Every step of an ext_authz check preserves it.
LEMMA CheckIInv ==
    ASSUME IInv, NEW h \in Checks, CheckStep(h)
    PROVE  IInv'
<1>1. /\ window \in [Policies -> Window]
      /\ chain \in [Payments -> {"live", "limbo", "landed", "dead"}]
      /\ minted \in [Payments -> 0 .. 2]
      /\ h \in Holders
      /\ holder[h].pc # "idle" => holder[h].pay \in Payments
  BY DEF IInv, TypeOK, Core, HoldInv, Holders
<1>2. CASE CheckSettled(h)
  <2>1. minted' \in [Payments -> 0 .. 2] /\ holder' \in [Holders -> Attempt]
    BY <1>1, <1>2, MintType, LeaveType DEF CheckSettled
  <2>2. closed' \in [Payments -> Claim]
    BY <1>2, CloseType DEF CheckSettled
  <2>3. TypeOK'
    BY <1>2, <2>1, <2>2 DEF IInv, TypeOK, CheckSettled
  <2>4. Core'
    BY <1>1, <1>2, MintStep DEF CheckSettled
  <2> QED
    BY <2>3, <2>4 DEF IInv
<1>3. CASE CheckFailed(h)
  <2>1. closed' \in [Payments -> Claim] /\ holder' \in [Holders -> Attempt]
    BY <1>1, <1>3, CloseType, LeaveType DEF CheckFailed
  <2>2. TypeOK'
    BY <1>3, <2>1 DEF IInv, TypeOK, CheckFailed
  <2>3. Core'
    BY <1>1, <1>3, FailStep DEF CheckFailed, Working
  <2> QED
    BY <2>2, <2>3 DEF IInv
<1> QED
  BY <1>1, <1>2, <1>3, SharedStep, CallerGoneStep DEF CheckStep

\* Every step of a POST /settle preserves it.
LEMMA CallerIInv ==
    ASSUME IInv, NEW h \in Callers, CallerStep(h)
    PROVE  IInv'
<1>1. /\ window \in [Policies -> Window]
      /\ chain \in [Payments -> {"live", "limbo", "landed", "dead"}]
      /\ claims \in [Payments -> Claim]
      /\ h \in Holders
  BY DEF IInv, TypeOK, Holders
<1>2. CASE CallerSettled(h)
  <2>1. closed' \in [Payments -> Claim] /\ holder' \in [Holders -> Attempt]
    BY <1>1, <1>2, CloseType, LeaveType DEF CallerSettled
  <2>2. TypeOK'
    BY <1>2, <2>1 DEF IInv, TypeOK, CallerSettled
  <2>3. Core'
    BY <1>1, <1>2, FailStep DEF CallerSettled, Working
  <2> QED
    BY <2>2, <2>3 DEF IInv
<1>3. CASE CallerFailed(h)
  <2>1. holder[h].pc \in Working
    BY <1>3 DEF CallerFailed, Working
  <2>2. Core'
    BY <1>1, <1>3, <2>1, ReleaseStep DEF CallerFailed
  <2>3. claims' \in [Payments -> Claim] /\ holder' \in [Holders -> Attempt]
    BY <1>1, <1>3, ReleaseType, LeaveType DEF CallerFailed
  <2>4. TypeOK'
    BY <1>3, <2>3 DEF IInv, TypeOK, CallerFailed
  <2> QED
    BY <2>2, <2>4 DEF IInv
<1> QED
  BY <1>1, <1>2, <1>3, SharedStep, CallerGoneStep DEF CallerStep

\* The sweep, the chain, the clock and a restart preserve it.
LEMMA BackgroundIInv ==
    ASSUME IInv, \/ \E p \in Payments : Sweep(p) \/ Land(p) \/ Kill(p)
                 \/ Tick \/ Restart
    PROVE  IInv'
<1> USE GatewayAssumption, HoldAssumption, ReplayAssumption
<1>1. ASSUME NEW p \in Payments, Sweep(p) PROVE IInv'
  <2>1. TypeOK'
    BY <1>1 DEF IInv, TypeOK, Sweep, AfterSweep, Claim
  <2> QED
    BY <1>1, <2>1, SweepStep DEF IInv
<1>2. ASSUME NEW p \in Payments, Land(p) \/ Kill(p) PROVE IInv'
  <2>1. TypeOK'
    BY <1>2 DEF IInv, TypeOK, Land, Kill
  <2>2. \A r \in Payments : chain[r] = "landed" => chain'[r] = "landed"
    BY <1>2 DEF IInv, TypeOK, Land, Kill
  <2>3. UNCHANGED <<holder, claims, minted, closed>>
    BY <1>2 DEF Land, Kill
  <2> QED
    BY <2>1, <2>2, <2>3, ChainStep DEF IInv
<1>3. CASE Tick
  <2>1. window' \in [Policies -> Window]
    BY <1>3, WindowType DEF IInv, TypeOK, Tick
  <2>2. holder' \in [Holders -> Attempt]
    BY <1>3 DEF IInv, TypeOK, Tick, Attempt
  <2>3. /\ claims' \in [Payments -> Claim]
        /\ closed' \in [Payments -> Claim]
    BY <1>3 DEF IInv, TypeOK, Tick, Older, Claim, NoClaim
  <2>4. TypeOK'
    BY <1>3, <2>1, <2>2, <2>3 DEF IInv, TypeOK, Tick
  <2> QED
    BY <1>3, <2>4, AgeStep DEF IInv
<1>4. CASE Restart
  <2>1. window' \in [Policies -> Window]
    BY <1>4, BreakerAssumption DEF Restart, NewWindow, Window, NotOpen
  <2>2. holder' \in [Holders -> Attempt]
    BY <1>4, IdleType DEF Restart
  <2>3. /\ claims' \in [Payments -> Claim]
        /\ closed' \in [Payments -> Claim]
    BY <1>4 DEF Restart, Claim
  <2>4. chain' \in [Payments -> {"live", "limbo", "landed", "dead"}]
    BY <1>4 DEF IInv, TypeOK, Restart
  <2>5. boots' \in 0 .. MaxBoots
    BY <1>4 DEF IInv, TypeOK, Restart
  <2>6. TypeOK'
    BY <1>4, <2>1, <2>2, <2>3, <2>4, <2>5 DEF IInv, TypeOK, Restart
  <2> QED
    BY <1>4, <2>6, RestartStep DEF IInv
<1> QED
  BY <1>1, <1>2, <1>3, <1>4

\* The invariant is inductive.
LEMMA NextIInv == IInv /\ [Next]_vars => IInv'
<1> SUFFICES ASSUME IInv, [Next]_vars PROVE IInv'
  OBVIOUS
<1> USE GatewayAssumption
<1>1. /\ window \in [Policies -> Window]
      /\ \A q \in Policies :
            [window EXCEPT ![q] = AfterState(@)] \in [Policies -> Window]
  BY WindowType DEF IInv, TypeOK
<1>2. ASSUME window' \in [Policies -> Window],
             UNCHANGED <<claims, chain, holder, boots, minted, delivered, closed>>
      PROVE  IInv'
  <2>1. Core'
    BY <1>2, ChainStep
  <2>2. TypeOK'
    BY <1>2 DEF IInv, TypeOK
  <2> QED
    BY <2>1, <2>2 DEF IInv
<1>3. ASSUME NEW q \in Policies, RequestWithoutPayment(q) PROVE IInv'
  BY <1>1, <1>2, <1>3 DEF RequestWithoutPayment
<1>4. ASSUME NEW h \in Streams, NEW q \in Policies, RefuseAtBreaker(h, q) PROVE IInv'
  BY <1>1, <1>2, <1>4 DEF RefuseAtBreaker
<1>5. ASSUME NEW h \in Streams, NEW p \in Payments, NEW q \in Policies,
             BeginStream(h, p, q)
      PROVE  IInv'
  BY <1>1, <1>5, ArriveStep DEF BeginStream, Holders
<1>6. ASSUME NEW h \in Checks, NEW p \in Payments, NEW q \in Policies,
             BeginCheck(h, p, q)
      PROVE  IInv'
  BY <1>1, <1>6, ArriveStep DEF BeginCheck, Holders
<1>7. ASSUME NEW h \in Callers, NEW p \in Payments, NEW t \in ApiTimeouts,
             BeginSettle(h, p, t)
      PROVE  IInv'
  BY <1>1, <1>7, ArriveStep DEF BeginSettle, Holders
<1>8. CASE UNCHANGED vars
  BY <1>1, <1>2, <1>8 DEF vars
<1> QED
  BY <1>3, <1>4, <1>5, <1>6, <1>7, <1>8, StreamIInv, CheckIInv, CallerIInv,
     BackgroundIInv DEF Next

\* It holds in every reachable state.
LEMMA AlwaysIInv == Spec => []IInv
  BY InitIInv, NextIInv, PTL DEF Spec

-----------------------------------------------------------------------------
(* Theorems *)

\* Every variable of Gateway keeps its type, with any surfaces and any TTLs.
THEOREM GatewayTypeCorrect == Spec => []TypeOK
<1>1. IInv => TypeOK
  BY DEF IInv
<1> QED
  BY <1>1, AlwaysIInv, PTL

\* One claimed payment is in one pair of hands: however many streams, checks
\* and /settle calls compete, whatever TTL each of them asks for, and whenever
\* records lapse, are swept or released, claim_payment lets one at a time
\* through, provided nobody works longer than the shortest TTL and retention.
THEOREM PaymentsExclusive == Spec => []HoldersExclusive
<1>1. IInv => HoldersExclusive
  BY DEF IInv, Core
<1> QED
  BY <1>1, AlwaysIInv, PTL

\* A session exists only for money that is on chain, and one signature that pins
\* an object buys one session (auth::decide and handle_response_headers against
\* the chain), for any number of surfaces and process restarts.
THEOREM SoldOnce == Spec => []OneSessionPerPayment
<1>1. IInv => OneSessionPerPayment
  BY GatewayAssumption DEF IInv, Core, SoldInv, OneSessionPerPayment
<1> QED
  BY <1>1, AlwaysIInv, PTL

\* After an attempt to settle ended with the claim kept (handle_response_headers
\* either way, decide under Immediate, a successful /settle), its payment is out
\* of everybody's hands for the shortest TTL less one request.
THEOREM ClosedBlocks == Spec => []ClosedStaysClaimed
<1>1. IInv => ClosedStaysClaimed
  BY DEF IInv, Core, ClosedInv, ClosedStaysClaimed
<1> QED
  BY <1>1, AlwaysIInv, PTL

-----------------------------------------------------------------------------
(* Payments without an id *)

\* How far an attempt on a payment without an id gets: past the claim it cannot
\* make, and to the verification that refuses it.
Harmless(a) ==
    a.pay \in Opaque => a.sent = "no" /\ a.pc \in {"claim", "verify", "settle", "failed"}

OpaqueInv ==
    ~StubMode =>
       /\ \A p \in Opaque : minted[p] = 0 /\ p \notin delivered
       /\ \A h \in Holders : Harmless(holder[h])

\* A step of one surface that leaves it harmless, delivers nothing and sells
\* nothing for such a payment.
LEMMA OpaqueStep ==
    ASSUME TypeOK, OpaqueInv, NEW h \in Holders, NEW a,
           holder' = [holder EXCEPT ![h] = a],
           ~StubMode => Harmless(a),
           delivered' = delivered,
           minted' = minted
    PROVE  OpaqueInv'
<1>1. \A g \in Holders : holder'[g] = IF g = h THEN a ELSE holder[g]
  BY DEF TypeOK
<1> QED
  BY <1>1, Zenon DEF OpaqueInv, Harmless

\* An idle surface has no payment.
LEMMA IdleHarmless == Harmless(IdleAttempt)
  BY SurfacesAssumption, GatewayAssumption DEF IdleAttempt, Harmless

\* A surface that leaves.
LEMMA OpaqueLeave ==
    ASSUME TypeOK, OpaqueInv, NEW h \in Holders, Leave(h),
           delivered' = delivered, minted' = minted
    PROVE  OpaqueInv'
  BY OpaqueStep, IdleHarmless DEF Leave

\* A surface whose payment has an id moves on, or one that stays harmless.
LEMMA OpaqueMove ==
    ASSUME TypeOK, OpaqueInv, NEW h \in Holders, NEW pc, Become(h, pc),
           ~StubMode => \/ holder[h].pay \notin Opaque
                        \/ pc \in {"claim", "verify", "settle", "failed"},
           delivered' = delivered, minted' = minted
    PROVE  OpaqueInv'
<1> DEFINE a == [holder[h] EXCEPT !.pc = pc]
<1>1. holder' = [holder EXCEPT ![h] = a]
  BY DEF Become
<1>2. holder[h] \in Attempt
  BY DEF TypeOK
<1>3. a.pc = pc /\ a.pay = holder[h].pay /\ a.sent = holder[h].sent
  BY <1>2 DEF Attempt
<1>4. ~StubMode => Harmless(holder[h])
  BY DEF OpaqueInv
<1>5. ~StubMode => Harmless(a)
  BY <1>3, <1>4 DEF Harmless
<1> HIDE DEF a
<1> QED
  BY <1>1, <1>5, OpaqueStep

\* A surface that has settled, or is about to, does so with an identified payment.
LEMMA OpaqueSell ==
    ASSUME TypeOK, OpaqueInv, NEW h \in Holders, Leave(h),
           holder[h].pc = "settled", MayMint(holder[h].pay), delivered' = delivered
    PROVE  OpaqueInv'
<1>1. ~StubMode => holder[h].pay \notin Opaque
  BY DEF OpaqueInv, Harmless
<1>2. ~StubMode => \A p \in Opaque : minted'[p] = minted[p]
  BY <1>1, GatewayAssumption DEF MayMint, TypeOK
<1>3. \A g \in Holders : holder'[g] = IF g = h THEN IdleAttempt ELSE holder[g]
  BY DEF TypeOK, Leave
<1> QED
  BY <1>2, <1>3, IdleHarmless, Zenon DEF OpaqueInv, Harmless

LEMMA OpaqueShared ==
    ASSUME TypeOK, OpaqueInv, NEW h \in Holders,
           \/ Abandon(h) \/ ClaimFresh(h) \/ SkipClaim(h) \/ ClaimReplayed(h)
           \/ SettleVerified(h) \/ SettleRejected(h) \/ Execute(h) \/ CallerGone(h)
    PROVE  OpaqueInv'
<1>1. CASE Abandon(h) \/ ClaimReplayed(h) \/ CallerGone(h)
  BY <1>1, OpaqueLeave DEF Abandon, ClaimReplayed, CallerGone
<1>2. CASE ClaimFresh(h) \/ SkipClaim(h)
  <2>1. Granted(h) \in {"verify", "settle"}
    BY DEF Granted
  <2> QED
    BY <1>2, <2>1, OpaqueMove DEF ClaimFresh, SkipClaim
<1>3. CASE SettleVerified(h)
  <2>1. ~StubMode => holder[h].pay \notin Opaque
    BY <1>3 DEF SettleVerified, CanVerify, SuiVerifies
  <2> QED
    BY <1>3, <2>1, OpaqueMove DEF SettleVerified
<1>4. CASE SettleRejected(h)
  BY <1>4, OpaqueMove DEF SettleRejected
<1>5. CASE Execute(h)
  <2>1. PICK x : holder' = [holder EXCEPT ![h].pc = x[2], ![h].sent = "yes"]
    BY <1>5 DEF Execute
  <2> DEFINE a == [holder[h] EXCEPT !.pc = x[2], !.sent = "yes"]
  <2>2. holder' = [holder EXCEPT ![h] = a]
    BY <2>1
  <2>3. holder[h] \in Attempt
    BY DEF TypeOK
  <2>4. a.pay = holder[h].pay
    BY <2>3 DEF Attempt
  <2>5. ~StubMode => holder[h].pay \notin Opaque
    BY <1>5 DEF Execute, OpaqueInv, Harmless
  <2>6. ~StubMode => Harmless(a)
    BY <2>4, <2>5 DEF Harmless
  <2>7. delivered' = delivered /\ minted' = minted
    BY <1>5 DEF Execute
  <2> HIDE DEF a
  <2> QED
    BY <2>2, <2>6, <2>7, OpaqueStep
<1> QED
  BY <1>1, <1>2, <1>3, <1>4, <1>5

LEMMA OpaqueStream ==
    ASSUME TypeOK, OpaqueInv, NEW h \in Streams, StreamStep(h)
    PROVE  OpaqueInv'
<1>0. h \in Holders
  BY DEF Holders
<1>1. CASE VerifyOk(h)
  <2>1. ~StubMode => holder[h].pay \notin Opaque
    BY <1>1 DEF VerifyOk, CanVerify, SuiVerifies
  <2> QED
    BY <1>0, <1>1, <2>1, OpaqueMove DEF VerifyOk
<1>2. CASE VerifyRejected(h) \/ UpstreamFailed(h) \/ HangUp(h) \/ StreamFailed(h)
  BY <1>0, <1>2, OpaqueLeave DEF VerifyRejected, UpstreamFailed, HangUp, StreamFailed
<1>3. CASE UpstreamOk(h)
  <2>1. ~StubMode => holder[h].pay \notin Opaque
    BY <1>0, <1>3 DEF UpstreamOk, OpaqueInv, Harmless
  <2>2. ~StubMode => \A p \in Opaque : p \notin delivered'
    BY <1>3, <2>1 DEF UpstreamOk, OpaqueInv
  <2> DEFINE a == [holder[h] EXCEPT !.pc = "settle"]
  <2>3. \A g \in Holders : holder'[g] = IF g = h THEN a ELSE holder[g]
    BY <1>3 DEF UpstreamOk, Become, TypeOK
  <2>4. a.pay = holder[h].pay
    BY <1>0 DEF TypeOK, Attempt
  <2>5. ~StubMode => Harmless(a)
    BY <2>1, <2>4 DEF Harmless
  <2>6. minted' = minted
    BY <1>3 DEF UpstreamOk
  <2> HIDE DEF a
  <2> QED
    BY <2>2, <2>3, <2>5, <2>6, Zenon DEF OpaqueInv, Harmless
<1>4. CASE StreamSettled(h)
  BY <1>0, <1>4, OpaqueSell DEF StreamSettled
<1> QED
  BY <1>0, <1>1, <1>2, <1>3, <1>4, OpaqueShared DEF StreamStep

\* A payment whose id cannot be computed (payment_id is None) goes unclaimed
\* through every surface and buys nothing: outside stub mode no upstream is
\* called for it, nothing is broadcast and no session sold, for any number of
\* surfaces that present it at once.
THEOREM OpaqueRefused == Spec => []UnidentifiedIsRefused
<1>1. Init => OpaqueInv
  <2>1. ASSUME Init PROVE \A h \in Holders : Harmless(holder[h])
    BY <2>1, IdleHarmless DEF Init
  <2> QED
    BY <2>1, GatewayAssumption DEF Init, OpaqueInv
<1>2. TypeOK /\ OpaqueInv /\ [Next]_vars => OpaqueInv'
  <2> SUFFICES ASSUME TypeOK, OpaqueInv, [Next]_vars PROVE OpaqueInv'
    OBVIOUS
  <2>1. CASE \/ UNCHANGED vars
             \/ \E q \in Policies : RequestWithoutPayment(q)
             \/ \E h \in Streams, q \in Policies : RefuseAtBreaker(h, q)
             \/ \E p \in Payments : Sweep(p) \/ Land(p) \/ Kill(p)
    <3>1. holder' = holder /\ minted' = minted /\ delivered' = delivered
      BY <2>1 DEF vars, RequestWithoutPayment, RefuseAtBreaker, Sweep, Land, Kill
    <3> QED
      BY <3>1, Zenon DEF OpaqueInv, Harmless
  <2>2. ASSUME NEW h \in Holders, NEW p \in Payments, NEW q, NEW t,
               holder' = [holder EXCEPT ![h] =
                            [pc |-> "claim", pay |-> p, policy |-> q,
                             ttl |-> t, held |-> 0, sent |-> "no"]],
               delivered' = delivered, minted' = minted
        PROVE  OpaqueInv'
    <3> DEFINE a == [pc |-> "claim", pay |-> p, policy |-> q,
                     ttl |-> t, held |-> 0, sent |-> "no"]
    <3>1. Harmless(a)
      BY DEF Harmless
    <3> HIDE DEF a
    <3>2. holder' = [holder EXCEPT ![h] = a]
      BY <2>2 DEF a
    <3> QED
      BY <2>2, <3>1, <3>2, OpaqueStep
  <2>3. CASE \E h \in Streams, p \in Payments, q \in Policies : BeginStream(h, p, q)
    <3>1. PICK h \in Streams, p \in Payments, q \in Policies : BeginStream(h, p, q)
      BY <2>3
    <3>2. h \in Holders
      BY DEF Holders
    <3>3. /\ holder' = [holder EXCEPT ![h] =
                         [pc |-> "claim", pay |-> p, policy |-> q,
                          ttl |-> ReplayTtl(MAX_TIMEOUT), held |-> 0, sent |-> "no"]]
          /\ delivered' = delivered
          /\ minted' = minted
      BY <3>1 DEF BeginStream
    <3> QED
      BY <2>2, <3>2, <3>3
  <2>4. CASE \E h \in Checks, p \in Payments, q \in Policies : BeginCheck(h, p, q)
    BY <2>2, <2>4 DEF BeginCheck, Holders
  <2>5. CASE \E h \in Callers, p \in Payments, t \in ApiTimeouts : BeginSettle(h, p, t)
    BY <2>2, <2>5 DEF BeginSettle, Holders
  <2>6. CASE \E h \in Streams : StreamStep(h)
    BY <2>6, OpaqueStream
  <2>7. CASE \E h \in Checks : CheckStep(h)
    <3>1. PICK h \in Checks : CheckStep(h)
      BY <2>7
    <3>2. h \in Holders
      BY DEF Holders
    <3>3. CASE CheckSettled(h)
      BY <3>2, <3>3, OpaqueSell DEF CheckSettled
    <3>4. CASE CheckFailed(h)
      BY <3>2, <3>4, OpaqueLeave DEF CheckFailed
    <3> QED
      BY <3>1, <3>2, <3>3, <3>4, OpaqueShared DEF CheckStep
  <2>8. CASE \E h \in Callers : CallerStep(h)
    <3>1. PICK h \in Callers : CallerStep(h)
      BY <2>8
    <3>2. h \in Holders
      BY DEF Holders
    <3>3. CASE CallerSettled(h) \/ CallerFailed(h)
      BY <3>2, <3>3, OpaqueLeave DEF CallerSettled, CallerFailed
    <3> QED
      BY <3>1, <3>2, <3>3, OpaqueShared DEF CallerStep
  <2>9. CASE Tick
    <3>1. ASSUME NEW h \in Holders, Harmless(holder[h]) PROVE Harmless(holder'[h])
      <4>1. holder[h] \in Attempt
        BY DEF TypeOK
      <4>2. /\ holder'[h].pay = holder[h].pay
            /\ holder'[h].sent = holder[h].sent
            /\ holder'[h].pc = holder[h].pc
        BY <2>9, <4>1 DEF Tick, Attempt
      <4> QED
        BY <3>1, <4>2 DEF Harmless
    <3>2. minted' = minted /\ delivered' = delivered
      BY <2>9 DEF Tick
    <3> QED
      BY <3>1, <3>2, Zenon DEF OpaqueInv
  <2>10. CASE Restart
    <3>1. \A h \in Holders : holder'[h] = IdleAttempt
      BY <2>10 DEF Restart
    <3>2. minted' = minted /\ delivered' = delivered
      BY <2>10 DEF Restart
    <3> QED
      BY <3>1, <3>2, IdleHarmless, Zenon DEF OpaqueInv, Harmless
  <2> QED
    BY <2>1, <2>3, <2>4, <2>5, <2>6, <2>7, <2>8, <2>9, <2>10 DEF Next
<1>3. OpaqueInv => UnidentifiedIsRefused
  BY DEF OpaqueInv, Harmless, UnidentifiedIsRefused
<1> QED
  BY <1>1, <1>2, <1>3, GatewayTypeCorrect, PTL DEF Spec
-----------------------------------------------------------------------------
(* Gateway implements SingleUse *)

\* Owner is the one surface that holds the payment, and None if there is none:
\* CHOOSE has no choice where HoldersExclusive holds.
OwnerIsHolder ==
    \A p \in Identified :
       /\ Owner(p) \in Holders \cup {None}
       /\ \A h \in Holders : Holds(h, p) <=> Owner(p) = h

LEMMA OwnerFacts == HoldersExclusive => OwnerIsHolder
<1> SUFFICES ASSUME HoldersExclusive, NEW p \in Identified
             PROVE  /\ Owner(p) \in Holders \cup {None}
                    /\ \A h \in Holders : Holds(h, p) <=> Owner(p) = h
  BY DEF OwnerIsHolder
<1>1. CASE \E h \in Holders : Holds(h, p)
  <2>1. Owner(p) \in Holders /\ Holds(Owner(p), p)
    BY <1>1 DEF Owner
  <2> QED
    BY <2>1 DEF HoldersExclusive
<1>2. CASE ~ \E h \in Holders : Holds(h, p)
  BY <1>2, SurfacesAssumption DEF Owner
<1> QED
  BY <1>1, <1>2

\* Nobody gains or loses a payment, and no payment with an id is sold.
LEMMA SameOwners ==
    ASSUME OwnerIsHolder, OwnerIsHolder',
           \A g \in Holders, p \in Identified : Holds(g, p)' <=> Holds(g, p),
           \A p \in Identified : minted'[p] = minted[p]
    PROVE  UNCHANGED Ledger!singleVars
<1>1. ASSUME NEW p \in Identified PROVE Owner(p)' = Owner(p)
  BY <1>1 DEF OwnerIsHolder, Identified
<1>2. [p \in Identified |-> Owner(p)'] = [p \in Identified |-> Owner(p)]
  BY <1>1
<1>3. [p \in Identified |-> minted'[p]] = [p \in Identified |-> minted[p]]
  OBVIOUS
<1> QED
  BY <1>2, <1>3 DEF Ledger!singleVars, Identified

\* claim_payment lets a surface through: the payment was nobody's.
LEMMA GainsPayment ==
    ASSUME OwnerIsHolder, OwnerIsHolder', NEW h \in Holders, NEW q \in Identified,
           \A g \in Holders : ~Holds(g, q),
           \A g \in Holders, p \in Identified :
              Holds(g, p)' <=> Holds(g, p) \/ (g = h /\ p = q),
           \A p \in Identified : minted'[p] = minted[p]
    PROVE  Ledger!Acquire(h, q)
<1>1. Owner(q) = None
  BY DEF OwnerIsHolder
<1>2. Owner(q)' = h
  BY DEF OwnerIsHolder, Identified
<1>3. ASSUME NEW p \in Identified, p # q PROVE Owner(p)' = Owner(p)
  BY <1>3 DEF OwnerIsHolder, Identified
<1>4. [p \in Identified |-> Owner(p)'] = [[p \in Identified |-> Owner(p)] EXCEPT ![q] = h]
  BY <1>2, <1>3
<1>5. [p \in Identified |-> minted'[p]] = [p \in Identified |-> minted[p]]
  OBVIOUS
<1> QED
  BY <1>1, <1>4, <1>5 DEF Ledger!Acquire, Identified

\* A surface that stops working no longer owns its payment; nobody else's changes.
LEMMA OwnerLeaves ==
    ASSUME OwnerIsHolder, OwnerIsHolder', NEW h \in Holders, NEW q \in Identified,
           Holds(h, q),
           \A g \in Holders, p \in Identified : Holds(g, p)' <=> Holds(g, p) /\ g # h
    PROVE  /\ Owner(q) = h
           /\ [p \in Identified |-> Owner(p)'] =
                 [[p \in Identified |-> Owner(p)] EXCEPT ![q] = None]
<1>1. Owner(q) = h
  BY DEF OwnerIsHolder
<1>2. Owner(q)' = None
  BY <1>1 DEF OwnerIsHolder, Identified
<1>3. ASSUME NEW p \in Identified, p # q PROVE Owner(p)' = Owner(p)
  <2>1. ~Holds(h, p)
    BY <1>3 DEF Holds
  <2> QED
    BY <1>3, <2>1 DEF OwnerIsHolder, Identified
<1> QED
  BY <1>1, <1>2, <1>3

\* A surface leaves and sells nothing: given up if it held a payment with an id,
\* and nothing the ledger sees otherwise.
LEMMA LeavesUnsold ==
    ASSUME OwnerIsHolder, OwnerIsHolder', TypeOK, NEW h \in Holders, Leave(h),
           \A p \in Identified : minted'[p] = minted[p]
    PROVE  [Ledger!SingleNext]_(Ledger!singleVars)
<1>1. /\ holder'[h] = IdleAttempt
      /\ \A g \in Holders : g # h => holder'[g] = holder[g]
  BY DEF TypeOK, Leave
<1>2. \A g \in Holders, p \in Identified : Holds(g, p)' <=> Holds(g, p) /\ g # h
  BY <1>1 DEF Holds, IdleAttempt, Working
<1>3. CASE \E p \in Identified : Holds(h, p)
  <2>1. PICK q \in Identified : Holds(h, q)
    BY <1>3
  <2>2. /\ Owner(q) = h
        /\ [p \in Identified |-> Owner(p)'] =
              [[p \in Identified |-> Owner(p)] EXCEPT ![q] = None]
    BY <1>2, <2>1, OwnerLeaves
  <2>3. [p \in Identified |-> minted'[p]] = [p \in Identified |-> minted[p]]
    OBVIOUS
  <2>4. Ledger!GiveUp(h, q)
    BY <2>2, <2>3 DEF Ledger!GiveUp, Identified
  <2> QED
    BY <2>4 DEF Ledger!SingleNext
<1>4. CASE ~ \E p \in Identified : Holds(h, p)
  <2>1. \A g \in Holders, p \in Identified : Holds(g, p)' <=> Holds(g, p)
    BY <1>2, <1>4
  <2> QED
    BY <2>1, SameOwners
<1> QED
  BY <1>3, <1>4

\* A settled surface leaves, with or without a session.  Outside stub mode its
\* payment has an id and, if it pins an object, has not bought one before.
LEMMA LeavesSold ==
    ASSUME IInv, ~StubMode, OwnerIsHolder, OwnerIsHolder', NEW h \in Holders,
           holder[h].pc = "settled", MayMint(holder[h].pay), Leave(h)
    PROVE  [Ledger!SingleNext]_(Ledger!singleVars)
<1>0. PICK q \in Identified : q = holder[h].pay
  BY DEF IInv, Core, SoldInv
<1>1. /\ q \in Payments
      /\ q \in Pinned => minted[q] = 0
      /\ Holds(h, q)
      /\ minted \in [Payments -> 0 .. 2]
      /\ TypeOK
  BY <1>0 DEF IInv, TypeOK, Core, SoldInv, Holds, Working, Identified
<1>2. CASE minted' = [minted EXCEPT ![q] = Fewer(@ + 1, 2)]
  <2>1. /\ holder'[h] = IdleAttempt
        /\ \A g \in Holders : g # h => holder'[g] = holder[g]
    BY <1>1 DEF TypeOK, Leave
  <2>2. \A g \in Holders, p \in Identified : Holds(g, p)' <=> Holds(g, p) /\ g # h
    BY <2>1 DEF Holds, IdleAttempt, Working
  <2>3. /\ Owner(q) = h
        /\ [p \in Identified |-> Owner(p)'] =
              [[p \in Identified |-> Owner(p)] EXCEPT ![q] = None]
    BY <1>1, <2>2, OwnerLeaves
  <2>4. minted'[q] = IF minted[q] = 0 THEN 1 ELSE 2
    BY <1>1, <1>2 DEF Fewer
  <2>5. \A p \in Identified : p # q => minted'[p] = minted[p]
    BY <1>1, <1>2 DEF Identified
  <2>6. [p \in Identified |-> minted'[p]] =
           [[p \in Identified |-> minted[p]] EXCEPT ![q] = IF @ = 0 THEN 1 ELSE 2]
    BY <1>1, <2>4, <2>5
  <2>7. Ledger!Sell(h, q)
    BY <1>1, <2>3, <2>6 DEF Ledger!Sell, Identified
  <2> QED
    BY <1>1, <2>7 DEF Ledger!SingleNext
<1>3. CASE UNCHANGED minted
  BY <1>1, <1>3, LeavesUnsold
<1> QED
  BY <1>0, <1>2, <1>3 DEF MayMint

\* The steps all surfaces share.
LEMMA SharedOwners ==
    ASSUME IInv, IInv', OwnerIsHolder, OwnerIsHolder', NEW h \in Holders,
           \/ Abandon(h) \/ ClaimFresh(h) \/ SkipClaim(h) \/ ClaimReplayed(h)
           \/ SettleVerified(h) \/ SettleRejected(h) \/ Execute(h) \/ CallerGone(h)
    PROVE  [Ledger!SingleNext]_(Ledger!singleVars)
<1>0. TypeOK
  BY DEF IInv
<1>1. CASE Abandon(h) \/ ClaimReplayed(h) \/ CallerGone(h)
  BY <1>0, <1>1, LeavesUnsold DEF Abandon, ClaimReplayed, CallerGone
<1>2. CASE ClaimFresh(h)
  <2>1. PICK q \in Identified : q = holder[h].pay
    BY <1>2 DEF ClaimFresh
  <2>2. /\ holder'[h].pc = Granted(h) /\ holder'[h].pay = q
        /\ \A g \in Holders : g # h => holder'[g] = holder[g]
        /\ Granted(h) \in Working
        /\ holder[h].pc \notin Working
    BY <1>0, <1>2, <2>1 DEF ClaimFresh, Become, TypeOK, Attempt, Granted, Working
  <2>3. \A g \in Holders, p \in Identified :
           Holds(g, p)' <=> Holds(g, p) \/ (g = h /\ p = q)
    BY <2>2 DEF Holds
  <2>4. \A g \in Holders : ~Holds(g, q)
    <3> SUFFICES ASSUME NEW g \in Holders, Holds(g, q) PROVE FALSE
      OBVIOUS
    <3>1. Holds(g, q)' /\ Holds(h, q)' /\ g # h
      BY <2>2, <2>3 DEF Holds
    <3> QED
      BY <3>1 DEF IInv, Core, HoldersExclusive, Identified
  <2>5. Ledger!Acquire(h, q)
    BY <1>2, <2>3, <2>4, GainsPayment DEF ClaimFresh
  <2> QED
    BY <2>5 DEF Ledger!SingleNext
<1>3. ASSUME NEW pc \in Working, Become(h, pc), UNCHANGED minted,
             holder[h].pc \in Working \/ holder[h].pay \in Opaque
      PROVE  UNCHANGED Ledger!singleVars
  <2>1. /\ holder'[h].pc = pc /\ holder'[h].pay = holder[h].pay
        /\ \A g \in Holders : g # h => holder'[g] = holder[g]
    BY <1>0, <1>3 DEF Become, TypeOK, Attempt
  <2>2. \A g \in Holders, p \in Identified : Holds(g, p)' <=> Holds(g, p)
    BY <1>3, <2>1 DEF Holds, Identified
  <2> QED
    BY <1>3, <2>2, SameOwners
<1>4. CASE SkipClaim(h)
  <2>1. Granted(h) \in Working
    BY DEF Granted, Working
  <2> QED
    BY <1>3, <1>4, <2>1 DEF SkipClaim
<1>5. CASE SettleVerified(h)
  <2>1. (IF StubMode THEN "settled" ELSE "execute") \in Working /\ holder[h].pc \in Working
    BY <1>5 DEF SettleVerified, Working
  <2> QED
    BY <1>3, <1>5, <2>1 DEF SettleVerified
<1>6. CASE SettleRejected(h)
  <2>1. "failed" \in Working /\ holder[h].pc \in Working
    BY <1>6 DEF SettleRejected, Working
  <2> QED
    BY <1>3, <1>6, <2>1 DEF SettleRejected
<1>7. CASE Execute(h)
  <2>1. PICK x \in Executions(chain[holder[h].pay]) :
           holder' = [holder EXCEPT ![h].pc = x[2], ![h].sent = "yes"]
    BY <1>7 DEF Execute
  <2>2. x[2] \in {"settled", "failed"}
    <3>1. chain[holder[h].pay] \in {"live", "limbo", "landed", "dead"}
      BY <1>7 DEF Execute, IInv, TypeOK, Core, HoldInv
    <3> QED
      BY <2>1, <3>1 DEF Executions
  <2>3. /\ holder'[h].pc \in Working /\ holder'[h].pay = holder[h].pay
        /\ \A g \in Holders : g # h => holder'[g] = holder[g]
        /\ holder[h].pc \in Working
    <3>1. holder \in [Holders -> Attempt] /\ holder[h] \in Attempt
      BY <1>0 DEF TypeOK
    <3>2. holder'[h] = [holder[h] EXCEPT !.pc = x[2], !.sent = "yes"]
      BY <2>1, <3>1
    <3>3. holder'[h].pc = x[2] /\ holder'[h].pay = holder[h].pay
      BY <3>1, <3>2 DEF Attempt
    <3>4. \A g \in Holders : g # h => holder'[g] = holder[g]
      BY <2>1, <3>1
    <3> QED
      BY <1>7, <2>2, <3>3, <3>4 DEF Execute, Working
  <2>4. \A g \in Holders, p \in Identified : Holds(g, p)' <=> Holds(g, p)
    BY <2>3 DEF Holds
  <2> QED
    BY <1>7, <2>4, SameOwners DEF Execute
<1> QED
  BY <1>1, <1>2, <1>4, <1>5, <1>6, <1>7

\* Every step of Gateway is a step of SingleUse or changes nothing it sees.
LEMMA NextSingleUse ==
    ASSUME ~StubMode, IInv, IInv', OwnerIsHolder, OwnerIsHolder', [Next]_vars
    PROVE  [Ledger!SingleNext]_(Ledger!singleVars)
<1>0. TypeOK
  BY DEF IInv
<1>1. ASSUME UNCHANGED <<holder, minted>>
      PROVE  UNCHANGED Ledger!singleVars
  <2>1. \A g \in Holders, p \in Identified : Holds(g, p)' <=> Holds(g, p)
    BY <1>1 DEF Holds
  <2> QED
    BY <1>1, <2>1, SameOwners
<1>2. CASE \/ UNCHANGED vars
           \/ \E q \in Policies : RequestWithoutPayment(q)
           \/ \E h \in Streams, q \in Policies : RefuseAtBreaker(h, q)
           \/ \E p \in Payments : Sweep(p) \/ Land(p) \/ Kill(p)
  <2>1. UNCHANGED <<holder, minted>>
    BY <1>2 DEF vars, RequestWithoutPayment, RefuseAtBreaker, Sweep, Land, Kill
  <2> QED
    BY <1>1, <2>1
<1>3. ASSUME NEW h \in Holders, NEW p, NEW q, NEW t, holder[h].pc = "idle",
             holder' = [holder EXCEPT ![h] =
                          [pc |-> "claim", pay |-> p, policy |-> q,
                           ttl |-> t, held |-> 0, sent |-> "no"]],
             UNCHANGED minted
      PROVE  UNCHANGED Ledger!singleVars
  <2>1. /\ holder'[h].pc = "claim"
        /\ \A g \in Holders : g # h => holder'[g] = holder[g]
    BY <1>0, <1>3 DEF TypeOK
  <2>2. \A g \in Holders, r \in Identified : Holds(g, r)' <=> Holds(g, r)
    BY <1>3, <2>1 DEF Holds, Working
  <2> QED
    BY <1>3, <2>2, SameOwners
<1>4. CASE \E h \in Streams, p \in Payments, q \in Policies : BeginStream(h, p, q)
  <2>1. PICK h \in Streams, p \in Payments, q \in Policies : BeginStream(h, p, q)
    BY <1>4
  <2> QED
    BY <1>3, <2>1 DEF BeginStream, Holders
<1>5. CASE \E h \in Checks, p \in Payments, q \in Policies : BeginCheck(h, p, q)
  <2>1. PICK h \in Checks, p \in Payments, q \in Policies : BeginCheck(h, p, q)
    BY <1>5
  <2> QED
    BY <1>3, <2>1 DEF BeginCheck, Holders
<1>6. CASE \E h \in Callers, p \in Payments, t \in ApiTimeouts : BeginSettle(h, p, t)
  <2>1. PICK h \in Callers, p \in Payments, t \in ApiTimeouts : BeginSettle(h, p, t)
    BY <1>6
  <2> QED
    BY <1>3, <2>1 DEF BeginSettle, Holders
<1>7. CASE \E h \in Streams : StreamStep(h)
  <2>1. PICK h \in Streams : StreamStep(h)
    BY <1>7
  <2>2. h \in Holders
    BY DEF Holders
  <2>3. CASE VerifyRejected(h) \/ UpstreamFailed(h) \/ HangUp(h) \/ StreamFailed(h)
    BY <1>0, <2>2, <2>3, LeavesUnsold
       DEF VerifyRejected, UpstreamFailed, HangUp, StreamFailed
  <2>4. CASE StreamSettled(h)
    BY <2>2, <2>4, LeavesSold DEF StreamSettled
  <2>5. CASE VerifyOk(h) \/ UpstreamOk(h)
    <3>1. /\ holder[h].pc \in Working /\ holder'[h].pc \in Working
          /\ holder'[h].pay = holder[h].pay
          /\ \A g \in Holders : g # h => holder'[g] = holder[g]
      BY <1>0, <2>2, <2>5 DEF VerifyOk, UpstreamOk, Become, TypeOK, Attempt, Working
    <3>2. \A g \in Holders, p \in Identified : Holds(g, p)' <=> Holds(g, p)
      BY <3>1 DEF Holds
    <3>3. UNCHANGED minted
      BY <2>5 DEF VerifyOk, UpstreamOk
    <3> QED
      BY <3>2, <3>3, SameOwners
  <2> QED
    BY <2>1, <2>2, <2>3, <2>4, <2>5, SharedOwners DEF StreamStep
<1>8. CASE \E h \in Checks : CheckStep(h)
  <2>1. PICK h \in Checks : CheckStep(h)
    BY <1>8
  <2>2. h \in Holders
    BY DEF Holders
  <2>3. CASE CheckSettled(h)
    BY <2>2, <2>3, LeavesSold DEF CheckSettled
  <2>4. CASE CheckFailed(h)
    BY <1>0, <2>2, <2>4, LeavesUnsold DEF CheckFailed
  <2> QED
    BY <2>1, <2>2, <2>3, <2>4, SharedOwners DEF CheckStep
<1>9. CASE \E h \in Callers : CallerStep(h)
  <2>1. PICK h \in Callers : CallerStep(h)
    BY <1>9
  <2>2. h \in Holders
    BY DEF Holders
  <2>3. CASE CallerSettled(h) \/ CallerFailed(h)
    BY <1>0, <2>2, <2>3, LeavesUnsold DEF CallerSettled, CallerFailed
  <2> QED
    BY <2>1, <2>2, <2>3, SharedOwners DEF CallerStep
<1>10. CASE Tick
  <2>1. ASSUME NEW g \in Holders
        PROVE  holder'[g].pc = holder[g].pc /\ holder'[g].pay = holder[g].pay
    BY <1>0, <1>10, <2>1 DEF Tick, TypeOK, Attempt
  <2>2. \A g \in Holders, p \in Identified : Holds(g, p)' <=> Holds(g, p)
    BY <2>1 DEF Holds
  <2> QED
    BY <1>10, <2>2, SameOwners DEF Tick
<1>11. CASE Restart
  <2>1. \A g \in Holders, p \in Identified : ~Holds(g, p)'
    BY <1>11 DEF Restart, Holds, IdleAttempt, Working
  <2>2. ASSUME NEW p \in Identified PROVE Owner(p)' = None
    BY <2>1, <2>2 DEF OwnerIsHolder, Identified
  <2>3. [p \in Identified |-> Owner(p)'] = [p \in Identified |-> None]
    BY <2>2
  <2>4. Ledger!Crash
    BY <1>11, <2>3 DEF Ledger!Crash, Restart, Identified
  <2> QED
    BY <2>4 DEF Ledger!SingleNext
<1> QED
  BY <1>2, <1>4, <1>5, <1>6, <1>7, <1>8, <1>9, <1>10, <1>11 DEF Next

\* Claims, chain and surfaces together implement single use: whatever the
\* surfaces of the service do with signed payments (auth::decide,
\* handle_response_headers, facilitator_api::settle), each payment is acquired
\* when it is nobody's, given up or sold by whoever acquired it, and sold once
\* if it pins an object; a restart forgets the owners and nothing that is sold.
\* In stub mode nothing reaches the chain that could tell.
THEOREM GatewayImplementsSingleUse == ~StubMode => (Spec => ImplementsSingleUse)
<1> SUFFICES ASSUME ~StubMode PROVE Spec => ImplementsSingleUse
  OBVIOUS
<1>1. Init => Ledger!SingleInit
  <2> SUFFICES ASSUME Init PROVE Ledger!SingleInit
    OBVIOUS
  <2>1. \A h \in Holders, p \in Identified : ~Holds(h, p)
    BY DEF Init, Holds, IdleAttempt, Working
  <2>2. \A p \in Identified : Owner(p) = None
    BY <2>1 DEF Owner
  <2>3. \A p \in Identified : minted[p] = 0
    BY DEF Init, Identified
  <2> QED
    BY <2>2, <2>3 DEF Ledger!SingleInit
<1>2. IInv => OwnerIsHolder
  BY OwnerFacts DEF IInv, Core
<1>3. IInv /\ IInv' /\ OwnerIsHolder /\ OwnerIsHolder' /\ [Next]_vars
         => [Ledger!SingleNext]_(Ledger!singleVars)
  BY NextSingleUse
<1> QED
  BY <1>1, <1>2, <1>3, AlwaysIInv, PTL DEF Spec, ImplementsSingleUse, Ledger!SingleSpec
-----------------------------------------------------------------------------
(* Where only streams spend payments: nobody is charged before being served *)

\* From UpstreamOk on a stream's payment has been delivered for, and nothing
\* else puts a payment on its way to the chain.
DeliveredInv ==
    /\ ChargedOnlyAfterDelivery
    /\ \A h \in Holders :
          holder[h].pc \in {"settle", "execute", "settled", "failed"}
             => holder[h].pay \in delivered

\* One surface moves; whatever it may have broadcast was delivered for.
LEMMA DeliverStep ==
    ASSUME TypeOK, DeliveredInv, NEW h \in Holders, NEW a,
           holder' = [holder EXCEPT ![h] = a],
           delivered \subseteq delivered',
           a.pc \in {"settle", "execute", "settled", "failed"} => a.pay \in delivered',
           \A p \in Payments : chain'[p] = chain[p] \/ p \in delivered'
    PROVE  DeliveredInv'
<1>1. \A g \in Holders : holder'[g] = IF g = h THEN a ELSE holder[g]
  BY DEF TypeOK
<1>2. ChargedOnlyAfterDelivery'
  BY DEF DeliveredInv, ChargedOnlyAfterDelivery
<1> QED
  BY <1>1, <1>2 DEF DeliveredInv

\* A surface leaves.
LEMMA DeliverLeave ==
    ASSUME TypeOK, DeliveredInv, NEW h \in Holders, Leave(h),
           UNCHANGED <<delivered, chain>>
    PROVE  DeliveredInv'
  BY DeliverStep DEF Leave, IdleAttempt

\* A surface moves on.
LEMMA DeliverMove ==
    ASSUME TypeOK, DeliveredInv, NEW h \in Holders, NEW pc, Become(h, pc),
           delivered \subseteq delivered', UNCHANGED chain,
           pc \in {"settle", "execute", "settled", "failed"} => holder[h].pay \in delivered'
    PROVE  DeliveredInv'
<1> DEFINE a == [holder[h] EXCEPT !.pc = pc]
<1>1. holder' = [holder EXCEPT ![h] = a]
  BY DEF Become
<1>2. a.pc = pc /\ a.pay = holder[h].pay
  BY DEF TypeOK, Attempt
<1> HIDE DEF a
<1> QED
  BY <1>1, <1>2, DeliverStep

\* Every step of a stream keeps it: it settles what its upstream answered 2xx.
LEMMA DeliverStream ==
    ASSUME IInv, DeliveredInv, NEW h \in Streams, StreamStep(h)
    PROVE  DeliveredInv'
<1>0. /\ TypeOK
      /\ h \in Holders
      /\ holder[h].pc # "idle" => holder[h].pay \in Payments
      /\ holder[h].pc \in {"settle", "execute", "settled", "failed"}
            => holder[h].pay \in delivered
  BY DEF IInv, Holders, DeliveredInv, Core, HoldInv
<1>1. CASE \/ Abandon(h) \/ ClaimReplayed(h) \/ VerifyRejected(h) \/ UpstreamFailed(h)
           \/ HangUp(h) \/ StreamSettled(h) \/ StreamFailed(h)
  <2>1. Leave(h) /\ UNCHANGED <<delivered, chain>>
    BY <1>1 DEF Abandon, ClaimReplayed, VerifyRejected, UpstreamFailed, HangUp,
                StreamSettled, StreamFailed
  <2> QED
    BY <1>0, <2>1, DeliverLeave
<1>2. CASE ClaimFresh(h) \/ SkipClaim(h)
  <2>1. Become(h, "verify") /\ UNCHANGED <<delivered, chain>>
    BY <1>2 DEF ClaimFresh, SkipClaim, Granted
  <2> QED
    BY <1>0, <2>1, DeliverMove
<1>3. CASE VerifyOk(h)
  BY <1>0, <1>3, DeliverMove DEF VerifyOk
<1>4. CASE UpstreamOk(h)
  BY <1>0, <1>4, DeliverMove DEF UpstreamOk
<1>5. CASE SettleVerified(h) \/ SettleRejected(h)
  <2>1. PICK pc : Become(h, pc)
    BY <1>5 DEF SettleVerified, SettleRejected
  <2> QED
    BY <1>0, <1>5, <2>1, DeliverMove DEF SettleVerified, SettleRejected
<1>6. CASE Execute(h)
  <2>1. PICK x : /\ chain' = [chain EXCEPT ![holder[h].pay] = x[1]]
                 /\ holder' = [holder EXCEPT ![h].pc = x[2], ![h].sent = "yes"]
    BY <1>6 DEF Execute
  <2> DEFINE a == [holder[h] EXCEPT !.pc = x[2], !.sent = "yes"]
  <2>2. holder' = [holder EXCEPT ![h] = a]
    BY <2>1
  <2>3. holder[h] \in Attempt
    BY <1>0 DEF TypeOK
  <2>4. a.pay = holder[h].pay
    BY <2>3 DEF Attempt
  <2>5. holder[h].pay \in delivered /\ UNCHANGED delivered
    BY <1>0, <1>6 DEF Execute
  <2>6. \A p \in Payments : chain'[p] = chain[p] \/ p \in delivered'
    BY <1>0, <2>1, <2>5 DEF TypeOK
  <2> HIDE DEF a
  <2> QED
    BY <1>0, <2>2, <2>4, <2>5, <2>6, DeliverStep
<1> QED
  BY <1>1, <1>2, <1>3, <1>4, <1>5, <1>6 DEF StreamStep

\* The point of ext_proc (handle_request_headers verifies, handle_response_headers
\* settles): behind a gateway that runs streams only, whatever the number of
\* streams, whatever is lost, retried or cut off by a restart, no transaction is
\* ever on chain or on its way there unless some upstream answered 2xx for it.
THEOREM DeliveredBeforeCharged ==
    (Checks = {} /\ Callers = {}) => (Spec => []ChargedOnlyAfterDelivery)
<1> SUFFICES ASSUME Checks = {}, Callers = {}
             PROVE  Spec => []ChargedOnlyAfterDelivery
  OBVIOUS
<1>1. Init => DeliveredInv
  BY DEF Init, DeliveredInv, ChargedOnlyAfterDelivery, IdleAttempt
<1>2. IInv /\ DeliveredInv /\ [Next]_vars => DeliveredInv'
  <2> SUFFICES ASSUME IInv, DeliveredInv, [Next]_vars PROVE DeliveredInv'
    OBVIOUS
  <2>0. TypeOK
    BY DEF IInv
  <2>1. CASE \/ UNCHANGED vars
             \/ \E q \in Policies : RequestWithoutPayment(q)
             \/ \E h \in Streams, q \in Policies : RefuseAtBreaker(h, q)
             \/ \E p \in Payments : Sweep(p)
    <3>1. UNCHANGED <<holder, chain, delivered>>
      BY <2>1 DEF vars, RequestWithoutPayment, RefuseAtBreaker, Sweep
    <3> QED
      BY <3>1 DEF DeliveredInv, ChargedOnlyAfterDelivery
  <2>2. CASE \E p \in Payments : Land(p) \/ Kill(p)
    <3>1. PICK p \in Payments : Land(p) \/ Kill(p)
      BY <2>2
    <3>2. UNCHANGED <<holder, delivered>>
      BY <3>1 DEF Land, Kill
    <3>3. ChargedOnlyAfterDelivery'
      BY <2>0, <3>1 DEF Land, Kill, TypeOK, DeliveredInv, ChargedOnlyAfterDelivery
    <3> QED
      BY <3>2, <3>3 DEF DeliveredInv
  <2>3. CASE \E h \in Streams, p \in Payments, q \in Policies : BeginStream(h, p, q)
    <3>1. PICK h \in Streams, p \in Payments, q \in Policies : BeginStream(h, p, q)
      BY <2>3
    <3> DEFINE a == [pc |-> "claim", pay |-> p, policy |-> q,
                     ttl |-> ReplayTtl(MAX_TIMEOUT), held |-> 0, sent |-> "no"]
    <3>2. holder' = [holder EXCEPT ![h] = a] /\ UNCHANGED <<delivered, chain>>
      BY <3>1 DEF BeginStream
    <3>3. a.pc = "claim" /\ h \in Holders
      BY DEF Holders
    <3> HIDE DEF a
    <3> QED
      BY <2>0, <3>2, <3>3, DeliverStep
  <2>4. CASE \E h \in Streams : StreamStep(h)
    BY <2>4, DeliverStream
  <2>5. CASE Tick
    <3>1. ASSUME NEW h \in Holders
          PROVE  holder'[h].pc = holder[h].pc /\ holder'[h].pay = holder[h].pay
      BY <2>0, <2>5, <3>1 DEF Tick, TypeOK, Attempt
    <3>2. UNCHANGED <<chain, delivered>>
      BY <2>5 DEF Tick
    <3> QED
      BY <3>1, <3>2 DEF DeliveredInv, ChargedOnlyAfterDelivery
  <2>6. CASE Restart
    <3>1. ASSUME NEW p \in Payments, chain'[p] # chain[p] PROVE p \in delivered
      BY <2>6, <3>1 DEF Restart, DeliveredInv
    <3>2. UNCHANGED delivered /\ \A h \in Holders : holder'[h].pc = "idle"
      BY <2>6 DEF Restart, IdleAttempt
    <3> QED
      BY <3>1, <3>2 DEF DeliveredInv, ChargedOnlyAfterDelivery
  <2> QED
    BY <2>1, <2>2, <2>3, <2>4, <2>5, <2>6 DEF Next
<1>3. DeliveredInv => ChargedOnlyAfterDelivery
  BY DEF DeliveredInv
<1> QED
  BY <1>1, <1>2, <1>3, AlwaysIInv, PTL DEF Spec
-----------------------------------------------------------------------------
(* What a step may never do to a claim *)

\* A surface that has broadcast has only the outcome left to deal with.
SentInv ==
    \A h \in Holders : holder[h].sent = "yes" => holder[h].pc \in {"settled", "failed"}

\* One surface moves, and has not broadcast or is done with it.
LEMMA SentStep ==
    ASSUME TypeOK, SentInv, NEW h \in Holders, NEW a,
           holder' = [holder EXCEPT ![h] = a],
           a.sent = "yes" => a.pc \in {"settled", "failed"}
    PROVE  SentInv'
<1>1. \A g \in Holders : holder'[g] = IF g = h THEN a ELSE holder[g]
  BY DEF TypeOK
<1> QED
  BY <1>1 DEF SentInv

LEMMA SentLeave ==
    ASSUME TypeOK, SentInv, NEW h \in Holders, Leave(h)
    PROVE  SentInv'
  BY SentStep DEF Leave, IdleAttempt

\* Before the broadcast a surface moves on without one.
LEMMA SentMove ==
    ASSUME TypeOK, SentInv, NEW h \in Holders, NEW pc, Become(h, pc),
           holder[h].pc \notin {"settled", "failed"}
    PROVE  SentInv'
<1> DEFINE a == [holder[h] EXCEPT !.pc = pc]
<1>1. holder' = [holder EXCEPT ![h] = a]
  BY DEF Become
<1>2. a.sent = holder[h].sent /\ holder[h].sent # "yes"
  BY DEF TypeOK, Attempt, SentInv
<1> HIDE DEF a
<1> QED
  BY <1>1, <1>2, SentStep

LEMMA SentShared ==
    ASSUME IInv, SentInv, NEW h \in Holders,
           StreamStep(h) \/ CheckStep(h) \/ CallerStep(h)
    PROVE  SentInv'
<1>0. TypeOK
  BY DEF IInv
<1>1. CASE Leave(h)
  BY <1>0, <1>1, SentLeave
<1>2. CASE \/ ClaimFresh(h) \/ SkipClaim(h) \/ VerifyOk(h) \/ UpstreamOk(h)
           \/ SettleVerified(h) \/ SettleRejected(h)
  <2>1. PICK pc : Become(h, pc)
    BY <1>2 DEF ClaimFresh, SkipClaim, VerifyOk, UpstreamOk, SettleVerified, SettleRejected
  <2>2. holder[h].pc \notin {"settled", "failed"}
    BY <1>2 DEF ClaimFresh, SkipClaim, VerifyOk, UpstreamOk, SettleVerified, SettleRejected
  <2> QED
    BY <1>0, <2>1, <2>2, SentMove
<1>3. CASE Execute(h)
  <2>1. PICK x \in Executions(chain[holder[h].pay]) :
           holder' = [holder EXCEPT ![h].pc = x[2], ![h].sent = "yes"]
    BY <1>3 DEF Execute
  <2>2. x[2] \in {"settled", "failed"}
    <3>1. chain[holder[h].pay] \in {"live", "limbo", "landed", "dead"}
      BY <1>3 DEF Execute, IInv, TypeOK, Core, HoldInv
    <3> QED
      BY <2>1, <3>1 DEF Executions
  <2> DEFINE a == [holder[h] EXCEPT !.pc = x[2], !.sent = "yes"]
  <2>3. holder' = [holder EXCEPT ![h] = a]
    BY <2>1
  <2>4. a.pc = x[2]
    BY <1>0 DEF TypeOK, Attempt
  <2> HIDE DEF a
  <2> QED
    BY <1>0, <2>2, <2>3, <2>4, SentStep
<1>4. \/ Leave(h)
      \/ \/ ClaimFresh(h) \/ SkipClaim(h) \/ VerifyOk(h) \/ UpstreamOk(h)
         \/ SettleVerified(h) \/ SettleRejected(h)
      \/ Execute(h)
  BY DEF StreamStep, CheckStep, CallerStep, Abandon, ClaimReplayed, VerifyRejected,
         UpstreamFailed, HangUp, StreamSettled, StreamFailed, CheckSettled, CheckFailed,
         CallerSettled, CallerFailed, CallerGone
<1> QED
  BY <1>1, <1>2, <1>3, <1>4

LEMMA AlwaysSentInv == Spec => []SentInv
<1>1. Init => SentInv
  BY DEF Init, SentInv, IdleAttempt
<1>2. IInv /\ SentInv /\ [Next]_vars => SentInv'
  <2> SUFFICES ASSUME IInv, SentInv, [Next]_vars PROVE SentInv'
    OBVIOUS
  <2>0. TypeOK
    BY DEF IInv
  <2>1. CASE \/ UNCHANGED vars
             \/ \E q \in Policies : RequestWithoutPayment(q)
             \/ \E h \in Streams, q \in Policies : RefuseAtBreaker(h, q)
             \/ \E p \in Payments : Sweep(p) \/ Land(p) \/ Kill(p)
    <3>1. UNCHANGED holder
      BY <2>1 DEF vars, RequestWithoutPayment, RefuseAtBreaker, Sweep, Land, Kill
    <3> QED
      BY <3>1 DEF SentInv
  <2>2. ASSUME NEW h \in Holders, NEW p, NEW q, NEW t,
               holder' = [holder EXCEPT ![h] =
                            [pc |-> "claim", pay |-> p, policy |-> q,
                             ttl |-> t, held |-> 0, sent |-> "no"]]
        PROVE  SentInv'
    BY <2>0, <2>2, SentStep
  <2>3. CASE \E h \in Streams, p \in Payments, q \in Policies : BeginStream(h, p, q)
    <3>1. PICK h \in Streams, p \in Payments, q \in Policies : BeginStream(h, p, q)
      BY <2>3
    <3> QED
      BY <2>2, <3>1 DEF BeginStream, Holders
  <2>4. CASE \E h \in Checks, p \in Payments, q \in Policies : BeginCheck(h, p, q)
    <3>1. PICK h \in Checks, p \in Payments, q \in Policies : BeginCheck(h, p, q)
      BY <2>4
    <3> QED
      BY <2>2, <3>1 DEF BeginCheck, Holders
  <2>5. CASE \E h \in Callers, p \in Payments, t \in ApiTimeouts : BeginSettle(h, p, t)
    <3>1. PICK h \in Callers, p \in Payments, t \in ApiTimeouts : BeginSettle(h, p, t)
      BY <2>5
    <3> QED
      BY <2>2, <3>1 DEF BeginSettle, Holders
  <2>6. CASE \/ \E h \in Streams : StreamStep(h)
             \/ \E h \in Checks : CheckStep(h)
             \/ \E h \in Callers : CallerStep(h)
    BY <2>6, SentShared DEF Holders
  <2>7. CASE Tick
    <3>1. ASSUME NEW h \in Holders
          PROVE  holder'[h].pc = holder[h].pc /\ holder'[h].sent = holder[h].sent
      BY <2>0, <2>7, <3>1 DEF Tick, TypeOK, Attempt
    <3> QED
      BY <3>1 DEF SentInv
  <2>8. CASE Restart
    BY <2>8 DEF Restart, SentInv, IdleAttempt
  <2> QED
    BY <2>1, <2>3, <2>4, <2>5, <2>6, <2>7, <2>8 DEF Next
<1> QED
  BY <1>1, <1>2, AlwaysIInv, PTL DEF Spec

\* A claim that its holder leaves behind is still there, unless it is given back.
LEMMA KeptClaim ==
    ASSUME IInv, NEW g \in Holders, holder[g].pc \in Working,
           holder[g].pay \in Identified
    PROVE  claims[holder[g].pay] # NoClaim
<1>1. claims[holder[g].pay] = holder[g].held /\ holder[g].held \in 0 .. MaxHold
  BY DEF IInv, TypeOK, Core, HoldInv, Attempt
<1> QED
  BY <1>1, HoldAssumption DEF NoClaim

\* "The authorization was never spent, so release it": without /settle callers a
\* claim is given back by UpstreamFailed only, before anything is broadcast, so
\* no surface ever releases a payment it has put on chain.  (The one caller that
\* does is facilitator_api::settle, on an error whose answer was lost.)
THEOREM ReleasedUnspent == Callers = {} => (Spec => ReleasesOnlyUnspent)
<1> SUFFICES ASSUME Callers = {} PROVE Spec => ReleasesOnlyUnspent
  OBVIOUS
<1>1. IInv /\ SentInv /\ [Next]_vars =>
        [\A h \in Holders :
           (/\ holder[h].pc \in Working
            /\ holder'[h].pc = "idle"
            /\ holder[h].pay \in Identified
            /\ claims'[holder[h].pay] = NoClaim
            /\ boots' = boots)
              => ~(holder[h].sent = "yes" /\ chain[holder[h].pay] = "landed")]_vars
  <2> SUFFICES ASSUME IInv, SentInv, Next, NEW g \in Holders,
                      holder[g].pc \in Working,
                      holder'[g].pc = "idle",
                      holder[g].pay \in Identified,
                      claims'[holder[g].pay] = NoClaim,
                      boots' = boots
               PROVE  holder[g].sent # "yes"
    OBVIOUS
  <2>0. /\ TypeOK
        /\ claims[holder[g].pay] # NoClaim
        /\ holder[g].pc # "idle"
        /\ holder[g] \in Attempt
    BY KeptClaim DEF IInv, TypeOK, Working
  <2>1. ASSUME UNCHANGED holder \/ UNCHANGED claims PROVE FALSE
    BY <2>0, <2>1
  <2>2. CASE \/ \E q \in Policies : RequestWithoutPayment(q)
             \/ \E h \in Streams, q \in Policies : RefuseAtBreaker(h, q)
             \/ \E h \in Streams, p \in Payments, q \in Policies : BeginStream(h, p, q)
             \/ \E h \in Checks, p \in Payments, q \in Policies : BeginCheck(h, p, q)
             \/ \E p \in Payments : Sweep(p) \/ Land(p) \/ Kill(p)
    BY <2>1, <2>2 DEF RequestWithoutPayment, RefuseAtBreaker, BeginStream, BeginCheck,
                      Sweep, Land, Kill
  <2>3. CASE \E h \in Streams : StreamStep(h)
    <3>1. PICK h \in Streams : StreamStep(h)
      BY <2>3
    <3>2. CASE ClaimFresh(h)
      <4>1. \A r \in Holders : r # h => holder'[r] = holder[r]
        BY <2>0, <3>2 DEF ClaimFresh, Become, TypeOK
      <4>2. g = h
        BY <2>0, <4>1
      <4> QED
        BY <3>2, <4>2 DEF ClaimFresh, Working
    <3>3. CASE UpstreamFailed(h)
      <4>1. \A r \in Holders : r # h => holder'[r] = holder[r]
        BY <2>0, <3>3 DEF UpstreamFailed, Leave, TypeOK
      <4>2. g = h
        BY <2>0, <4>1
      <4> QED
        BY <3>3, <4>2 DEF UpstreamFailed, SentInv
    <3>4. ClaimFresh(h) \/ UpstreamFailed(h) \/ UNCHANGED claims
      BY <3>1 DEF StreamStep, Abandon, SkipClaim, ClaimReplayed, VerifyOk, VerifyRejected,
                  UpstreamOk, HangUp, SettleVerified, SettleRejected, Execute,
                  StreamSettled, StreamFailed
    <3> QED
      BY <2>1, <3>2, <3>3, <3>4
  <2>4. CASE \E h \in Checks : CheckStep(h)
    <3>1. PICK h \in Checks : CheckStep(h)
      BY <2>4
    <3>2. CASE ClaimFresh(h)
      <4>1. \A r \in Holders : r # h => holder'[r] = holder[r]
        BY <2>0, <3>2 DEF ClaimFresh, Become, TypeOK
      <4>2. g = h
        BY <2>0, <4>1
      <4> QED
        BY <3>2, <4>2 DEF ClaimFresh, Working
    <3>3. ClaimFresh(h) \/ UNCHANGED claims
      BY <3>1 DEF CheckStep, Abandon, SkipClaim, ClaimReplayed, SettleVerified,
                  SettleRejected, Execute, CheckSettled, CheckFailed, CallerGone
    <3> QED
      BY <2>1, <3>2, <3>3
  <2>5. CASE Tick
    <3>1. holder'[g].pc = holder[g].pc
      BY <2>0, <2>5 DEF Tick, Attempt
    <3> QED
      BY <2>0, <3>1
  <2>6. CASE Restart
    BY <2>0, <2>6 DEF Restart, TypeOK
  <2> QED
    BY <2>2, <2>3, <2>4, <2>5, <2>6 DEF Next
<1> QED
  BY <1>1, AlwaysIInv, AlwaysSentInv, PTL DEF Spec, ReleasesOnlyUnspent

\* A retention as long as the gateway's TTL is enough for the cleanup task to
\* take only what a gateway claim would replace (`retain` compares with <, and
\* claim_payment_at with >=, so the two may be equal).
THEOREM SweepTakesLapsed ==
    RETENTION >= ReplayTtl(MAX_TIMEOUT) => (Spec => SweepKeepsLiveClaims)
<1> SUFFICES ASSUME RETENTION >= ReplayTtl(MAX_TIMEOUT)
             PROVE  Spec => SweepKeepsLiveClaims
  OBVIOUS
<1>1. TypeOK => \A p \in Payments : Sweep(p) => IsFresh(claims[p], ReplayTtl(MAX_TIMEOUT))
  <2> SUFFICES ASSUME TypeOK, NEW p \in Payments, Sweep(p)
               PROVE  claims[p] >= ReplayTtl(MAX_TIMEOUT)
    BY DEF IsFresh
  <2>1. PICK r : r = ReplayTtl(MAX_TIMEOUT)
    OBVIOUS
  <2>2. r \in Nat /\ RETENTION >= r
    BY <2>1, TtlFacts, GatewayAssumption
  <2>3. claims[p] \in Int /\ claims[p] >= RETENTION
    BY ReplayAssumption DEF Sweep, AfterSweep, TypeOK, Claim, NoClaim
  <2>4. claims[p] >= r
    BY <2>2, <2>3, ReplayAssumption
  <2> QED
    BY <2>1, <2>4
<1>2. TypeOK /\ [Next]_vars =>
        [\A p \in Payments : Sweep(p) => IsFresh(claims[p], ReplayTtl(MAX_TIMEOUT))]_vars
  BY <1>1
<1> QED
  BY <1>2, GatewayTypeCorrect, PTL DEF Spec, SweepKeepsLiveClaims
-----------------------------------------------------------------------------
(* Gateway implements BreakerUse *)

\* The label each stream is paying under: what BreakerUse sees of the surfaces.
Labels == [h \in Streams |-> holder[h].policy]

\* A stream has a label exactly while it is past the breaker.
LabelInv ==
    \A h \in Streams :
       IF holder[h].pc = "idle" THEN holder[h].policy = None
       ELSE holder[h].policy \in Policies

\* The two modules speak of the same breaker.
LEMMA SameBreaker ==
    /\ Breaking!NewWindow = NewWindow
    /\ \A w : /\ Breaking!Verdict(w) = Verdict(w)
              /\ Breaking!AfterState(w) = AfterState(w)
              /\ Breaking!Record(w, TRUE) = Record(w, TRUE)
              /\ Breaking!Record(w, FALSE) = Record(w, FALSE)
              /\ Breaking!Elapse(w) = Elapse(w)
    /\ \A v : Breaking!AcceptsPayment(v) = AcceptsPayment(v)
<1>1. Breaking!NewWindow = NewWindow
  BY Zenon DEF Breaking!NewWindow, NewWindow, Breaking!NotOpen, NotOpen
<1> SUFFICES ASSUME NEW w
             PROVE  /\ Breaking!Verdict(w) = Verdict(w)
                    /\ Breaking!AfterState(w) = AfterState(w)
                    /\ Breaking!Record(w, TRUE) = Record(w, TRUE)
                    /\ Breaking!Record(w, FALSE) = Record(w, FALSE)
                    /\ Breaking!Elapse(w) = Elapse(w)
                    /\ Breaking!AcceptsPayment(w) = AcceptsPayment(w)
  BY <1>1, Zenon
<1>2. Breaking!IsOpen(w) = IsOpen(w)
  BY Zenon DEF Breaking!IsOpen, IsOpen, Breaking!NotOpen, NotOpen
<1>3. Breaking!Verdict(w) = Verdict(w)
  BY <1>2, Zenon DEF Breaking!Verdict, Verdict
<1>4. Breaking!AfterState(w) = AfterState(w)
  BY <1>3, Zenon DEF Breaking!AfterState, AfterState
<1>5. Breaking!Elapse(w) = Elapse(w)
  BY <1>2, Zenon DEF Breaking!Elapse, Elapse
<1>6. Breaking!AcceptsPayment(w) = AcceptsPayment(w)
  BY Zenon DEF Breaking!AcceptsPayment, AcceptsPayment
<1>7. Breaking!Record(w, FALSE) = Record(w, FALSE)
  BY <1>1, Zenon DEF Breaking!Record, Record, Breaking!RecordSuccess, RecordSuccess
<1>8. Breaking!Record(w, TRUE) = Record(w, TRUE)
  <2>1. \A s : Breaking!Trim(s) = Trim(s) /\ Breaking!Trips(s) = Trips(s)
    BY Zenon DEF Breaking!Trim, Trim, Breaking!Trips, Trips, Breaking!Failures, Failures,
                 Breaking!Cardinality, Cardinality
  <2>2. Breaking!RecordFailure(w) = RecordFailure(w)
    BY <1>2, <2>1, Zenon DEF Breaking!RecordFailure, RecordFailure, Breaking!NotOpen, NotOpen
  <2> QED
    BY <2>2, Zenon DEF Breaking!Record, Record
<1> QED
  BY <1>3, <1>4, <1>5, <1>6, <1>7, <1>8

\* A surface takes a step that keeps its label, or one of another surface.
LEMMA LabelsKept ==
    ASSUME TypeOK, LabelInv, NEW h \in Holders, NEW a,
           holder' = [holder EXCEPT ![h] = a],
           h \in Streams => /\ a.policy = holder[h].policy
                            /\ a.pc # "idle" /\ holder[h].pc # "idle"
    PROVE  LabelInv' /\ Labels' = Labels
<1>1. \A g \in Holders : holder'[g] = IF g = h THEN a ELSE holder[g]
  BY DEF TypeOK
<1>2. \A g \in Streams : holder'[g].policy = holder[g].policy
  BY <1>1, Zenon DEF Holders
<1>3. \A g \in Streams : holder'[g].pc = "idle" <=> holder[g].pc = "idle"
  BY <1>1, Zenon DEF Holders
<1>4. LabelInv'
  BY <1>2, <1>3 DEF LabelInv
<1> QED
  BY <1>2, <1>4 DEF Labels

\* A stream that is past the breaker leaves.
LEMMA LabelDropped ==
    ASSUME TypeOK, LabelInv, NEW h \in Streams, holder[h].pc # "idle", Leave(h)
    PROVE  /\ LabelInv' /\ Labels' = [Labels EXCEPT ![h] = None]
           /\ Labels[h] \in Policies /\ Labels[h] = holder[h].policy
<1>1. \A g \in Streams : holder'[g] = IF g = h THEN IdleAttempt ELSE holder[g]
  BY DEF TypeOK, Leave, Holders
<1>2. LabelInv'
  BY <1>1 DEF LabelInv, IdleAttempt
<1>3. \A g \in Streams : holder'[g].policy = IF g = h THEN None ELSE holder[g].policy
  BY <1>1 DEF IdleAttempt
<1> QED
  BY <1>2, <1>3 DEF Labels, LabelInv

\* What a step of Gateway does to the breaker and the labels, in Gateway's terms.
UseStep ==
    \/ UNCHANGED <<window, Labels>>
    \/ \E q \in Policies :
          window' = [window EXCEPT ![q] = AfterState(@)] /\ UNCHANGED Labels
    \/ \E h \in Streams, q \in Policies :
          /\ Labels[h] = None
          /\ AcceptsPayment(Verdict(window[q]))
          /\ window' = [window EXCEPT ![q] = AfterState(@)]
          /\ Labels' = [Labels EXCEPT ![h] = q]
    \/ \E h \in Streams, q \in Policies :
          /\ Labels[h] = q
          /\ \/ window' = [window EXCEPT ![q] = Record(@, FALSE)]
             \/ window' = [window EXCEPT ![q] = Record(@, TRUE)]
          /\ Labels' = [Labels EXCEPT ![h] = None]
    \/ \E h \in Streams :
          /\ Labels[h] # None
          /\ Labels' = [Labels EXCEPT ![h] = None]
          /\ UNCHANGED window
    \/ window' = [q \in Policies |-> Elapse(window[q])] /\ UNCHANGED Labels
    \/ /\ window' = [q \in Policies |-> NewWindow]
       /\ Labels' = [h \in Streams |-> None]

LEMMA UseStepIsUse == UseStep => [Breaking!UseNext]_<<window, Labels>>
<1> SUFFICES ASSUME UseStep PROVE [Breaking!UseNext]_<<window, Labels>>
  OBVIOUS
<1>0. Labels = [h \in Streams |-> holder[h].policy]
  BY DEF Labels
<1>1. CASE UNCHANGED <<window, Labels>>
  BY <1>1
<1>2. ASSUME NEW q \in Policies,
             window' = [window EXCEPT ![q] = AfterState(@)], UNCHANGED Labels
      PROVE  Breaking!UseNext
  <2>1. Breaking!Asked(q)
    BY <1>2, SameBreaker DEF Breaking!Asked, Labels
  <2> QED
    BY <2>1 DEF Breaking!UseNext
<1>3. ASSUME NEW h \in Streams, NEW q \in Policies, Labels[h] = None,
             AcceptsPayment(Verdict(window[q])),
             window' = [window EXCEPT ![q] = AfterState(@)],
             Labels' = [Labels EXCEPT ![h] = q]
      PROVE  Breaking!UseNext
  <2>1. Breaking!Admitted(h, q)
    BY <1>3, SameBreaker DEF Breaking!Admitted, Labels
  <2> QED
    BY <2>1 DEF Breaking!UseNext
<1>4. ASSUME NEW h \in Streams, NEW q \in Policies, Labels[h] = q,
             \/ window' = [window EXCEPT ![q] = Record(@, FALSE)]
             \/ window' = [window EXCEPT ![q] = Record(@, TRUE)],
             Labels' = [Labels EXCEPT ![h] = None]
      PROVE  Breaking!UseNext
  <2>1. Breaking!Reported(h, q, FALSE) \/ Breaking!Reported(h, q, TRUE)
    BY <1>4, SameBreaker DEF Breaking!Reported, Labels
  <2> QED
    BY <2>1 DEF Breaking!UseNext
<1>5. ASSUME NEW h \in Streams, Labels[h] # None,
             Labels' = [Labels EXCEPT ![h] = None], UNCHANGED window
      PROVE  Breaking!UseNext
  <2>1. Breaking!Ended(h)
    BY <1>5 DEF Breaking!Ended, Labels
  <2> QED
    BY <2>1 DEF Breaking!UseNext
<1>6. CASE window' = [q \in Policies |-> Elapse(window[q])] /\ UNCHANGED Labels
  <2>1. Breaking!Waited
    BY <1>6, SameBreaker DEF Breaking!Waited, Labels
  <2> QED
    BY <2>1 DEF Breaking!UseNext
<1>7. CASE /\ window' = [q \in Policies |-> NewWindow]
           /\ Labels' = [h \in Streams |-> None]
  <2>1. Breaking!Restarted
    BY <1>7, SameBreaker DEF Breaking!Restarted, Labels
  <2> QED
    BY <2>1 DEF Breaking!UseNext
<1> QED
  BY <1>1, <1>2, <1>3, <1>4, <1>5, <1>6, <1>7 DEF UseStep

\* The steps all surfaces share: the breaker is not asked and not told.
LEMMA SharedLabels ==
    ASSUME TypeOK, HoldInv, LabelInv, NEW h \in Holders,
           \/ Abandon(h) \/ ClaimFresh(h) \/ SkipClaim(h) \/ ClaimReplayed(h)
           \/ SettleVerified(h) \/ SettleRejected(h) \/ Execute(h)
    PROVE  LabelInv' /\ UseStep
<1>0. holder[h] \in Attempt
  BY DEF TypeOK
<1>1. CASE Abandon(h) \/ ClaimReplayed(h)
  <2>1. Leave(h) /\ holder[h].pc # "idle" /\ UNCHANGED window
    BY <1>1 DEF Abandon, ClaimReplayed
  <2>2. CASE h \in Streams
    <3>1. /\ LabelInv' /\ Labels' = [Labels EXCEPT ![h] = None]
          /\ Labels[h] # None
      BY <2>1, <2>2, LabelDropped, SurfacesAssumption
    <3> QED
      BY <2>1, <2>2, <3>1 DEF UseStep
  <2>3. CASE h \notin Streams
    <3>1. LabelInv' /\ Labels' = Labels
      BY <2>1, <2>3, LabelsKept DEF Leave
    <3> QED
      BY <2>1, <3>1 DEF UseStep
  <2> QED
    BY <2>2, <2>3
<1>2. ASSUME NEW pc, pc # "idle", Become(h, pc), holder[h].pc # "idle", UNCHANGED window
      PROVE  LabelInv' /\ UseStep
  <2> DEFINE a == [holder[h] EXCEPT !.pc = pc]
  <2>1. holder' = [holder EXCEPT ![h] = a]
    BY <1>2 DEF Become
  <2>2. a.pc = pc /\ a.policy = holder[h].policy
    BY <1>0 DEF Attempt
  <2> HIDE DEF a
  <2>3. LabelInv' /\ Labels' = Labels
    BY <1>2, <2>1, <2>2, LabelsKept
  <2> QED
    BY <1>2, <2>3 DEF UseStep
<1>3. CASE ClaimFresh(h) \/ SkipClaim(h)
  <2>1. Granted(h) # "idle"
    BY DEF Granted
  <2> QED
    BY <1>2, <1>3, <2>1 DEF ClaimFresh, SkipClaim
<1>4. CASE SettleVerified(h)
  <2>1. (IF StubMode THEN "settled" ELSE "execute") # "idle"
    OBVIOUS
  <2> QED
    BY <1>2, <1>4, <2>1 DEF SettleVerified
<1>5. CASE SettleRejected(h)
  BY <1>2, <1>5 DEF SettleRejected
<1>6. CASE Execute(h)
  <2>1. PICK x \in Executions(chain[holder[h].pay]) :
           holder' = [holder EXCEPT ![h].pc = x[2], ![h].sent = "yes"]
    BY <1>6 DEF Execute
  <2>2. x[2] # "idle"
    <3>1. chain[holder[h].pay] \in {"live", "limbo", "landed", "dead"}
      BY <1>6 DEF Execute, TypeOK, HoldInv
    <3> QED
      BY <2>1, <3>1 DEF Executions
  <2> DEFINE a == [holder[h] EXCEPT !.pc = x[2], !.sent = "yes"]
  <2>3. holder' = [holder EXCEPT ![h] = a]
    BY <2>1
  <2>4. a.pc = x[2] /\ a.policy = holder[h].policy
    BY <1>0 DEF Attempt
  <2>5. holder[h].pc # "idle" /\ UNCHANGED window
    BY <1>6 DEF Execute
  <2> HIDE DEF a
  <2>6. LabelInv' /\ Labels' = Labels
    BY <2>2, <2>3, <2>4, <2>5, LabelsKept
  <2> QED
    BY <2>5, <2>6 DEF UseStep
<1> QED
  BY <1>1, <1>3, <1>4, <1>5, <1>6

\* The steps of a stream: one report at most, under its own label, as it leaves.
LEMMA StreamLabels ==
    ASSUME TypeOK, HoldInv, LabelInv, NEW h \in Streams, StreamStep(h)
    PROVE  LabelInv' /\ UseStep
<1>0. h \in Holders /\ holder[h] \in Attempt
  BY DEF Holders, TypeOK
<1>1. CASE VerifyRejected(h) \/ UpstreamFailed(h) \/ HangUp(h)
  <2>1. Leave(h) /\ holder[h].pc # "idle" /\ UNCHANGED window
    BY <1>1 DEF VerifyRejected, UpstreamFailed, HangUp
  <2>2. /\ LabelInv' /\ Labels' = [Labels EXCEPT ![h] = None]
        /\ Labels[h] # None
    BY <2>1, LabelDropped, SurfacesAssumption
  <2> QED
    BY <2>1, <2>2 DEF UseStep
<1>2. CASE StreamSettled(h) \/ StreamFailed(h)
  <2>1. Leave(h) /\ holder[h].pc # "idle"
    BY <1>2 DEF StreamSettled, StreamFailed
  <2>2. PICK q \in Policies : q = holder[h].policy /\ Labels[h] = q
    BY <2>1, LabelDropped
  <2>3. LabelInv' /\ Labels' = [Labels EXCEPT ![h] = None]
    BY <2>1, LabelDropped
  <2>4. \/ window' = [window EXCEPT ![q] = Record(@, FALSE)]
        \/ window' = [window EXCEPT ![q] = Record(@, TRUE)]
    BY <1>2, <2>2 DEF StreamSettled, StreamFailed
  <2> QED
    BY <2>2, <2>3, <2>4, Zenon DEF UseStep
<1>3. CASE VerifyOk(h) \/ UpstreamOk(h)
  <2>1. PICK pc : Become(h, pc) /\ pc # "idle"
    BY <1>3 DEF VerifyOk, UpstreamOk
  <2>2. holder[h].pc # "idle" /\ UNCHANGED window
    BY <1>3 DEF VerifyOk, UpstreamOk
  <2> DEFINE a == [holder[h] EXCEPT !.pc = pc]
  <2>3. holder' = [holder EXCEPT ![h] = a]
    BY <2>1 DEF Become
  <2>4. a.pc = pc /\ a.policy = holder[h].policy
    BY <1>0 DEF Attempt
  <2> HIDE DEF a
  <2>5. LabelInv' /\ Labels' = Labels
    BY <1>0, <2>1, <2>2, <2>3, <2>4, LabelsKept
  <2> QED
    BY <2>2, <2>5 DEF UseStep
<1> QED
  BY <1>0, <1>1, <1>2, <1>3, SharedLabels DEF StreamStep

\* A step of a surface that is no stream.
LEMMA OtherLabels ==
    ASSUME TypeOK, LabelInv, NEW h \in Checks \cup Callers, NEW a,
           holder' = [holder EXCEPT ![h] = a], UNCHANGED window
    PROVE  LabelInv' /\ UseStep
<1>1. h \in Holders /\ h \notin Streams
  BY SurfacesAssumption DEF Holders
<1>2. LabelInv' /\ Labels' = Labels
  BY <1>1, LabelsKept
<1> QED
  BY <1>2 DEF UseStep

LEMMA NextLabels ==
    ASSUME TypeOK, HoldInv, LabelInv, [Next]_vars
    PROVE  LabelInv' /\ UseStep
<1>1. ASSUME UNCHANGED holder PROVE LabelInv' /\ Labels' = Labels
  BY <1>1, Zenon DEF LabelInv, Labels
<1>2. CASE UNCHANGED vars \/ \E p \in Payments : Sweep(p) \/ Land(p) \/ Kill(p)
  <2>1. UNCHANGED <<holder, window>>
    BY <1>2 DEF vars, Sweep, Land, Kill
  <2> QED
    BY <1>1, <2>1 DEF UseStep
<1>3. CASE \/ \E q \in Policies : RequestWithoutPayment(q)
           \/ \E h \in Streams, q \in Policies : RefuseAtBreaker(h, q)
  <2>1. PICK q \in Policies :
           window' = [window EXCEPT ![q] = AfterState(@)] /\ UNCHANGED holder
    BY <1>3 DEF RequestWithoutPayment, RefuseAtBreaker
  <2> QED
    BY <1>1, <2>1, Zenon DEF UseStep
<1>4. CASE \E h \in Streams, p \in Payments, q \in Policies : BeginStream(h, p, q)
  <2>1. PICK h \in Streams, p \in Payments, q \in Policies : BeginStream(h, p, q)
    BY <1>4
  <2> DEFINE a == [pc |-> "claim", pay |-> p, policy |-> q,
                   ttl |-> ReplayTtl(MAX_TIMEOUT), held |-> 0, sent |-> "no"]
  <2>2. a.pc = "claim" /\ a.policy = q
    OBVIOUS
  <2>3. /\ holder' = [holder EXCEPT ![h] = a] /\ holder[h].pc = "idle"
        /\ AcceptsPayment(Verdict(window[q]))
        /\ window' = [window EXCEPT ![q] = AfterState(@)]
    BY <2>1 DEF BeginStream
  <2> HIDE DEF a
  <2>4. \A g \in Streams : holder'[g] = IF g = h THEN a ELSE holder[g]
    BY <2>3 DEF TypeOK, Holders
  <2>5. \A g \in Streams : holder'[g].policy = IF g = h THEN q ELSE holder[g].policy
    BY <2>2, <2>4
  <2>6. LabelInv'
    BY <2>2, <2>4 DEF LabelInv
  <2>7. Labels[h] = None /\ Labels' = [Labels EXCEPT ![h] = q]
    BY <2>3, <2>5 DEF Labels, LabelInv
  <2> QED
    BY <2>3, <2>6, <2>7, Zenon DEF UseStep
<1>5. CASE \E h \in Checks, p \in Payments, q \in Policies : BeginCheck(h, p, q)
  BY <1>5, OtherLabels DEF BeginCheck
<1>6. CASE \E h \in Callers, p \in Payments, t \in ApiTimeouts : BeginSettle(h, p, t)
  BY <1>6, OtherLabels DEF BeginSettle
<1>7. CASE \E h \in Streams : StreamStep(h)
  BY <1>7, StreamLabels
<1>8. CASE \E h \in Checks : CheckStep(h)
  <2>1. PICK h \in Checks : CheckStep(h)
    BY <1>8
  <2>2. h \in Holders
    BY DEF Holders
  <2>3. CASE CheckSettled(h) \/ CheckFailed(h) \/ CallerGone(h)
    BY <2>3, OtherLabels DEF CheckSettled, CheckFailed, CallerGone, Leave
  <2> QED
    BY <2>1, <2>2, <2>3, SharedLabels DEF CheckStep
<1>9. CASE \E h \in Callers : CallerStep(h)
  <2>1. PICK h \in Callers : CallerStep(h)
    BY <1>9
  <2>2. h \in Holders
    BY DEF Holders
  <2>3. CASE CallerSettled(h) \/ CallerFailed(h) \/ CallerGone(h)
    BY <2>3, OtherLabels DEF CallerSettled, CallerFailed, CallerGone, Leave
  <2> QED
    BY <2>1, <2>2, <2>3, SharedLabels DEF CallerStep
<1>10. CASE Tick
  <2>1. ASSUME NEW g \in Streams
        PROVE  holder'[g].pc = holder[g].pc /\ holder'[g].policy = holder[g].policy
    BY <1>10, <2>1 DEF Tick, TypeOK, Attempt, Holders
  <2>2. LabelInv' /\ Labels' = Labels
    BY <2>1 DEF LabelInv, Labels
  <2> QED
    BY <1>10, <2>2 DEF Tick, UseStep
<1>11. CASE Restart
  <2>1. \A g \in Streams : holder'[g] = IdleAttempt
    BY <1>11 DEF Restart, Holders
  <2>2. LabelInv' /\ Labels' = [h \in Streams |-> None]
    BY <2>1 DEF LabelInv, Labels, IdleAttempt
  <2> QED
    BY <1>11, <2>2 DEF Restart, UseStep
<1> QED
  BY <1>2, <1>3, <1>4, <1>5, <1>6, <1>7, <1>8, <1>9, <1>10, <1>11 DEF Next

\* The service drives the breaker as SettlementBreaker's theorems assume, for any
\* number of streams, checks, callers, policies and restarts: ext_proc asks it for
\* every request and tells it at most one outcome per payment it let through, and
\* no other surface touches it.
THEOREM GatewayImplementsBreakerUse == Spec => ImplementsBreakerUse
<1>1. Init => Breaking!UseInit
  BY SameBreaker DEF Init, Breaking!UseInit, IdleAttempt, Holders
<1>2. Init => LabelInv
  BY DEF Init, LabelInv, IdleAttempt, Holders
<1>3. IInv /\ LabelInv /\ [Next]_vars => LabelInv' /\ [Breaking!UseNext]_<<window, Labels>>
  BY NextLabels, UseStepIsUse DEF IInv, Core
<1>4. IInv /\ LabelInv /\ [Next]_vars => LabelInv'
  BY <1>3
<1>5. IInv /\ LabelInv /\ [Next]_vars
         => [Breaking!UseNext]_<<window, [h \in Streams |-> holder[h].policy]>>
  BY <1>3 DEF Labels
<1> QED
  BY <1>1, <1>2, <1>4, <1>5, AlwaysIInv, PTL
     DEF Spec, ImplementsBreakerUse, Breaking!UseSpec
=============================================================================
