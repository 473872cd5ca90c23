---------------------------- MODULE ConsoleProofs ----------------------------
(***************************************************************************)
(* Proofs about Console, for any number of visitors, any prices, funds,    *)
(* budget and hourly allowance, and any number of runs of x402-pay.        *)
(*                                                                         *)
(* That `spent` counts money is not inductive: a payment must not be able  *)
(* to execute twice, by its nonce (NoncesFresh) or by the gas coin it is   *)
(* pinned to (ExecutesOnce), and at most one visitor may be paying         *)
(* (OnePays).  Every step of a visitor or of x402-pay is an instance of    *)
(* StepOf, which keeps the whole invariant.                                *)
(***************************************************************************)
EXTENDS Console, FiniteSetTheorems, TLAPS

\* A transaction: only a gasless one has a nonce.
IsPayment(p) ==
    /\ p.nonce \in Nat
    /\ p.gas \in Int
    /\ p.path = "gasless" <=> p.nonce > 0

IsExchange(e) ==
    /\ DOMAIN e = {"pc", "target", "paths", "hour", "path", "pay", "sent", "reply"}
    /\ e.hour \in 0..MaxHour
    /\ IsPayment(e.pay)

IsTransfer(x) ==
    /\ x[1] \in {"demo", "cli"}
    /\ IsPayment(x[2])

Typed ==
    /\ DOMAIN act = Actors
    /\ \A a \in Actors : IsExchange(act[a])
    /\ {"address", "coin", "gas"} \subseteq DOMAIN wallet
    /\ wallet.gas \in Int
    /\ IsFiniteSet(landed) /\ IsFiniteSet(limbo)
    /\ \A x \in landed \cup limbo : IsTransfer(x)
    /\ spent \in Nat
    /\ unseen \in Nat
    /\ lock \in Visitors \cup {Nobody}
    /\ hour \in 0..MaxHour

\* What an exchange under way knows is so.
Told(a) ==
    /\ InFlight(a) => act[a].pay.path \in {"gasless", "coin-object"}
    /\ act[a].pc # "answer" => act[a].reply.session = "no"
    /\ act[a].pc = "answer" =>
          /\ ReceiptSettled(act[a].reply.receipt) => Mine(a) \in landed
          /\ mode = "sui" /\ act[a].reply.session = "yes" => Mine(a) \in landed
          /\ SettlementSpan(act[a].reply) = "skip" =>
                act[a].sent = "no" \/ act[a].reply.timing = {}
          /\ act[a].reply.by = "gateway" =>
                /\ act[a].sent = "no"
                /\ act[a].pay.path = "gasless" => Mine(a) \notin landed \cup limbo

\* From the budget check to the end of the payment.
Paying(a) == act[a].pc \in {"probe", "build", "send", "upstream", "answer"}

\* Who pays holds the lock, and the budget has room for it.
OnePays ==
    /\ \A v \in Visitors : Paying(v) => lock = v
    /\ spent <= MAX_PLAYS
    /\ lock # Nobody => spent < MAX_PLAYS

\* A gasless payment in flight is like no other transaction anybody has.
NoncesFresh ==
    \A a \in Actors :
       InFlight(a) /\ act[a].pay.path = "gasless" =>
          /\ \A b \in Actors : b # a => act[b].pay.nonce # act[a].pay.nonce
          /\ \A x \in landed \cup limbo : x[2].nonce # act[a].pay.nonce

\* No transaction can execute twice: what has executed was pinned to a gas coin
\* that has been spent since, or is not in limbo any more.
ExecutesOnce ==
    /\ \A x \in landed : x[2].path = "gasless" \/ x[2].gas > wallet.gas
    /\ \A x \in limbo : x[2].path = "gasless" => x \notin landed

CInv ==
    /\ Typed
    /\ \A a \in Actors : Told(a)
    /\ OnePays
    /\ NoncesFresh
    /\ ExecutesOnce
    /\ SpentIsMoney

Settled(a) == act[a].pc = "answer" /\ act[a].reply.receipt = "settled"

\* A receipt a handler has and has not counted yet.
Owed(a) == IF a \in Visitors /\ Settled(a) THEN 1 ELSE 0

\* A payment of the demo's that executes in this step.
Gain(a) == IF a \in Visitors /\ landed' # landed THEN 1 ELSE 0

\* Taking, keeping and giving up the lock, and counting under it.
LockStep(a) ==
    \/ /\ lock' = lock /\ spent' = spent
       /\ a \in Visitors /\ Paying(a)' => Paying(a)
    \/ /\ lock = Nobody /\ lock' = a /\ a \in Visitors
       /\ spent < MAX_PLAYS /\ spent' = spent
    \/ /\ lock' = (IF lock = a THEN Nobody ELSE lock)
       /\ ~Paying(a)'
       /\ \/ spent' = spent
          \/ a \in Visitors /\ Paying(a) /\ spent' = spent + 1

\* A step of one exchange.
StepOf(a) ==
    /\ DOMAIN act' = Actors
    /\ \A b \in Actors : b # a => act'[b] = act[b]
    /\ IsExchange(act'[a])
    /\ Told(a)'
    /\ act'[a].pc = "entry" => act'[a].hour = hour
    /\ mode' = mode /\ hour' = hour
    /\ \/ UNCHANGED chainVars
       \/ InFlight(a) /\ ~InFlight(a)' /\ (Executes(a) \/ MayExecute(a))
    /\ \/ act'[a].pay = act[a].pay /\ (InFlight(a)' => InFlight(a))
       \/ act'[a].pay.path # "gasless"
       \/ act'[a].pay.nonce \notin Used
    /\ LockStep(a)
    /\ unseen' \in Nat
    /\ spent' + unseen' + Owed(a)' = spent + unseen + Owed(a) + Gain(a)

-----------------------------------------------------------------------------
(* What a step keeps *)

LEMMA PayerFacts ==
    /\ \A v \in Visitors : v # Cli /\ v # Nobody /\ v \in Actors /\ Payer(v) = "demo"
    /\ Payer(Cli) = "cli" /\ Cli \in Actors /\ Cli \notin Visitors
    /\ \A a \in Actors : a \notin Visitors => a = Cli
  BY ConsoleAssumption DEF Actors, Payer

\* What a payment at the gateway may do to the chain.
LEMMA ChainGrows ==
    ASSUME Typed, NEW a \in Actors, StepOf(a)
    PROVE  /\ landed \subseteq landed'
           /\ landed' = landed \/ landed' = landed \cup {Mine(a)}
           /\ limbo' = limbo \/ limbo' = limbo \cup {Mine(a)}
           /\ ~(landed' = landed /\ limbo' = limbo) => InFlight(a) /\ ~InFlight(a)'
           /\ \/ landed' = landed /\ wallet' = wallet
              \/ /\ Payable(wallet, act[a].pay) /\ wallet' = Debited(wallet, act[a].pay)
                 /\ landed' = landed \cup {Mine(a)} /\ limbo' = limbo
                 /\ InFlight(a) /\ ~InFlight(a)'
  BY DEF StepOf, chainVars, Executes, MayExecute

LEMMA DebitedGas ==
    ASSUME NEW w, {"address", "coin", "gas"} \subseteq DOMAIN w, w.gas \in Int,
           NEW p, Payable(w, p), NEW d, d = Debited(w, p)
    PROVE  /\ {"address", "coin", "gas"} \subseteq DOMAIN d
           /\ d.gas \in Int /\ d.gas <= w.gas
           /\ \/ p.path = "gasless"
              \/ p.path = "coin-object" /\ p.gas = w.gas /\ d.gas < w.gas
<1>1. CASE p.path = "gasless"
  BY <1>1 DEF Debited
<1>2. CASE p.path # "gasless"
  <2>1. p.path = "coin-object" /\ w.gas = p.gas
    BY <1>2 DEF Payable
  <2>2. DOMAIN d = DOMAIN w /\ d.gas = w.gas - 1
    BY <1>2 DEF Debited
  <2> QED
    BY <2>1, <2>2
<1> QED
  BY <1>1, <1>2

LEMMA StepTyped ==
    ASSUME Typed, NEW a \in Actors, StepOf(a)
    PROVE  Typed'
<1>1. DOMAIN act' = Actors /\ \A b \in Actors : IsExchange(act'[b])
  BY Zenon DEF Typed, StepOf
<1>2. {"address", "coin", "gas"} \subseteq DOMAIN wallet' /\ wallet'.gas \in Int
  <2>1. CASE wallet' = wallet
    BY <2>1 DEF Typed
  <2>2. CASE Payable(wallet, act[a].pay) /\ wallet' = Debited(wallet, act[a].pay)
    <3>1. PICK w, p, d : w = wallet /\ p = act[a].pay /\ d = wallet'
      OBVIOUS
    <3>2. {"address", "coin", "gas"} \subseteq DOMAIN w /\ w.gas \in Int
          /\ Payable(w, p) /\ d = Debited(w, p)
      BY <2>2, <3>1, Zenon DEF Typed
    <3> QED
      BY <3>1, <3>2, DebitedGas
  <2> QED
    BY <2>1, <2>2, ChainGrows
<1>3. IsTransfer(Mine(a))
  <2>1. Mine(a) = <<Payer(a), act[a].pay>> /\ IsPayment(act[a].pay)
    BY DEF Mine, Typed, IsExchange
  <2>2. Payer(a) \in {"demo", "cli"}
    BY DEF Payer
  <2> QED
    BY <2>1, <2>2 DEF IsTransfer
<1>4. IsFiniteSet(landed') /\ IsFiniteSet(limbo')
  <2>1. PICK x, s, t : x = Mine(a) /\ s = landed /\ t = limbo
    OBVIOUS
  <2>2. IsFiniteSet(s) /\ IsFiniteSet(t)
    BY <2>1, Zenon DEF Typed
  <2>3. IsFiniteSet(s \cup {x}) /\ IsFiniteSet(t \cup {x})
    BY <2>2, FS_AddElement
  <2> QED
    BY <2>1, <2>2, <2>3, ChainGrows, Zenon
<1>5. \A x \in landed' \cup limbo' : IsTransfer(x)
  <2>1. landed' \subseteq landed \cup {Mine(a)} /\ limbo' \subseteq limbo \cup {Mine(a)}
    BY ChainGrows, Zenon
  <2>2. \A x \in landed \cup limbo : IsTransfer(x)
    BY DEF Typed
  <2> QED
    BY <1>3, <2>1, <2>2, Zenon
<1>6. spent' \in Nat /\ unseen' \in Nat /\ lock' \in Visitors \cup {Nobody} /\ hour' \in 0..MaxHour
  BY DEF Typed, StepOf, LockStep
<1> QED
  BY <1>1, <1>2, <1>4, <1>5, <1>6 DEF Typed

LEMMA StepTold ==
    ASSUME CInv, NEW a \in Actors, StepOf(a)
    PROVE  \A b \in Actors : Told(b)'
<1> SUFFICES ASSUME NEW b \in Actors PROVE Told(b)'
  OBVIOUS
<1>1. CASE b = a
  BY <1>1, Zenon DEF StepOf
<1>2. CASE b # a
  <2>0. Typed
    BY DEF CInv
  <2>1. act'[b] = act[b] /\ mode' = mode /\ Told(b)
    BY <1>2 DEF StepOf, CInv
  <2>2. landed \subseteq landed'
    BY <2>0, ChainGrows, Zenon
  <2>3. /\ Mine(b)' = Mine(b)
        /\ ReceiptSettled(act[b].reply.receipt)' = ReceiptSettled(act[b].reply.receipt)
        /\ SettlementSpan(act[b].reply)' = SettlementSpan(act[b].reply)
        /\ InFlight(b)' = InFlight(b)
    BY <2>1, Zenon DEF Mine, ReceiptSettled, SettlementSpan, InFlight
  <2>4. ASSUME act[b].pay.path = "gasless", Mine(b) \notin landed \cup limbo
        PROVE  Mine(b) \notin landed' \cup limbo'
    <3>1. CASE landed' = landed /\ limbo' = limbo
      BY <2>4, <3>1
    <3>2. CASE ~(landed' = landed /\ limbo' = limbo)
      <4>1. /\ InFlight(a)
            /\ landed' \subseteq landed \cup {Mine(a)} /\ limbo' \subseteq limbo \cup {Mine(a)}
        BY <2>0, <3>2, ChainGrows, Zenon
      <4>2. Mine(a)[2] = act[a].pay /\ Mine(b)[2] = act[b].pay
        BY DEF Mine
      <4>3. act[a].pay # act[b].pay
        BY <1>2, <2>4, <4>1 DEF CInv, NoncesFresh
      <4> QED
        BY <2>4, <4>1, <4>2, <4>3, Zenon
    <3> QED
      BY <3>1, <3>2
  <2> QED
    BY <2>1, <2>2, <2>3, <2>4 DEF Told
<1> QED
  BY <1>1, <1>2

LEMMA StepOnePays ==
    ASSUME CInv, NEW a \in Actors, StepOf(a)
    PROVE  OnePays'
<1>1. LockStep(a) /\ \A b \in Actors : b # a => act'[b] = act[b]
  BY DEF StepOf
<1>2. /\ \A v \in Visitors : Paying(v) => lock = v
      /\ spent \in Nat /\ spent <= MAX_PLAYS /\ MAX_PLAYS \in Nat
      /\ lock # Nobody => spent < MAX_PLAYS
  BY ConsoleAssumption DEF CInv, Typed, OnePays
<1>3. \A v \in Visitors : v # a => (Paying(v)' <=> Paying(v))
  BY <1>1, PayerFacts, Zenon DEF Paying
<1>4. \A v \in Visitors : Paying(v)' => lock' = v
  <2> SUFFICES ASSUME NEW v \in Visitors, Paying(v)' PROVE lock' = v
    OBVIOUS
  <2>1. CASE v = a
    BY <1>1, <1>2, <2>1, Zenon DEF LockStep
  <2>2. CASE v # a
    <3>1. Paying(v) /\ lock = v /\ v # Nobody
      BY <1>2, <1>3, <2>2, PayerFacts
    <3> QED
      BY <1>1, <2>2, <3>1, Zenon DEF LockStep
  <2> QED
    BY <2>1, <2>2
<1>5. spent' <= MAX_PLAYS /\ (lock' # Nobody => spent' < MAX_PLAYS)
  <2>1. CASE spent' = spent
    BY <1>1, <1>2, <2>1, PayerFacts DEF LockStep
  <2>2. CASE spent' # spent
    <3>1. a \in Visitors /\ Paying(a) /\ spent' = spent + 1
          /\ lock' = IF lock = a THEN Nobody ELSE lock
      BY <1>1, <2>2, Zenon DEF LockStep
    <3>2. lock = a /\ lock # Nobody
      BY <1>2, <3>1, PayerFacts
    <3> QED
      BY <1>2, <3>1, <3>2
  <2> QED
    BY <2>1, <2>2
<1> QED
  BY <1>4, <1>5 DEF OnePays

LEMMA StepNonces ==
    ASSUME CInv, NEW a \in Actors, StepOf(a)
    PROVE  NoncesFresh'
<1>0. Typed /\ Typed'
  BY StepTyped DEF CInv
<1>1. \A b \in Actors : b # a => act'[b] = act[b]
  BY DEF StepOf
<1>2. \A b \in Actors : IsPayment(act[b].pay) /\ IsPayment(act'[b].pay)
  BY <1>0 DEF Typed, IsExchange
<1>3. /\ landed' \subseteq landed \cup {Mine(a)}
      /\ limbo' \subseteq limbo \cup {Mine(a)}
      /\ InFlight(a)' => landed' = landed /\ limbo' = limbo
  BY <1>0, ChainGrows, Zenon
<1>4. Mine(a)[2] = act[a].pay
  BY DEF Mine
<1>5. /\ \A b \in Actors : act[b].pay.nonce \in Used
      /\ \A x \in landed \cup limbo : x[2].nonce \in Used
  BY DEF Used
<1> SUFFICES ASSUME NEW c \in Actors, InFlight(c)', act'[c].pay.path = "gasless"
             PROVE  /\ \A b \in Actors : b # c => act'[b].pay.nonce # act'[c].pay.nonce
                    /\ \A x \in landed' \cup limbo' : x[2].nonce # act'[c].pay.nonce
  BY DEF NoncesFresh
<1>6. CASE c = a
  <2>1. landed' = landed /\ limbo' = limbo
    BY <1>3, <1>6
  <2>2. CASE act'[a].pay = act[a].pay /\ InFlight(a)
    <3>1. /\ \A b \in Actors : b # a => act[b].pay.nonce # act[a].pay.nonce
          /\ \A x \in landed \cup limbo : x[2].nonce # act[a].pay.nonce
      BY <1>6, <2>2 DEF CInv, NoncesFresh
    <3> QED
      BY <1>1, <1>6, <2>1, <2>2, <3>1, Zenon
  <2>3. CASE act'[a].pay.nonce \notin Used
    BY <1>1, <1>5, <1>6, <2>1, <2>3, Zenon
  <2> QED
    BY <1>6, <2>2, <2>3 DEF StepOf
<1>7. CASE c # a
  <2>1. act'[c] = act[c] /\ InFlight(c)
    BY <1>1, <1>7 DEF InFlight
  <2>2. /\ \A b \in Actors : b # c => act[b].pay.nonce # act[c].pay.nonce
        /\ \A x \in landed \cup limbo : x[2].nonce # act[c].pay.nonce
    BY <2>1 DEF CInv, NoncesFresh
  <2>3. \A x \in landed' \cup limbo' : x[2].nonce # act'[c].pay.nonce
    BY <1>3, <1>4, <1>7, <2>1, <2>2, Zenon
  <2>4. act'[a].pay.nonce # act'[c].pay.nonce
    <3>1. CASE act'[a].pay = act[a].pay
      BY <1>7, <2>1, <2>2, <3>1, Zenon
    <3>2. CASE act'[a].pay.path # "gasless"
      BY <1>2, <3>2 DEF IsPayment
    <3>3. CASE act'[a].pay.nonce \notin Used
      BY <1>5, <2>1, <3>3, Zenon
    <3> QED
      BY <3>1, <3>2, <3>3 DEF StepOf
  <2> QED
    BY <1>1, <2>1, <2>2, <2>3, <2>4, Zenon
<1> QED
  BY <1>6, <1>7

\* A payment that executes has not executed before.
LEMMA NotTwice ==
    ASSUME CInv, NEW a \in Actors, InFlight(a), Payable(wallet, act[a].pay)
    PROVE  Mine(a) \notin landed
<1>1. PICK w, p, d : w = wallet /\ p = act[a].pay /\ d = Debited(w, p)
  OBVIOUS
<1>2. {"address", "coin", "gas"} \subseteq DOMAIN w /\ w.gas \in Int /\ Payable(w, p)
  BY <1>1, Zenon DEF CInv, Typed
<1>3. \/ p.path = "gasless"
      \/ p.path = "coin-object" /\ p.gas = w.gas
  BY <1>1, <1>2, DebitedGas
<1>4. Mine(a)[2] = p
  BY <1>1 DEF Mine
<1> SUFFICES ASSUME Mine(a) \in landed PROVE FALSE
  OBVIOUS
<1>5. CASE p.path = "gasless"
  BY <1>1, <1>4, <1>5 DEF CInv, NoncesFresh
<1>6. CASE p.path = "coin-object" /\ p.gas = w.gas
  <2>1. p.gas > w.gas
    BY <1>1, <1>4, <1>6 DEF CInv, ExecutesOnce
  <2> QED
    BY <1>2, <1>6, <2>1
<1> QED
  BY <1>3, <1>5, <1>6

LEMMA StepOnce ==
    ASSUME CInv, NEW a \in Actors, StepOf(a)
    PROVE  ExecutesOnce'
<1>0. Typed
  BY DEF CInv
<1>1. Mine(a)[2] = act[a].pay /\ IsPayment(act[a].pay)
  BY <1>0 DEF Mine, Typed, IsExchange
<1>2. /\ \A x \in landed : x[2].path = "gasless" \/ x[2].gas > wallet.gas
      /\ \A x \in limbo : x[2].path = "gasless" => x \notin landed
      /\ \A x \in landed : x[2].gas \in Int
      /\ wallet.gas \in Int
  BY <1>0 DEF CInv, ExecutesOnce, Typed, IsTransfer, IsPayment
<1>3. InFlight(a) /\ act[a].pay.path = "gasless" => Mine(a) \notin landed /\ Mine(a) \notin limbo
  BY <1>1 DEF CInv, NoncesFresh
<1>4. CASE landed' = landed /\ wallet' = wallet
  <2>1. limbo' = limbo \/ (InFlight(a) /\ limbo' = limbo \cup {Mine(a)})
    BY <1>0, <1>4, ChainGrows, Zenon
  <2>2. \A x \in limbo' : x[2].path = "gasless" => x \notin landed'
    BY <1>1, <1>2, <1>3, <1>4, <2>1, Zenon
  <2> QED
    BY <1>2, <1>4, <2>2, Zenon DEF ExecutesOnce
<1>5. CASE /\ Payable(wallet, act[a].pay) /\ wallet' = Debited(wallet, act[a].pay)
           /\ landed' = landed \cup {Mine(a)} /\ limbo' = limbo
           /\ InFlight(a)
  <2>1. PICK w, p, d : w = wallet /\ p = act[a].pay /\ d = wallet'
    OBVIOUS
  <2>2. {"address", "coin", "gas"} \subseteq DOMAIN w /\ w.gas \in Int
        /\ Payable(w, p) /\ d = Debited(w, p)
    BY <1>0, <1>5, <2>1, Zenon DEF Typed
  <2>3. /\ d.gas \in Int /\ d.gas <= w.gas
        /\ \/ p.path = "gasless"
           \/ p.path = "coin-object" /\ p.gas = w.gas /\ d.gas < w.gas
    BY <2>2, DebitedGas
  <2>4. Mine(a)[2].path = "gasless" \/ Mine(a)[2].gas > wallet'.gas
    BY <1>1, <2>1, <2>2, <2>3
  <2>5. \A x \in landed : x[2].path = "gasless" \/ x[2].gas > wallet'.gas
    BY <1>2, <2>1, <2>2, <2>3
  <2>6. \A x \in limbo' : x[2].path = "gasless" => x \notin landed'
    BY <1>1, <1>2, <1>3, <1>5, Zenon
  <2> QED
    BY <1>5, <2>4, <2>5, <2>6, Zenon DEF ExecutesOnce
<1> QED
  BY <1>0, <1>4, <1>5, ChainGrows, Zenon

\* The receipts handlers have and have not counted.
Owing == {v \in Visitors : Settled(v)}

LEMMA OwingCount ==
    ASSUME CInv, NEW a \in Actors, StepOf(a)
    PROVE  /\ Cardinality(Owing) \in Nat /\ Cardinality(Owing') \in Nat
           /\ Cardinality(Owing') + Owed(a) = Cardinality(Owing) + Owed(a)'
<1>1. PICK S, T : S = Owing /\ T = Owing'
  OBVIOUS
<1>2. \A b \in Actors : b # a => (Settled(b)' <=> Settled(b))
  BY Zenon DEF StepOf, Settled
<1>3. S = {v \in Visitors : Settled(v)} /\ T = {v \in Visitors : Settled(v)'}
  BY <1>1 DEF Owing
<1>4. IsFiniteSet(S) /\ IsFiniteSet(T)
  <2>1. S \in SUBSET Visitors /\ T \in SUBSET Visitors /\ IsFiniteSet(Visitors)
    BY <1>3, ConsoleAssumption
  <2> QED
    BY <2>1, FS_Subset
<1>5. Cardinality(S) \in Nat /\ Cardinality(T) \in Nat
  BY <1>4, FS_CardinalityType
<1>6. /\ Cardinality(S \cup {a}) = IF a \in S THEN Cardinality(S) ELSE Cardinality(S) + 1
      /\ Cardinality(S \ {a}) = IF a \in S THEN Cardinality(S) - 1 ELSE Cardinality(S)
  BY <1>4, FS_AddElement, FS_RemoveElement
<1>7. \A v : v # a => (v \in S <=> v \in T)
  BY <1>2, <1>3, PayerFacts
<1>8. (a \in S <=> Owed(a) = 1) /\ (a \in T <=> Owed(a)' = 1)
      /\ Owed(a) \in {0, 1} /\ Owed(a)' \in {0, 1}
  BY <1>3 DEF Owed
<1>9. T = IF a \in T THEN S \cup {a} ELSE S \ {a}
  BY <1>7
<1>10. Cardinality(T) + Owed(a) = Cardinality(S) + Owed(a)'
  <2>1. CASE a \in T
    <3>1. Cardinality(T) = IF a \in S THEN Cardinality(S) ELSE Cardinality(S) + 1
      BY <1>6, <1>9, <2>1, Zenon
    <3> QED
      BY <1>5, <1>8, <2>1, <3>1
  <2>2. CASE a \notin T
    <3>1. Cardinality(T) = IF a \in S THEN Cardinality(S) - 1 ELSE Cardinality(S)
      BY <1>6, <1>9, <2>2, Zenon
    <3> QED
      BY <1>5, <1>8, <2>2, <3>1
  <2> QED
    BY <2>1, <2>2
<1> QED
  BY <1>1, <1>5, <1>10

\* The demo's transfers, before and after one more lands.
LEMMA ByDemoGrows ==
    ASSUME Typed, NEW x, x \notin landed, landed' = landed \cup {x}
    PROVE  /\ IsFiniteSet(ByDemo) /\ Cardinality(ByDemo) \in Nat
           /\ Cardinality(ByDemo') =
                IF x[1] = "demo" THEN Cardinality(ByDemo) + 1 ELSE Cardinality(ByDemo)
<1>1. PICK S, T, L : S = ByDemo /\ T = ByDemo' /\ L = landed
  OBVIOUS
<1>2. S = {y \in L : y[1] = "demo"} /\ T = {y \in L \cup {x} : y[1] = "demo"} /\ x \notin L
  BY <1>1 DEF ByDemo
<1>3. S \in SUBSET L /\ IsFiniteSet(L)
  BY <1>1, <1>2 DEF Typed
<1>4. IsFiniteSet(S)
  BY <1>3, FS_Subset
<1>5. Cardinality(S) \in Nat
  BY <1>4, FS_CardinalityType
<1>6. T = IF x[1] = "demo" THEN S \cup {x} ELSE S
  BY <1>2
<1>7. x \notin S
  BY <1>2
<1>8. Cardinality(S \cup {x}) = Cardinality(S) + 1
  BY <1>4, <1>7, FS_AddElement
<1> QED
  BY <1>1, <1>4, <1>5, <1>6, <1>8

LEMMA ByDemoSame ==
    ASSUME Typed, landed' = landed
    PROVE  ByDemo' = ByDemo /\ Cardinality(ByDemo) \in Nat
<1>1. PICK S, L : S = ByDemo /\ L = landed
  OBVIOUS
<1>2. S \in SUBSET L /\ IsFiniteSet(L)
  BY <1>1 DEF Typed, ByDemo
<1>3. IsFiniteSet(S)
  BY <1>2, FS_Subset
<1>4. Cardinality(S) \in Nat
  BY <1>3, FS_CardinalityType
<1> QED
  BY <1>1, <1>4 DEF ByDemo

LEMMA MoneyIs ==
    /\ SpentIsMoney <=> Cardinality(ByDemo) = spent + unseen + Cardinality(Owing)
    /\ SpentIsMoney' <=> Cardinality(ByDemo') = spent' + unseen' + Cardinality(Owing')
<1>1. Owing = {v \in Visitors : act[v].pc = "answer" /\ act[v].reply.receipt = "settled"}
  BY DEF Owing, Settled
<1>2. Owing' = {v \in Visitors : act'[v].pc = "answer" /\ act'[v].reply.receipt = "settled"}
  BY DEF Owing, Settled
<1> HIDE DEF Owing
<1> QED
  BY <1>1, <1>2, Zenon DEF SpentIsMoney

LEMMA StepMoney ==
    ASSUME CInv, NEW a \in Actors, StepOf(a)
    PROVE  SpentIsMoney'
<1>0. Typed /\ spent \in Nat /\ unseen \in Nat /\ spent' \in Nat /\ unseen' \in Nat
  BY StepTyped DEF CInv, Typed
<1>1. Cardinality(ByDemo) = spent + unseen + Cardinality(Owing)
  BY MoneyIs DEF CInv
<1>2. /\ Cardinality(Owing) \in Nat /\ Cardinality(Owing') \in Nat
      /\ Cardinality(Owing') + Owed(a) = Cardinality(Owing) + Owed(a)'
  BY OwingCount
<1>3. /\ spent' + unseen' + Owed(a)' = spent + unseen + Owed(a) + Gain(a)
      /\ Owed(a) \in Nat /\ Owed(a)' \in Nat /\ Gain(a) \in Nat
  BY DEF StepOf, Owed, Gain
<1>4. Cardinality(ByDemo) \in Nat /\ Cardinality(ByDemo') = Cardinality(ByDemo) + Gain(a)
  <2>1. CASE landed' = landed
    BY <1>0, <2>1, ByDemoSame DEF Gain
  <2>2. CASE landed' # landed
    <3>1. PICK x : x = Mine(a)
      OBVIOUS
    <3>2. landed' = landed \cup {x} /\ InFlight(a) /\ Payable(wallet, act[a].pay)
      BY <1>0, <2>2, <3>1, ChainGrows, Zenon
    <3>3. x \notin landed
      BY <3>1, <3>2, NotTwice
    <3>4. x[1] = "demo" <=> a \in Visitors
      BY <3>1, PayerFacts DEF Mine
    <3>5. /\ Cardinality(ByDemo) \in Nat
          /\ Cardinality(ByDemo') =
                IF x[1] = "demo" THEN Cardinality(ByDemo) + 1 ELSE Cardinality(ByDemo)
      BY <1>0, <3>2, <3>3, ByDemoGrows
    <3> QED
      BY <2>2, <3>4, <3>5 DEF Gain
  <2> QED
    BY <2>1, <2>2
<1>5. Cardinality(ByDemo') = spent' + unseen' + Cardinality(Owing')
  BY <1>0, <1>1, <1>2, <1>3, <1>4
<1> QED
  BY <1>5, MoneyIs

LEMMA StepKeeps ==
    ASSUME CInv, NEW a \in Actors, StepOf(a)
    PROVE  CInv'
<1>1. Typed
  BY DEF CInv
<1> QED
  BY <1>1, StepTyped, StepTold, StepOnePays, StepNonces, StepOnce, StepMoney DEF CInv

\* A payment in limbo lands: not for the second time.
LEMMA LandsKeeps ==
    ASSUME CInv, NEW x \in limbo, Lands(x)
    PROVE  CInv'
<1>0. Typed /\ IsTransfer(x)
  BY DEF CInv, Typed
<1>1. /\ Payable(wallet, x[2])
      /\ wallet' = Debited(wallet, x[2])
      /\ landed' = landed \cup {x}
      /\ limbo' = limbo \ {x}
      /\ unseen' = (IF x[1] = "demo" THEN unseen + 1 ELSE unseen)
      /\ UNCHANGED <<mode, act, spent, lock, hour>>
  BY DEF Lands, demoVars
<1>2. PICK w, p, d : w = wallet /\ p = x[2] /\ d = wallet'
  OBVIOUS
<1>3. {"address", "coin", "gas"} \subseteq DOMAIN w /\ w.gas \in Int
      /\ Payable(w, p) /\ d = Debited(w, p)
  BY <1>0, <1>1, <1>2, Zenon DEF Typed
<1>4. /\ {"address", "coin", "gas"} \subseteq DOMAIN d
      /\ d.gas \in Int /\ d.gas <= w.gas
      /\ \/ p.path = "gasless"
         \/ p.path = "coin-object" /\ p.gas = w.gas /\ d.gas < w.gas
  BY <1>3, DebitedGas
<1>5. x \notin landed
  <2>1. CASE p.path = "gasless"
    BY <1>2, <2>1 DEF CInv, ExecutesOnce
  <2>2. CASE p.path = "coin-object" /\ p.gas = w.gas
    <3>1. x \in landed => p.gas > w.gas
      BY <1>2, <2>2 DEF CInv, ExecutesOnce
    <3> QED
      BY <1>3, <2>2, <3>1
  <2> QED
    BY <1>4, <2>1, <2>2
<1>6. Typed'
  <2>1. IsFiniteSet(landed') /\ IsFiniteSet(limbo')
    <3>1. PICK s, t : s = landed /\ t = limbo
      OBVIOUS
    <3>2. IsFiniteSet(s) /\ IsFiniteSet(t)
      BY <1>0, <3>1, Zenon DEF Typed
    <3>3. IsFiniteSet(s \cup {x}) /\ IsFiniteSet(t \ {x})
      BY <3>2, FS_AddElement, FS_RemoveElement
    <3> QED
      BY <1>1, <3>1, <3>3, Zenon
  <2>2. \A y \in landed' \cup limbo' : IsTransfer(y)
    <3>1. \A y \in landed \cup limbo : IsTransfer(y)
      BY <1>0 DEF Typed
    <3> QED
      BY <1>1, <3>1, Zenon
  <2>3. unseen' \in Nat
    BY <1>0, <1>1 DEF Typed
  <2>4. {"address", "coin", "gas"} \subseteq DOMAIN wallet' /\ wallet'.gas \in Int
    BY <1>2, <1>4, Zenon
  <2> QED
    BY <1>0, <1>1, <2>1, <2>2, <2>3, <2>4, Zenon DEF Typed
<1>7. ASSUME NEW b \in Actors PROVE Told(b)'
  <2>1. Told(b) /\ landed \subseteq landed'
    BY <1>1 DEF CInv
  <2>2. /\ ReceiptSettled(act[b].reply.receipt)' = ReceiptSettled(act[b].reply.receipt)
        /\ SettlementSpan(act[b].reply)' = SettlementSpan(act[b].reply)
        /\ InFlight(b)' = InFlight(b)
        /\ Mine(b)' = Mine(b)
    BY <1>1, Zenon DEF ReceiptSettled, SettlementSpan, InFlight, Mine
  <2> QED
    BY <1>1, <2>1, <2>2 DEF Told
<1>8. OnePays'
  BY <1>1, Zenon DEF CInv, OnePays, Paying
<1>9. NoncesFresh'
  <2>1. landed' \cup limbo' = landed \cup limbo
    BY <1>1
  <2> QED
    BY <1>1, <2>1, Zenon DEF CInv, NoncesFresh, InFlight
<1>10. ExecutesOnce'
  <2>1. x[2].path = "gasless" \/ x[2].gas > wallet'.gas
    BY <1>2, <1>3, <1>4
  <2>2. \A y \in landed : y[2].path = "gasless" \/ y[2].gas > wallet'.gas
    <3>1. \A y \in landed : y[2].gas \in Int /\ (y[2].path = "gasless" \/ y[2].gas > wallet.gas)
      BY <1>0 DEF CInv, ExecutesOnce, Typed, IsTransfer, IsPayment
    <3> QED
      BY <1>2, <1>3, <1>4, <3>1
  <2>3. \A y \in limbo' : y[2].path = "gasless" => y \notin landed'
    BY <1>1 DEF CInv, ExecutesOnce
  <2> QED
    BY <1>1, <2>1, <2>2, <2>3, Zenon DEF ExecutesOnce
<1>11. SpentIsMoney'
  <2>1. Cardinality(ByDemo) = spent + unseen + Cardinality(Owing)
    BY MoneyIs DEF CInv
  <2>2. Owing' = Owing
    BY <1>1 DEF Owing, Settled
  <2>3. Cardinality(Owing) \in Nat
    <3>1. PICK S : S = Owing
      OBVIOUS
    <3>2. S \in SUBSET Visitors /\ IsFiniteSet(Visitors)
      BY <3>1, ConsoleAssumption DEF Owing
    <3>3. IsFiniteSet(S)
      BY <3>2, FS_Subset
    <3> QED
      BY <3>1, <3>3, FS_CardinalityType
  <2>4. Cardinality(ByDemo') =
          IF x[1] = "demo" THEN Cardinality(ByDemo) + 1 ELSE Cardinality(ByDemo)
    BY <1>0, <1>1, <1>5, ByDemoGrows
  <2>5. Cardinality(ByDemo') = spent' + unseen' + Cardinality(Owing')
    BY <1>0, <1>1, <2>1, <2>2, <2>3, <2>4 DEF Typed
  <2> QED
    BY <2>5, MoneyIs
<1> QED
  BY <1>6, <1>7, <1>8, <1>9, <1>10, <1>11 DEF CInv

\* Nothing but the limbo or the clock changes.
LEMMA QuietKeeps ==
    ASSUME CInv, limbo' \subseteq limbo, hour' \in 0..MaxHour,
           UNCHANGED <<mode, wallet, landed, act, spent, lock, unseen>>
    PROVE  CInv'
<1>0. Typed
  BY DEF CInv
<1>1. IsFiniteSet(limbo')
  <2>1. PICK s, t : s = limbo /\ t = limbo'
    OBVIOUS
  <2>2. IsFiniteSet(s) /\ t \in SUBSET s
    BY <1>0, <2>1 DEF Typed
  <2> QED
    BY <2>1, <2>2, FS_Subset
<1>2. Typed'
  <2>1. \A x \in landed' \cup limbo' : IsTransfer(x)
    BY <1>0, Zenon DEF Typed
  <2> QED
    BY <1>0, <1>1, <2>1, Zenon DEF Typed
<1>3. ASSUME NEW b \in Actors PROVE Told(b)'
  <2>1. Told(b)
    BY DEF CInv
  <2>2. /\ ReceiptSettled(act[b].reply.receipt)' = ReceiptSettled(act[b].reply.receipt)
        /\ SettlementSpan(act[b].reply)' = SettlementSpan(act[b].reply)
        /\ InFlight(b)' = InFlight(b)
        /\ Mine(b)' = Mine(b)
    BY Zenon DEF ReceiptSettled, SettlementSpan, InFlight, Mine
  <2> QED
    BY <2>1, <2>2 DEF Told
<1>4. OnePays'
  BY Zenon DEF CInv, OnePays, Paying
<1>5. NoncesFresh'
  BY Zenon DEF CInv, NoncesFresh, InFlight
<1>6. ExecutesOnce'
  BY Zenon DEF CInv, ExecutesOnce
<1>7. SpentIsMoney'
  BY Zenon DEF CInv, SpentIsMoney, ByDemo
<1> QED
  BY <1>2, <1>3, <1>4, <1>5, <1>6, <1>7 DEF CInv

-----------------------------------------------------------------------------
(* Every operation is such a step *)

LEMMA QuietFacts ==
    /\ IsExchange(Quiet)
    /\ Quiet.pc = "idle" /\ Quiet.reply = NoAttempt /\ NoAttempt.session = "no"
    /\ Quiet.pay = NoPayment /\ NoPayment.path = "none" /\ NoPayment.nonce = 0
  BY ConsoleAssumption DEF Quiet, IsExchange, NoAttempt, NoPayment, IsPayment

\* The exchange ends; nobody learns of a payment that executed with it.
LEMMA ReturnStep ==
    ASSUME CInv, NEW a \in Actors, Return(a), UNCHANGED <<mode, hour>>,
           UNCHANGED chainVars \/ (InFlight(a) /\ (Executes(a) \/ MayExecute(a))),
           spent' = spent \/ (a \in Visitors /\ Paying(a) /\ spent' = spent + 1),
           unseen' \in Nat,
           spent' + unseen' = spent + unseen + Owed(a) + Gain(a)
    PROVE  StepOf(a)
<1>0. DOMAIN act = Actors /\ spent \in Nat
  BY DEF CInv, Typed
<1>1. /\ act' = [act EXCEPT ![a] = Quiet]
      /\ lock' = IF lock = a THEN Nobody ELSE lock
  BY DEF Return
<1>2. DOMAIN act' = Actors /\ act'[a] = Quiet /\ \A b \in Actors : b # a => act'[b] = act[b]
  BY <1>0, <1>1
<1>3. IsExchange(act'[a]) /\ act'[a].pay.path # "gasless"
  BY <1>2, QuietFacts
<1>4. act'[a].pc = "idle" /\ act'[a].pc # "entry" /\ act'[a].reply.session = "no"
  BY <1>2, QuietFacts
<1>5. Told(a)' /\ ~InFlight(a)' /\ ~Paying(a)'
  BY <1>4 DEF Told, Paying, InFlight
<1>6. Owed(a)' = 0
  BY <1>4 DEF Owed, Settled
<1>7. LockStep(a)
  BY <1>1, <1>5, Zenon DEF LockStep
<1>8. spent' + unseen' + Owed(a)' = spent + unseen + Owed(a) + Gain(a)
  BY <1>0, <1>6
<1> QED
  BY <1>2, <1>3, <1>4, <1>5, <1>7, <1>8, Zenon DEF StepOf

\* ... or nothing happened with it.
LEMMA ReturnsStep ==
    ASSUME CInv, NEW a \in Actors, Return(a), act[a].pc # "answer" \/ a = Cli,
           UNCHANGED <<mode, chainVars, spent, hour, unseen>>
    PROVE  StepOf(a)
<1>1. Owed(a) = 0 /\ Gain(a) = 0
  BY PayerFacts DEF Owed, Settled, Gain, chainVars
<1>2. spent \in Nat /\ unseen \in Nat
  BY DEF CInv, Typed
<1> QED
  BY <1>1, <1>2, ReturnStep

\* An exchange goes on, with nothing signed yet.
LEMMA EarlyStep ==
    ASSUME CInv, NEW a \in Actors, NEW e, act' = [act EXCEPT ![a] = e], IsExchange(e),
           e.pc \in {"first", "peek", "read", "clock", "entry", "lock", "probe", "build"},
           e.reply.session = "no", act[a].pc # "answer",
           \/ e.pay = act[a].pay
           \/ e.pay.path # "gasless",
           e.pc = "entry" => e.hour = hour,
           \/ lock' = lock /\ (a \in Visitors /\ e.pc \in {"probe", "build"} => act[a].pc = "probe")
           \/ lock = Nobody /\ lock' = a /\ a \in Visitors /\ spent < MAX_PLAYS,
           UNCHANGED <<mode, chainVars, spent, hour, unseen>>
    PROVE  StepOf(a)
<1>0. DOMAIN act = Actors /\ spent \in Nat /\ unseen \in Nat
  BY DEF CInv, Typed
<1>1. DOMAIN act' = Actors /\ act'[a] = e /\ \A b \in Actors : b # a => act'[b] = act[b]
  BY <1>0
<1>2. Told(a)' /\ ~InFlight(a)'
  BY <1>1 DEF Told, InFlight
<1>4. LockStep(a)
  BY <1>1 DEF LockStep, Paying
<1>5. Owed(a) = 0 /\ Owed(a)' = 0 /\ Gain(a) = 0
  BY <1>1 DEF Owed, Settled, Gain, chainVars
<1>6. spent' + unseen' + Owed(a)' = spent + unseen + Owed(a) + Gain(a) /\ unseen' \in Nat
  BY <1>0, <1>5
<1>7. IsExchange(act'[a]) /\ UNCHANGED <<mode, hour>> /\ UNCHANGED chainVars
  BY <1>1, Zenon
<1>8. \/ act'[a].pay = act[a].pay /\ (InFlight(a)' => InFlight(a))
      \/ act'[a].pay.path # "gasless"
  BY <1>1, <1>2
<1> QED
  BY <1>1, <1>2, <1>4, <1>6, <1>7, <1>8, Zenon DEF StepOf

\* A payment at the gateway is answered, or the client sees only an error.
LEMMA AnswerStep ==
    ASSUME CInv, NEW a \in Actors, NEW r, NEW s, Answer(a, r, s), InFlight(a),
           UNCHANGED <<mode, spent, hour>>,
           UNCHANGED chainVars \/ (InFlight(a) /\ (Executes(a) \/ MayExecute(a))),
           r.receipt = "settled" <=> landed' # landed,
           SettlementSpan(r) = "skip" => s = "no" \/ r.timing = {},
           mode = "sui" /\ r.session = "yes" => Mine(a) \in landed',
           r.by = "gateway" => s = "no" /\ UNCHANGED chainVars
    PROVE  StepOf(a)
<1>0. DOMAIN act = Actors /\ spent \in Nat /\ unseen \in Nat /\ IsExchange(act[a])
  BY DEF CInv, Typed
<1>1. act[a].pc \in {"send", "upstream"} /\ Owed(a) = 0
  BY DEF InFlight, Owed, Settled
<1>2. landed' # landed => landed' = landed \cup {Mine(a)}
  BY DEF chainVars, Executes, MayExecute
<1>3. CASE Return(a) /\ unseen' = (IF a \in Visitors /\ landed' # landed THEN unseen + 1 ELSE unseen)
  <2>1. unseen' = unseen + Gain(a) /\ Gain(a) \in Nat
    BY <1>0, <1>3 DEF Gain
  <2>2. unseen' \in Nat /\ spent' + unseen' = spent + unseen + Owed(a) + Gain(a)
    BY <1>0, <1>1, <2>1
  <2> QED
    BY <1>3, <2>2, ReturnStep
<1>4. CASE /\ act' = [act EXCEPT ![a].pc = "answer", ![a].reply = r, ![a].sent = s]
           /\ UNCHANGED <<lock, unseen>>
  <2>1. /\ DOMAIN act' = Actors /\ \A b \in Actors : b # a => act'[b] = act[b]
        /\ DOMAIN act'[a] = DOMAIN act[a]
        /\ act'[a].pc = "answer" /\ act'[a].reply = r /\ act'[a].sent = s
        /\ act'[a].pay = act[a].pay /\ act'[a].hour = act[a].hour
    BY <1>0, <1>4 DEF IsExchange
  <2>2. IsExchange(act'[a])
    BY <1>0, <2>1 DEF IsExchange
  <2>3. ~InFlight(a)' /\ Mine(a)' = Mine(a) /\ act'[a].pc # "entry"
    BY <2>1 DEF Mine, InFlight
  <2>4. r.receipt = "settled" => Mine(a) \in landed'
    BY <1>2
  <2>6. ASSUME r.by = "gateway", act[a].pay.path = "gasless"
        PROVE  Mine(a) \notin landed' \cup limbo'
    <3>1. landed' = landed /\ limbo' = limbo
      BY <2>6 DEF chainVars
    <3>2. Mine(a)[2] = act[a].pay
      BY DEF Mine
    <3> QED
      BY <2>6, <3>1, <3>2 DEF CInv, NoncesFresh
  <2>5. Told(a)'
    <3>1. /\ ReceiptSettled(act[a].reply.receipt)' => r.receipt = "settled"
          /\ SettlementSpan(act[a].reply)' = SettlementSpan(r)
          /\ InFlight(a)' = FALSE
      BY <2>1 DEF ReceiptSettled, SettlementSpan, InFlight
    <3> QED
      BY <2>1, <2>3, <2>4, <2>6, <3>1 DEF Told
  <2>7. LockStep(a)
    BY <1>1, <1>4 DEF LockStep, Paying
  <2>8. Owed(a)' = Gain(a) /\ Gain(a) \in Nat
    BY <2>1 DEF Owed, Settled, Gain
  <2>9. spent' + unseen' + Owed(a)' = spent + unseen + Owed(a) + Gain(a) /\ unseen' \in Nat
    BY <1>0, <1>1, <1>4, <2>8
  <2>10. \/ UNCHANGED chainVars
         \/ InFlight(a) /\ ~InFlight(a)' /\ (Executes(a) \/ MayExecute(a))
    BY <2>3, Zenon
  <2> QED
    BY <2>1, <2>2, <2>3, <2>5, <2>7, <2>9, <2>10, Zenon DEF StepOf
<1> QED
  BY <1>3, <1>4, Zenon DEF Answer

LEMMA EdgeSteps ==
    ASSUME CInv, NEW a \in Actors,
           \/ Fails(a)
           \/ CannotBuild(a)
           \/ a = Cli /\ Exit
    PROVE  StepOf(a)
<1>1. /\ Return(a)
      /\ act[a].pc # "answer" \/ a = Cli
      /\ UNCHANGED <<mode, chainVars, spent, hour, unseen>>
  BY DEF Fails, CannotBuild, Exit, demoVars
<1> QED
  BY <1>1, ReturnsStep

LEMMA ClickStep ==
    ASSUME CInv, NEW v \in Visitors, NEW t, Click(v, t)
    PROVE  StepOf(v)
<1>1. PICK e : e = [Quiet EXCEPT !.pc = "first", !.target = t]
  OBVIOUS
<1>2. /\ act' = [act EXCEPT ![v] = e] /\ act[v].pc # "answer" /\ lock' = lock
      /\ UNCHANGED <<mode, chainVars, spent, hour, unseen>>
  BY <1>1 DEF Click, demoVars
<1>3. IsExchange(e) /\ e.pc = "first" /\ e.reply.session = "no" /\ e.pay.path # "gasless"
  BY <1>1, QuietFacts DEF IsExchange
<1> QED
  BY <1>2, <1>3, PayerFacts, EarlyStep

LEMMA RunStep ==
    ASSUME CInv, NEW t, Run(t)
    PROVE  StepOf(Cli)
<1>1. PICK e : e = [Quiet EXCEPT !.pc = "first", !.target = t]
  OBVIOUS
<1>2. /\ act' = [act EXCEPT ![Cli] = e] /\ act[Cli].pc # "answer" /\ lock' = lock
      /\ UNCHANGED <<mode, chainVars, spent, hour, unseen>>
  BY <1>1 DEF Run, demoVars
<1>3. IsExchange(e) /\ e.pc = "first" /\ e.reply.session = "no" /\ e.pay.path # "gasless"
  BY <1>1, QuietFacts DEF IsExchange
<1> QED
  BY <1>2, <1>3, PayerFacts, EarlyStep

LEMMA FirstAnsweredStep ==
    ASSUME CInv, NEW a \in Actors, FirstAnswered(a)
    PROVE  StepOf(a)
<1>0. IsExchange(act[a]) /\ DOMAIN act = Actors
  BY DEF CInv, Typed
<1>1. PICK r : /\ r \in FirstAnswers(a) \cup {NoAttempt}
               /\ act' = [act EXCEPT ![a].reply = r,
                                     ![a].pc = IF a = Cli THEN "read" ELSE "peek"]
  <2>1. PICK q \in FirstAnswers(a) :
           act' = [act EXCEPT ![a].reply = IF q.status = 402 THEN q ELSE NoAttempt,
                              ![a].pc = IF a = Cli THEN "read" ELSE "peek"]
    BY DEF FirstAnswered
  <2>2. PICK r : r = IF q.status = 402 THEN q ELSE NoAttempt
    OBVIOUS
  <2>3. r \in FirstAnswers(a) \cup {NoAttempt}
    BY <2>2
  <2>4. act' = [act EXCEPT ![a].reply = r, ![a].pc = IF a = Cli THEN "read" ELSE "peek"]
    BY <2>1, <2>2, Zenon
  <2> QED
    BY <2>3, <2>4
<1>2. PICK e : e = [act[a] EXCEPT !.reply = r, !.pc = IF a = Cli THEN "read" ELSE "peek"]
  OBVIOUS
<1>3. act' = [act EXCEPT ![a] = e]
  BY <1>1, <1>2
<1>4. IsExchange(e) /\ e.pc \in {"peek", "read"} /\ e.reply = r /\ e.pay = act[a].pay
  BY <1>0, <1>2 DEF IsExchange
<1>5. /\ act[a].pc # "answer" /\ lock' = lock
      /\ UNCHANGED <<mode, chainVars, spent, hour, unseen>>
  BY DEF FirstAnswered, demoVars
<1>6. r.session = "no"
  BY <1>1 DEF FirstAnswers, PassedThrough, ImmediateDenial, EnvoyReply, NoAttempt
<1> QED
  BY <1>3, <1>4, <1>5, <1>6, EarlyStep

LEMMA PeekStep ==
    ASSUME CInv, NEW v \in Visitors, Peek(v)
    PROVE  StepOf(v)
<1>0. IsExchange(act[v]) /\ v \in Actors
  BY PayerFacts DEF CInv, Typed
<1>1. act[v].pc = "peek" /\ UNCHANGED <<mode, chainVars, spent, hour, unseen>>
  BY DEF Peek, demoVars
<1>2. CASE Return(v)
  BY <1>0, <1>1, <1>2, ReturnsStep
<1>3. CASE /\ act' = [act EXCEPT ![v].pc = "clock", ![v].reply = NoAttempt]
           /\ UNCHANGED lock
  <2>1. PICK e : e = [act[v] EXCEPT !.pc = "clock", !.reply = NoAttempt]
    OBVIOUS
  <2>2. act' = [act EXCEPT ![v] = e]
    BY <1>3, <2>1
  <2>3. IsExchange(e) /\ e.pc = "clock" /\ e.reply.session = "no" /\ e.pay = act[v].pay
    BY <1>0, <2>1, QuietFacts DEF IsExchange
  <2> QED
    BY <1>0, <1>1, <1>3, <2>2, <2>3, EarlyStep
<1> QED
  BY <1>2, <1>3 DEF Peek

LEMMA ReadStep ==
    ASSUME CInv, Read
    PROVE  StepOf(Cli)
<1>0. IsExchange(act[Cli]) /\ Cli \in Actors /\ Cli \notin Visitors
  BY PayerFacts DEF CInv, Typed
<1>1. act[Cli].pc = "read" /\ UNCHANGED <<mode, chainVars, spent, hour, unseen>>
  BY DEF Read, demoVars
<1>2. CASE Return(Cli)
  BY <1>0, <1>1, <1>2, ReturnsStep
<1>3. CASE \E paths \in PathLists :
             /\ act' = [act EXCEPT ![Cli].pc = "probe", ![Cli].paths = paths,
                                   ![Cli].reply = NoAttempt]
             /\ UNCHANGED lock
  <2>1. PICK paths \in PathLists :
           /\ act' = [act EXCEPT ![Cli].pc = "probe", ![Cli].paths = paths,
                                 ![Cli].reply = NoAttempt]
           /\ UNCHANGED lock
    BY <1>3
  <2>2. PICK e : e = [act[Cli] EXCEPT !.pc = "probe", !.paths = paths, !.reply = NoAttempt]
    OBVIOUS
  <2>3. act' = [act EXCEPT ![Cli] = e]
    BY <2>1, <2>2
  <2>4. IsExchange(e) /\ e.pc = "probe" /\ e.reply.session = "no" /\ e.pay = act[Cli].pay
    BY <1>0, <2>2, QuietFacts DEF IsExchange
  <2> QED
    BY <1>0, <1>1, <2>1, <2>3, <2>4, EarlyStep
<1> QED
  BY <1>2, <1>3 DEF Read

\* The spend controls' steps.
LEMMA ControlSteps ==
    ASSUME CInv, NEW v \in Visitors, ReadClock(v) \/ Admit(v) \/ Limited(v) \/ TakeLock(v)
    PROVE  StepOf(v)
<1>0. /\ IsExchange(act[v]) /\ v \in Actors /\ hour \in 0..MaxHour /\ MAX_PLAYS \in Nat
      /\ spent \in Nat /\ Told(v)
  BY PayerFacts, ConsoleAssumption DEF CInv, Typed
<1>1. /\ act[v].pc \in {"clock", "entry", "lock"}
      /\ UNCHANGED <<mode, chainVars, spent, hour, unseen>>
  BY DEF ReadClock, Admit, Limited, TakeLock, demoVars
<1>2. act[v].reply.session = "no"
  BY <1>0, <1>1 DEF Told
<1>3. CASE Return(v)
  BY <1>0, <1>1, <1>3, ReturnsStep
<1>4. CASE ReadClock(v)
  <2>1. PICK e : e = [act[v] EXCEPT !.pc = "entry", !.hour = hour]
    OBVIOUS
  <2>2. act' = [act EXCEPT ![v] = e] /\ lock' = lock
    BY <1>4, <2>1 DEF ReadClock
  <2>3. IsExchange(e) /\ e.pc = "entry" /\ e.hour = hour
        /\ e.reply = act[v].reply /\ e.pay = act[v].pay
    BY <1>0, <2>1 DEF IsExchange
  <2> QED
    BY <1>0, <1>1, <1>2, <2>2, <2>3, EarlyStep
<1>5. CASE Admit(v)
  <2>1. PICK e : e = [act[v] EXCEPT !.pc = "lock"]
    OBVIOUS
  <2>2. act' = [act EXCEPT ![v] = e] /\ lock' = lock
    BY <1>5, <2>1 DEF Admit, Go
  <2>3. IsExchange(e) /\ e.pc = "lock" /\ e.reply = act[v].reply /\ e.pay = act[v].pay
    BY <1>0, <2>1 DEF IsExchange
  <2> QED
    BY <1>0, <1>1, <1>2, <2>2, <2>3, EarlyStep
<1>6. CASE TakeLock(v) /\ ~(spent >= MAX_PLAYS)
  <2>1. PICK e : e = [act[v] EXCEPT !.pc = "probe"]
    OBVIOUS
  <2>2. act' = [act EXCEPT ![v] = e] /\ lock = Nobody /\ lock' = v
    BY <1>6, <2>1 DEF TakeLock, Go
  <2>3. IsExchange(e) /\ e.pc = "probe" /\ e.reply = act[v].reply /\ e.pay = act[v].pay
    BY <1>0, <2>1 DEF IsExchange
  <2>4. spent < MAX_PLAYS
    BY <1>0, <1>6
  <2> QED
    BY <1>0, <1>1, <1>2, <2>2, <2>3, <2>4, EarlyStep
<1> QED
  BY <1>3, <1>4, <1>5, <1>6 DEF Limited, TakeLock

LEMMA ProbeStep ==
    ASSUME CInv, NEW a \in Actors, Probe(a)
    PROVE  StepOf(a)
<1>0. IsExchange(act[a]) /\ Told(a)
  BY DEF CInv, Typed
<1>1. act[a].pc = "probe" /\ UNCHANGED <<mode, chainVars, spent, hour, unseen>>
  BY DEF Probe, demoVars
<1>2. CASE Return(a)
  BY <1>1, <1>2, ReturnsStep
<1>3. CASE \E path : /\ act' = [act EXCEPT ![a].pc = "build", ![a].paths = <<>>, ![a].path = path]
                     /\ UNCHANGED lock
  <2>1. PICK path : /\ act' = [act EXCEPT ![a].pc = "build", ![a].paths = <<>>, ![a].path = path]
                    /\ UNCHANGED lock
    BY <1>3
  <2>2. PICK e : e = [act[a] EXCEPT !.pc = "build", !.paths = <<>>, !.path = path]
    OBVIOUS
  <2>3. act' = [act EXCEPT ![a] = e]
    BY <2>1, <2>2
  <2>4. IsExchange(e) /\ e.pc = "build" /\ e.reply = act[a].reply /\ e.pay = act[a].pay
    BY <1>0, <2>2 DEF IsExchange
  <2>5. e.reply.session = "no"
    BY <1>0, <1>1, <2>4 DEF Told
  <2> QED
    BY <1>1, <2>1, <2>3, <2>4, <2>5, EarlyStep
<1>4. \/ Return(a)
      \/ \E path : /\ act' = [act EXCEPT ![a].pc = "build", ![a].paths = <<>>, ![a].path = path]
                   /\ UNCHANGED lock
  BY Zenon DEF Probe
<1> QED
  BY <1>2, <1>3, <1>4

\* There is always a nonce nobody has.
LEMMA NonceFacts ==
    ASSUME Typed, NEW amount
    PROVE  Nonce(Used, amount) \in Nat \ {0} /\ Nonce(Used, amount) \notin Used
<1>1. PICK K, N, P : /\ K = landed \cup limbo
                     /\ N = {x[2].nonce : x \in landed \cup limbo}
                     /\ P = {act[b].pay.nonce : b \in Actors}
  OBVIOUS
<1>2. IsFiniteSet(K)
  <2>1. PICK s, t : s = landed /\ t = limbo
    OBVIOUS
  <2>2. IsFiniteSet(s) /\ IsFiniteSet(t)
    BY <2>1, Zenon DEF Typed
  <2>3. IsFiniteSet(s \cup t)
    BY <2>2, FS_Union
  <2> QED
    BY <1>1, <2>1, <2>3, Zenon
<1>3. IsFiniteSet(N)
  <2>1. PICK f : f = [x \in K |-> x[2].nonce]
    OBVIOUS
  <2>2. f \in Surjection(K, N)
    BY <1>1, <2>1 DEF Surjection
  <2> QED
    BY <1>2, <2>2, FS_Surjection
<1>4. IsFiniteSet(P)
  <2>1. IsFiniteSet(Visitors \cup {Cli})
    BY ConsoleAssumption, FS_AddElement
  <2>2. PICK f : f = [b \in Actors |-> act[b].pay.nonce]
    OBVIOUS
  <2>3. f \in Surjection(Actors, P)
    BY <1>1, <2>2 DEF Surjection
  <2> QED
    BY <2>1, <2>3, FS_Surjection DEF Actors
<1>5. PICK U : U = N \cup P
  OBVIOUS
<1>6. IsFiniteSet(U)
  BY <1>3, <1>4, <1>5, FS_Union
<1>7. PICK n \in Nat : n = Cardinality(U)
  BY <1>6, FS_CardinalityType
<1>8. PICK I : I = 1..(n + 1)
  OBVIOUS
<1>9. Cardinality(I) = n + 1
  BY <1>8, FS_Interval
<1>10. ~(I \subseteq U)
  <2> SUFFICES ASSUME I \in SUBSET U PROVE FALSE
    OBVIOUS
  <2>1. Cardinality(I) <= Cardinality(U)
    BY <1>6, FS_Subset
  <2> QED
    BY <1>7, <1>9, <2>1
<1>11. (CHOOSE k \in I \ U : TRUE) \in I \ U
  BY <1>10
<1>12. Used = U
  BY <1>1, <1>5 DEF Used
<1>13. Nonce(Used, amount) = CHOOSE k \in I \ U : TRUE
  BY <1>7, <1>8, <1>12, Zenon DEF Nonce
<1>14. I \subseteq Nat \ {0}
  BY <1>8
<1> QED
  BY <1>11, <1>12, <1>13, <1>14

\* A signed payment is new, or pinned to objects.
LEMMA SignStep ==
    ASSUME CInv, NEW a \in Actors, NEW p, Sign(a, p), IsPayment(p), act[a].pc = "build",
           \/ p.path = "gasless" /\ p.nonce \notin Used
           \/ p.path = "coin-object",
           UNCHANGED <<mode, chainVars, spent, hour, unseen>>
    PROVE  StepOf(a)
<1>0. /\ DOMAIN act = Actors /\ spent \in Nat /\ unseen \in Nat
      /\ IsExchange(act[a]) /\ act[a].reply.session = "no"
  BY DEF CInv, Typed, Told
<1>1. CASE Return(a)
  BY <1>1, ReturnsStep
<1>2. CASE /\ act' = [act EXCEPT ![a].pay = p, ![a].pc = "send"]
           /\ UNCHANGED lock
  <2>1. /\ DOMAIN act' = Actors /\ \A b \in Actors : b # a => act'[b] = act[b]
        /\ DOMAIN act'[a] = DOMAIN act[a] /\ act'[a].hour = act[a].hour
        /\ act'[a].pc = "send" /\ act'[a].pay = p /\ act'[a].reply = act[a].reply
    BY <1>0, <1>2 DEF IsExchange
  <2>2. IsExchange(act'[a])
    BY <1>0, <2>1 DEF IsExchange
  <2>3. Told(a)'
    BY <1>0, <2>1 DEF Told, InFlight
  <2>4. LockStep(a)
    BY <1>2 DEF LockStep, Paying
  <2>5. Owed(a) = 0 /\ Owed(a)' = 0 /\ Gain(a) = 0
    BY <2>1 DEF Owed, Settled, Gain, chainVars
  <2>6. spent' + unseen' + Owed(a)' = spent + unseen + Owed(a) + Gain(a) /\ unseen' \in Nat
    BY <1>0, <2>5
  <2>7. act'[a].pay.path # "gasless" \/ act'[a].pay.nonce \notin Used
    BY <2>1
  <2> QED
    BY <2>1, <2>2, <2>3, <2>4, <2>6, <2>7, Zenon DEF StepOf
<1> QED
  BY <1>1, <1>2 DEF Sign

LEMMA BuildSteps ==
    ASSUME CInv, NEW a \in Actors, BuildGasless(a) \/ BuildCoinObject(a)
    PROVE  StepOf(a)
<1>0. Typed /\ wallet.gas \in Int
  BY DEF CInv, Typed
<1>1. act[a].pc = "build" /\ UNCHANGED <<mode, chainVars, spent, hour, unseen>>
  BY DEF BuildGasless, BuildCoinObject, demoVars
<1>2. CASE BuildGasless(a)
  <2>1. PICK amount, n, p : /\ amount = Price(a) /\ n = Nonce(Used, amount)
                            /\ p = GaslessPayment(amount, n)
    OBVIOUS
  <2>2. n \in Nat \ {0} /\ n \notin Used
    BY <1>0, <2>1, NonceFacts
  <2>3. Sign(a, p)
    BY <1>2, <2>1, Zenon DEF BuildGasless
  <2>4. p.path = "gasless" /\ p.nonce = n /\ p.gas = 0
    BY <2>1 DEF GaslessPayment, NoPayment
  <2>5. IsPayment(p)
    BY <2>2, <2>4 DEF IsPayment
  <2> QED
    BY <1>1, <2>2, <2>3, <2>4, <2>5, SignStep
<1>3. CASE BuildCoinObject(a)
  <2>1. PICK p \in CoinPayments(wallet, Price(a)) : Sign(a, p)
    BY <1>3 DEF BuildCoinObject
  <2>2. p.path = "coin-object" /\ p.nonce = 0 /\ p.gas = wallet.gas
    BY DEF CoinPayments
  <2>3. IsPayment(p)
    BY <1>0, <2>2 DEF IsPayment
  <2> QED
    BY <1>1, <2>1, <2>2, <2>3, SignStep
<1> QED
  BY <1>2, <1>3

LEMMA RefusedStep ==
    ASSUME CInv, NEW a \in Actors, Refused(a)
    PROVE  StepOf(a)
<1>1. /\ InFlight(a) /\ UNCHANGED chainVars /\ landed' = landed
      /\ UNCHANGED <<mode, spent, hour>>
  BY DEF Refused, InFlight, demoVars, chainVars
<1>2. PICK r : /\ Answer(a, r, "no")
               /\ r \in {ImmediateDenial("failed", "unknown"),
                         BreakerDenial(act[a].target = "grpc")}
  BY DEF Refused
<1>3. r.receipt # "settled" /\ r.session # "yes"
  BY <1>2 DEF ImmediateDenial, BreakerDenial
<1> QED
  BY <1>1, <1>2, <1>3, AnswerStep

LEMMA VerifiedStep ==
    ASSUME CInv, NEW a \in Actors, Verified(a)
    PROVE  StepOf(a)
<1>0. /\ DOMAIN act = Actors /\ spent \in Nat /\ unseen \in Nat
      /\ IsExchange(act[a]) /\ Told(a)
  BY DEF CInv, Typed
<1>1. /\ act[a].pc = "send"
      /\ act' = [act EXCEPT ![a].pc = "upstream"]
      /\ UNCHANGED <<mode, chainVars, spent, lock, hour, unseen>>
  BY DEF Verified, Go, demoVars
<1>2. /\ DOMAIN act' = Actors /\ \A b \in Actors : b # a => act'[b] = act[b]
      /\ DOMAIN act'[a] = DOMAIN act[a] /\ act'[a].hour = act[a].hour
      /\ act'[a].pc = "upstream" /\ act'[a].pay = act[a].pay /\ act'[a].reply = act[a].reply
  BY <1>0, <1>1 DEF IsExchange
<1>3. IsExchange(act'[a])
  BY <1>0, <1>2 DEF IsExchange
<1>4. act[a].reply.session = "no" /\ act[a].pay.path \in {"gasless", "coin-object"}
  BY <1>0, <1>1 DEF Told, InFlight
<1>5. Told(a)'
  BY <1>0, <1>2, <1>4 DEF Told, InFlight
<1>6. LockStep(a) /\ InFlight(a)
  BY <1>1 DEF LockStep, Paying, InFlight
<1>7. Owed(a) = 0 /\ Owed(a)' = 0 /\ Gain(a) = 0
  BY <1>1, <1>2 DEF Owed, Settled, Gain, chainVars
<1>8. spent' + unseen' + Owed(a)' = spent + unseen + Owed(a) + Gain(a) /\ unseen' \in Nat
  BY <1>0, <1>1, <1>7
<1> QED
  BY <1>1, <1>2, <1>3, <1>5, <1>6, <1>8, Zenon DEF StepOf

LEMMA NotServedStep ==
    ASSUME CInv, NEW a \in Actors, NotServed(a)
    PROVE  StepOf(a)
<1>1. /\ InFlight(a) /\ UNCHANGED chainVars /\ landed' = landed
      /\ UNCHANGED <<mode, spent, hour>>
  BY DEF NotServed, InFlight, demoVars, chainVars
<1>2. PICK s : Answer(a, PassedThrough(s, "unknown"), "no")
  BY DEF NotServed
<1>3. PICK r : r = PassedThrough(s, "unknown")
  OBVIOUS
<1>4. Answer(a, r, "no") /\ r.receipt # "settled" /\ r.session # "yes"
  BY <1>2, <1>3 DEF PassedThrough
<1> QED
  BY <1>1, <1>4, AnswerStep

LEMMA ServedStep ==
    ASSUME CInv, NEW a \in Actors, Served(a)
    PROVE  StepOf(a)
<1>1. /\ InFlight(a) /\ UNCHANGED <<mode, spent, hour>>
      /\ InFlight(a)
  BY PayerFacts DEF Served, InFlight, demoVars
<1>2. PICK s :
        \/ /\ Executes(a)
           /\ \E token \in {"yes", "no"} : Answer(a, AfterSettling(s, "settled", token), "yes")
        \/ /\ MayExecute(a)
           /\ Answer(a, AfterSettling(s, "failed", "no"), "yes")
        \/ /\ mode = "stub"
           /\ UNCHANGED chainVars
           /\ Answer(a, AfterSettling(s, "stub", "yes"), "no")
  BY DEF Served
<1>3. \A receipt, token :
        LET r == AfterSettling(s, receipt, token)
        IN  /\ r.receipt = receipt /\ r.session = token
            /\ SettlementSpan(r) # "skip" /\ r.by # "gateway"
  BY DEF AfterSettling, SettlementSpan
<1>4. CASE /\ Executes(a)
           /\ \E token \in {"yes", "no"} : Answer(a, AfterSettling(s, "settled", token), "yes")
  <2>1. PICK token, r : r = AfterSettling(s, "settled", token) /\ Answer(a, r, "yes")
    BY <1>4
  <2>2. r.receipt = "settled" /\ SettlementSpan(r) # "skip" /\ r.by # "gateway"
    BY <1>3, <2>1
  <2>3. landed' = landed \cup {Mine(a)} /\ Payable(wallet, act[a].pay)
    BY <1>4 DEF Executes
  <2>4. Mine(a) \notin landed
    BY <1>1, <2>3, NotTwice
  <2>5. landed' # landed /\ Mine(a) \in landed'
    BY <2>3, <2>4
  <2> QED
    BY <1>1, <1>4, <2>1, <2>2, <2>5, AnswerStep
<1>5. CASE /\ MayExecute(a)
           /\ Answer(a, AfterSettling(s, "failed", "no"), "yes")
  <2>1. PICK r : r = AfterSettling(s, "failed", "no") /\ Answer(a, r, "yes")
    BY <1>5
  <2>2. /\ r.receipt # "settled" /\ r.session # "yes"
        /\ SettlementSpan(r) # "skip" /\ r.by # "gateway"
    BY <1>3, <2>1
  <2>3. landed' = landed
    BY <1>5 DEF MayExecute
  <2> QED
    BY <1>1, <1>5, <2>1, <2>2, <2>3, AnswerStep
<1>6. CASE /\ mode = "stub"
           /\ UNCHANGED chainVars
           /\ Answer(a, AfterSettling(s, "stub", "yes"), "no")
  <2>1. PICK r : r = AfterSettling(s, "stub", "yes") /\ Answer(a, r, "no")
    BY <1>6
  <2>2. r.receipt # "settled" /\ mode # "sui" /\ landed' = landed
    BY <1>3, <1>6, <2>1 DEF chainVars
  <2> QED
    BY <1>1, <1>6, <2>1, <2>2, AnswerStep
<1> QED
  BY <1>2, <1>4, <1>5, <1>6

\* Envoy answers in the gateway's place.
LEMMA CutSteps ==
    ASSUME CInv, NEW a \in Actors, CutWhileDeciding(a) \/ CutWhileSettling(a)
    PROVE  StepOf(a)
<1>1. InFlight(a) /\ UNCHANGED <<mode, spent, hour>>
  BY DEF CutWhileDeciding, CutWhileSettling, InFlight, demoVars
<1>2. PICK r : r = EnvoyReply
  OBVIOUS
<1>3. r.receipt = "none" /\ r.session = "no" /\ r.timing = {} /\ r.by = "envoy"
  BY <1>2 DEF EnvoyReply
<1>4. PICK s : Answer(a, r, s) /\ (UNCHANGED chainVars \/ MayExecute(a))
  BY <1>2 DEF CutWhileDeciding, CutWhileSettling
<1>5. landed' = landed
  BY <1>4 DEF chainVars, MayExecute
<1> QED
  BY <1>1, <1>3, <1>4, <1>5, AnswerStep

\* The handler counts what it has a receipt for, still under the lock.
LEMMA FinishStep ==
    ASSUME CInv, NEW v \in Visitors, Finish(v)
    PROVE  StepOf(v)
<1>0. v \in Actors /\ spent \in Nat /\ unseen \in Nat
  BY PayerFacts DEF CInv, Typed
<1>1. /\ act[v].pc = "answer" /\ Return(v)
      /\ spent' = (IF ReceiptSettled(act[v].reply.receipt) THEN spent + 1 ELSE spent)
      /\ UNCHANGED <<mode, chainVars, hour, unseen>>
  BY DEF Finish
<1>2. Paying(v) /\ Gain(v) = 0
  BY <1>1 DEF Paying, Gain, chainVars
<1>3. ReceiptSettled(act[v].reply.receipt) <=> Owed(v) = 1
  BY <1>1 DEF ReceiptSettled, Owed, Settled
<1>4. Owed(v) \in {0, 1}
  BY DEF Owed
<1>5. spent' + unseen' = spent + unseen + Owed(v) + Gain(v) /\ unseen' \in Nat
  BY <1>0, <1>1, <1>2, <1>3, <1>4
<1>6. spent' = spent \/ (Paying(v) /\ spent' = spent + 1)
  BY <1>1, <1>2
<1>7. UNCHANGED chainVars /\ UNCHANGED <<mode, hour>>
  BY <1>1
<1> QED
  BY <1>0, <1>1, <1>5, <1>6, <1>7, ReturnStep

\* A payment left at the gateway was not on chain yet.
LEMMA LeavesStep ==
    ASSUME CInv, NEW a \in Actors, Leaves(a)
    PROVE  StepOf(a)
<1>0. spent \in Nat /\ unseen \in Nat /\ Told(a)
  BY DEF CInv, Typed
<1>1. Return(a) /\ UNCHANGED <<mode, hour>> /\ spent' = spent
  BY DEF Leaves, demoVars
<1>2. UNCHANGED chainVars \/ (InFlight(a) /\ MayExecute(a))
  <2>1. CASE UNCHANGED chainVars
    BY <2>1
  <2>2. CASE act[a].pc = "upstream" /\ MayExecute(a)
    BY <2>2 DEF InFlight
  <2> QED
    BY <2>1, <2>2 DEF Leaves
<1>3. landed' = landed
  BY <1>2 DEF chainVars, MayExecute
<1>4. unseen' = unseen + Owed(a) /\ Owed(a) \in Nat /\ Gain(a) = 0
  <2>1. Gain(a) = 0
    BY <1>3 DEF Gain
  <2>2. unseen' = IF a \in Visitors /\ Settled(a) THEN unseen + 1 ELSE unseen
    BY DEF Leaves, Settled
  <2> QED
    BY <1>0, <2>1, <2>2 DEF Owed
<1>5. spent' + unseen' = spent + unseen + Owed(a) + Gain(a) /\ unseen' \in Nat
  BY <1>0, <1>1, <1>4
<1> QED
  BY <1>1, <1>2, <1>5, ReturnStep

-----------------------------------------------------------------------------
(* The invariant *)

LEMMA InitCInv == Init => CInv
<1> SUFFICES ASSUME Init PROVE CInv
  OBVIOUS
<1>1. /\ act = [a \in Actors |-> Quiet] /\ landed = {} /\ limbo = {} /\ wallet = FUNDS
      /\ spent = 0 /\ unseen = 0 /\ lock = Nobody /\ hour \in 0..MaxHour
  BY DEF Init
<1>2. Typed
  <2>1. IsFiniteSet(landed) /\ IsFiniteSet(limbo)
    BY <1>1, FS_EmptySet
  <2> QED
    BY <1>1, <2>1, QuietFacts, ConsoleAssumption DEF Typed
<1>3. ASSUME NEW a \in Actors PROVE Told(a)
  BY <1>1, QuietFacts DEF Told, InFlight
<1>4. OnePays
  BY <1>1, QuietFacts, PayerFacts, ConsoleAssumption DEF OnePays, Paying
<1>5. NoncesFresh
  BY <1>1, QuietFacts DEF NoncesFresh
<1>6. ExecutesOnce
  BY <1>1 DEF ExecutesOnce
<1>7. SpentIsMoney
  <2>1. ByDemo = {} /\ Owing = {}
    BY <1>1, QuietFacts, PayerFacts DEF ByDemo, Owing, Settled
  <2>2. Cardinality(ByDemo) = 0 /\ Cardinality(Owing) = 0
    BY <2>1, FS_EmptySet, Zenon
  <2>3. Cardinality(ByDemo) = spent + unseen + Cardinality(Owing)
    BY <1>1, <2>2
  <2> QED
    BY <2>3, MoneyIs
<1> QED
  BY <1>2, <1>3, <1>4, <1>5, <1>6, <1>7 DEF CInv

LEMMA NextCInv == CInv /\ [Next]_vars => CInv'
<1> SUFFICES ASSUME CInv, [Next]_vars PROVE CInv'
  OBVIOUS
<1>1. CASE \E v \in Visitors, t \in Targets : Click(v, t)
  BY <1>1, ClickStep, StepKeeps, PayerFacts
<1>2. CASE \E t \in CliTargets : Run(t)
  BY <1>2, RunStep, StepKeeps, PayerFacts
<1>3. ASSUME NEW a \in Actors, Pays(a) PROVE CInv'
  BY <1>3, EdgeSteps, ProbeStep, BuildSteps, RefusedStep, VerifiedStep, NotServedStep,
     ServedStep, CutSteps, StepKeeps DEF Pays
<1>4. CASE \E v \in Visitors : SendStep(v)
  <2>1. PICK v \in Visitors : SendStep(v)
    BY <1>4
  <2>2. v \in Actors
    BY PayerFacts
  <2>3. CASE Pays(v)
    BY <1>3, <2>2, <2>3
  <2>4. CASE \/ FirstAnswered(v) \/ Peek(v) \/ ReadClock(v) \/ Admit(v) \/ Limited(v)
            \/ TakeLock(v) \/ Finish(v)
    <3>1. StepOf(v)
      BY <2>2, <2>4, FirstAnsweredStep, PeekStep, ControlSteps, FinishStep
    <3> QED
      BY <2>2, <3>1, StepKeeps
  <2> QED
    BY <2>1, <2>3, <2>4 DEF SendStep
<1>5. CASE CliStep
  <2>1. Cli \in Actors
    BY PayerFacts
  <2>2. CASE Pays(Cli)
    BY <1>3, <2>1, <2>2
  <2>3. CASE FirstAnswered(Cli) \/ Read \/ Exit
    <3>1. StepOf(Cli)
      BY <2>1, <2>3, FirstAnsweredStep, ReadStep, EdgeSteps
    <3> QED
      BY <2>1, <3>1, StepKeeps
  <2> QED
    BY <1>5, <2>2, <2>3 DEF CliStep
<1>6. CASE \E a \in Actors : Leaves(a)
  BY <1>6, LeavesStep, StepKeeps
<1>7. CASE \E x \in limbo : Lands(x)
  BY <1>7, LandsKeeps
<1>8. CASE (\E x \in limbo : Lapses(x)) \/ NextHour \/ UNCHANGED vars
  <2>1. /\ limbo' \subseteq limbo /\ hour' \in 0..MaxHour
        /\ UNCHANGED <<mode, wallet, landed, act, spent, lock, unseen>>
    BY <1>8, ConsoleAssumption
       DEF Lapses, NextHour, vars, chainVars, demoVars, CInv, Typed
  <2> QED
    BY <2>1, QuietKeeps
<1> QED
  BY <1>1, <1>2, <1>4, <1>5, <1>6, <1>7, <1>8 DEF Next

LEMMA AlwaysCInv == Spec => []CInv
  BY InitCInv, NextCInv, PTL DEF Spec

-----------------------------------------------------------------------------
(* Theorems *)

\* `spent` counts the payments the demo put on chain, neither more nor less, for
\* any number of handlers that are cut off, refused or answered in any order, and
\* with x402-pay spending from the same wallet.
THEOREM SpentCountsMoney == Spec => []SpentIsMoney
<1>1. CInv => SpentIsMoney
  BY DEF CInv
<1> QED
  BY <1>1, AlwaysCInv, PTL

\* max_plays is a ceiling for any number of handlers: only payments whose receipt
\* no handler read come on top.
THEOREM BudgetHolds == Spec => []CeilingHolds
<1>1. CInv => CeilingHolds
  <2> SUFFICES ASSUME CInv PROVE Cardinality(ByDemo) <= MAX_PLAYS + unseen
    BY DEF CeilingHolds
  <2>1. /\ spent \in Nat /\ unseen \in Nat /\ MAX_PLAYS \in Nat /\ spent <= MAX_PLAYS
        /\ lock # Nobody => spent < MAX_PLAYS
        /\ \A v \in Visitors : Paying(v) => lock = v
        /\ Cardinality(ByDemo) = spent + unseen + Cardinality(Owing)
    BY MoneyIs, ConsoleAssumption DEF CInv, Typed, OnePays
  <2>2. CASE Owing = {}
    <3>1. Cardinality(Owing) = 0
      BY <2>2, FS_EmptySet, Zenon
    <3> QED
      BY <2>1, <3>1
  <2>3. CASE Owing # {}
    <3>1. PICK v \in Visitors : Settled(v)
      BY <2>3 DEF Owing
    <3>2. \A w \in Visitors : Settled(w) => lock = w
      BY <2>1 DEF Settled, Paying
    <3>3. Owing = {v}
      BY <3>1, <3>2 DEF Owing
    <3>4. Cardinality(Owing) = 1
      BY <3>3, FS_Singleton, Zenon
    <3>5. spent < MAX_PLAYS
      BY <2>1, <3>1, <3>2, PayerFacts
    <3> QED
      BY <2>1, <3>4, <3>5
  <2> QED
    BY <2>2, <2>3
<1> QED
  BY <1>1, AlwaysCInv, PTL

\* No two exchanges are under way with one transaction, except x402-pay and the
\* demo pinning the same coin.
THEOREM DistinctInFlight == Spec => []PaymentsDistinct
<1>1. CInv => PaymentsDistinct
  <2> SUFFICES ASSUME CInv, NEW a \in Actors, NEW b \in Actors, InFlight(a), InFlight(b),
                      act[a].pay = act[b].pay, a # b
               PROVE  act[a].pay.path = "coin-object" /\ Cli \in {a, b}
    BY DEF PaymentsDistinct
  <2>1. Paying(a) /\ Paying(b)
    BY DEF InFlight, Paying
  <2>2. Cli \in {a, b}
    BY <2>1, PayerFacts DEF CInv, OnePays
  <2>3. act[a].pay.path \in {"gasless", "coin-object"}
    BY DEF CInv, Told
  <2>4. ASSUME act[a].pay.path = "gasless" PROVE FALSE
    <3>1. CASE a \in Visitors
      BY <2>4, <3>1 DEF CInv, NoncesFresh, InFlight
    <3>2. CASE b \in Visitors
      BY <2>4, <3>2 DEF CInv, NoncesFresh, InFlight
    <3> QED
      BY <3>1, <3>2, PayerFacts
  <2> QED
    BY <2>2, <2>3, <2>4
<1> QED
  BY <1>1, AlwaysCInv, PTL

\* What `send` and x402-pay show about money is so, for any answers of the gateway
\* and with Envoy cutting it off anywhere: a settled receipt and a session token
\* stand for money, no refusal goes with any, and "nothing was charged" is wrong
\* only on an answer of Envoy's own.
THEOREM ShownHolds == Spec => []ShownIsTrue
<1>1. CInv => ShownIsTrue
  BY DEF CInv, Told, ShownIsTrue
<1> QED
  BY <1>1, AlwaysCInv, PTL

-----------------------------------------------------------------------------
(* The hourly allowance *)

\* The handlers of an address that do not wait at its entry with the hour before.
Fresh(ip) ==
    {v \in Visitors : IP[v] = ip /\ ~(act[v].pc = "entry" /\ act[v].hour # hour)}

\* What the entry has counted in this hour.
Counted(ip) == IF entry[ip].hour = hour THEN entry[ip].n ELSE 0

Entries ==
    /\ DOMAIN entry = Ips
    /\ \A ip \in Ips :
          /\ DOMAIN entry[ip] = {"hour", "n"}
          /\ entry[ip].hour \in 0..MaxHour /\ entry[ip].n \in 0..PER_IP_HOURLY
    /\ admitted \in [Ips -> [0..MaxHour -> Nat]]

\* A handler that resets the count becomes a fresh one: what this hour let through
\* is paid for by the fresh handlers, the last of them as far as the entry counts.
HourOk(ip) ==
    /\ \A h \in 0..MaxHour : h > hour => admitted[ip][h] = 0
    /\ \A h \in 0..MaxHour : admitted[ip][h] <= Handlers(ip) * (PER_IP_HOURLY + 1)
    /\ \/ admitted[ip][hour] = 0
       \/ admitted[ip][hour] + PER_IP_HOURLY
            <= Cardinality(Fresh(ip)) * (PER_IP_HOURLY + 1) + Counted(ip)

HourInv ==
    /\ Entries
    /\ \A ip \in Ips : HourOk(ip)

LEMMA Covered ==
    ASSUME NEW P \in Nat, NEW A \in Nat, NEW T \in Nat, NEW K \in Nat, NEW n \in 0..P,
           T <= K, A = 0 \/ A + P <= T * (P + 1) + n
    PROVE  A <= K * (P + 1)
<1>1. PICK d \in Nat : K = T + d
  <2>1. K - T \in Nat /\ K = T + (K - T)
    OBVIOUS
  <2> QED
    BY <2>1
<1>2. K * (P + 1) = T * (P + 1) + d * (P + 1)
  BY <1>1
<1>3. d * (P + 1) \in Nat /\ T * (P + 1) \in Nat /\ K * (P + 1) \in Nat
  OBVIOUS
<1> QED
  BY <1>2, <1>3

\* One more handler is worth an allowance and a request.
LEMMA OneMore ==
    ASSUME NEW P \in Nat, NEW T \in Nat, NEW U \in Nat, NEW d \in Nat, U >= T + d
    PROVE  U * (P + 1) >= T * (P + 1) + d * (P + 1)
<1>1. PICK x \in Nat : U = T + d + x
  <2>1. U - (T + d) \in Nat /\ U = T + d + (U - (T + d))
    OBVIOUS
  <2> QED
    BY <2>1
<1>2. U * (P + 1) = T * (P + 1) + d * (P + 1) + x * (P + 1)
  BY <1>1
<1>3. x * (P + 1) \in Nat /\ T * (P + 1) \in Nat /\ d * (P + 1) \in Nat
  OBVIOUS
<1> QED
  BY <1>2, <1>3

LEMMA StillCovered ==
    ASSUME NEW P \in Nat, NEW A \in Nat, NEW T \in Nat, NEW U \in Nat,
           NEW m \in 0..P, NEW n \in 0..P, NEW k \in {0, 1}, NEW j \in {0, 1},
           U >= T + j, j = 1 \/ (n = m + k /\ (k = 1 => T >= 1)),
           A = 0 \/ A + P <= T * (P + 1) + m
    PROVE  A + k = 0 \/ A + k + P <= U * (P + 1) + n
<1>1. U * (P + 1) >= T * (P + 1) + j * (P + 1)
  BY OneMore
<1>2. PICK x, y : x = T * (P + 1) /\ y = U * (P + 1)
  OBVIOUS
<1>3. x \in Nat /\ y \in Nat
  BY <1>2
<1>4. T >= 1 => x >= P + 1
  <2>1. T >= 0 + 1 => T * (P + 1) >= 0 * (P + 1) + 1 * (P + 1)
    BY OneMore
  <2>2. 0 * (P + 1) = 0 /\ 1 * (P + 1) = P + 1
    OBVIOUS
  <2> QED
    BY <1>2, <1>3, <2>1, <2>2
<1>5. CASE j = 1
  <2>1. y >= x + P + 1
    <3>1. 1 * (P + 1) = P + 1
      OBVIOUS
    <3> QED
      BY <1>1, <1>2, <1>3, <1>5, <3>1
  <2> QED
    BY <1>2, <1>3, <2>1
<1>6. CASE j = 0
  <2>1. y >= x
    <3>1. 0 * (P + 1) = 0
      OBVIOUS
    <3> QED
      BY <1>1, <1>2, <1>3, <1>6, <3>1
  <2> QED
    BY <1>2, <1>3, <1>4, <1>6, <2>1
<1> QED
  BY <1>5, <1>6

LEMMA HandlersOf ==
    ASSUME NEW ip, NEW S, S \in SUBSET {v \in Visitors : IP[v] = ip}
    PROVE  /\ IsFiniteSet(S) /\ Cardinality(S) \in Nat
           /\ Handlers(ip) \in Nat /\ Cardinality(S) <= Handlers(ip)
<1>1. PICK H : H = {v \in Visitors : IP[v] = ip}
  OBVIOUS
<1>2. H \in SUBSET Visitors /\ IsFiniteSet(Visitors)
  BY <1>1, ConsoleAssumption
<1>3. IsFiniteSet(H)
  BY <1>2, FS_Subset
<1>4. S \in SUBSET H
  BY <1>1
<1>5. IsFiniteSet(S) /\ Cardinality(S) <= Cardinality(H)
  BY <1>3, <1>4, FS_Subset
<1>6. Cardinality(S) \in Nat /\ Cardinality(H) \in Nat
  BY <1>3, <1>5, FS_CardinalityType
<1> QED
  BY <1>1, <1>5, <1>6 DEF Handlers

\* What one step does to an address: k more let through, counted by d, and the
\* fresh handlers grow, by one more if d is another hour's.
LEMMA HourMoves ==
    ASSUME Entries, Entries', hour' = hour, hour \in 0..MaxHour,
           NEW ip \in Ips, HourOk(ip), NEW k \in {0, 1}, NEW j \in {0, 1},
           \A h \in 0..MaxHour :
              admitted'[ip][h] = IF h = hour THEN admitted[ip][h] + k ELSE admitted[ip][h],
           Cardinality(Fresh(ip)') >= Cardinality(Fresh(ip)) + j,
           \/ j = 1
           \/ Counted(ip)' = Counted(ip) + k /\ (k = 1 => Cardinality(Fresh(ip)) >= 1)
    PROVE  HourOk(ip)'
<1>1. PICK P, A, B, T, U, K, m, n :
         /\ P = PER_IP_HOURLY /\ P \in Nat /\ A = admitted[ip][hour] /\ B = admitted'[ip][hour]
         /\ T = Cardinality(Fresh(ip)) /\ U = Cardinality(Fresh(ip)')
         /\ K = Handlers(ip) /\ m = Counted(ip) /\ n = Counted(ip)'
  BY ConsoleAssumption
<1>2. T \in Nat /\ U \in Nat /\ K \in Nat /\ U <= K
  <2>1. PICK S, R : S = Fresh(ip) /\ R = Fresh(ip)'
    OBVIOUS
  <2>2. S \in SUBSET {v \in Visitors : IP[v] = ip} /\ R \in SUBSET {v \in Visitors : IP[v] = ip}
    BY <2>1 DEF Fresh
  <2>3. /\ Cardinality(S) \in Nat /\ Cardinality(R) \in Nat
        /\ Handlers(ip) \in Nat /\ Cardinality(R) <= Handlers(ip)
    BY <2>2, HandlersOf
  <2> QED
    BY <1>1, <2>1, <2>3
<1>3. m \in 0..P /\ n \in 0..P
  BY <1>1 DEF Entries, Counted
<1>4. A \in Nat /\ B = A + k
  BY <1>1 DEF Entries
<1>5. A = 0 \/ A + P <= T * (P + 1) + m
  BY <1>1 DEF HourOk
<1>6. B = 0 \/ B + P <= U * (P + 1) + n
  <2>1. U >= T + j /\ (j = 1 \/ (n = m + k /\ (k = 1 => T >= 1)))
    BY <1>1
  <2>2. P \in Nat
    BY <1>1
  <2>3. A + k = 0 \/ A + k + P <= U * (P + 1) + n
    BY <1>2, <1>3, <1>4, <1>5, <2>1, <2>2, StillCovered, Zenon
  <2> QED
    BY <1>4, <2>3
<1>7. B <= K * (P + 1)
  <2>1. B \in Nat
    BY <1>4
  <2> QED
    BY <1>1, <1>2, <1>3, <1>6, <2>1, Covered, Zenon
<1>8. \A h \in 0..MaxHour : admitted'[ip][h] <= K * (P + 1)
  <2> SUFFICES ASSUME NEW h \in 0..MaxHour PROVE admitted'[ip][h] <= K * (P + 1)
    OBVIOUS
  <2>1. CASE h = hour
    BY <1>1, <1>7, <2>1
  <2>2. CASE h # hour
    BY <1>1, <2>2 DEF HourOk
  <2> QED
    BY <2>1, <2>2
<1>9. \A h \in 0..MaxHour : h > hour => admitted'[ip][h] = 0
  BY DEF HourOk
<1>10. Handlers(ip)' = Handlers(ip)
  BY DEF Handlers
<1>11. /\ \A h \in 0..MaxHour : h > hour' => admitted'[ip][h] = 0
       /\ \A h \in 0..MaxHour : admitted'[ip][h] <= Handlers(ip)' * (PER_IP_HOURLY + 1)
  BY <1>1, <1>8, <1>9, <1>10
<1>12. \/ admitted'[ip][hour'] = 0
       \/ admitted'[ip][hour'] + PER_IP_HOURLY
            <= Cardinality(Fresh(ip)') * (PER_IP_HOURLY + 1) + Counted(ip)'
  BY <1>1, <1>6
<1> QED
  BY <1>11, <1>12, Zenon DEF HourOk

LEMMA PlusZero ==
    ASSUME NEW S, NEW g \in [S -> Nat], NEW y
    PROVE  \A x \in S : g[x] = IF x = y THEN g[x] + 0 ELSE g[x]
  OBVIOUS

LEMMA CurrentFacts ==
    ASSUME NEW e, DOMAIN e = {"hour", "n"}, e.hour \in 0..MaxHour, e.n \in Nat,
           NEW h \in 0..MaxHour
    PROVE  /\ DOMAIN Current(e, h) = {"hour", "n"}
           /\ Current(e, h).hour = h
           /\ Current(e, h).n = IF e.hour = h THEN e.n ELSE 0
  BY DEF Current

\* What Admit and Limited do to the entry: k requests are let through, counted by
\* the entry d and by the history f.
Taken(v, k, f, d) ==
    LET ip == IP[v]
        c == Current(entry[ip], act[v].hour)
    IN  /\ k = 1 => HasPlays(c)
        /\ DOMAIN d = {"hour", "n"} /\ d.hour = c.hour /\ d.n = c.n + k
        /\ entry' = [entry EXCEPT ![ip] = d]
        /\ \A x \in 0..MaxHour :
              f[x] = IF x = hour THEN admitted[ip][x] + k ELSE admitted[ip][x]
        /\ admitted' = [admitted EXCEPT ![ip] = f]

LEMMA EntryTaken ==
    ASSUME CInv, HourInv, NEW v \in Visitors, Admit(v) \/ Limited(v)
    PROVE  /\ act[v].pc = "entry" /\ act'[v].pc # "entry" /\ hour' = hour
           /\ \A w \in Visitors : w # v => act'[w] = act[w]
           /\ \E k \in {0, 1}, f \in [0..MaxHour -> Nat] : \E d : Taken(v, k, f, d)
<1>0. v \in Actors /\ DOMAIN act = Actors /\ IsExchange(act[v])
  BY PayerFacts DEF CInv, Typed
<1>1. PICK ip, c, g : ip = IP[v] /\ c = Current(entry[ip], act[v].hour) /\ g = admitted[ip]
  OBVIOUS
<1>2. /\ ip \in Ips /\ hour \in 0..MaxHour /\ act[v].hour \in 0..MaxHour
  BY <1>0, <1>1, ConsoleAssumption DEF CInv, Typed, IsExchange, HourInv, Entries
<1>3. DOMAIN c = {"hour", "n"} /\ c.n \in Nat
  <2>1. PICK e : e = entry[ip]
    OBVIOUS
  <2>2. DOMAIN e = {"hour", "n"} /\ e.hour \in 0..MaxHour /\ e.n \in Nat
    BY <1>2, <2>1, ConsoleAssumption DEF HourInv, Entries
  <2> QED
    BY <1>1, <1>2, <2>1, <2>2, CurrentFacts
<1>4. g \in [0..MaxHour -> Nat]
  BY <1>1, <1>2 DEF HourInv, Entries
<1>5. CASE Admit(v)
  <2>1. /\ act[v].pc = "entry" /\ hour' = hour
        /\ act' = [act EXCEPT ![v].pc = "lock"]
        /\ HasPlays(c)
        /\ entry' = [entry EXCEPT ![ip] = [c EXCEPT !.n = @ + 1]]
        /\ admitted' = [admitted EXCEPT ![ip][hour] = @ + 1]
    BY <1>1, <1>5 DEF Admit, Go
  <2>2. act'[v].pc # "entry" /\ \A w \in Visitors : w # v => act'[w] = act[w]
    BY <1>0, <2>1, PayerFacts DEF IsExchange
  <2>3. PICK d, f : d = [c EXCEPT !.n = @ + 1] /\ f = [g EXCEPT ![hour] = @ + 1]
    OBVIOUS
  <2>4. DOMAIN d = {"hour", "n"} /\ d.hour = c.hour /\ d.n = c.n + 1
    BY <1>3, <2>3
  <2>5. /\ f \in [0..MaxHour -> Nat]
        /\ \A x \in 0..MaxHour : f[x] = IF x = hour THEN g[x] + 1 ELSE g[x]
    BY <1>2, <1>4, <2>3
  <2>6. admitted' = [admitted EXCEPT ![ip] = f] /\ entry' = [entry EXCEPT ![ip] = d]
    BY <1>1, <2>1, <2>3
  <2>7. Taken(v, 1, f, d)
    BY <1>1, <2>1, <2>4, <2>5, <2>6, Zenon DEF Taken
  <2> QED
    BY <2>1, <2>2, <2>5, <2>7
<1>6. CASE Limited(v)
  <2>1. /\ act[v].pc = "entry" /\ hour' = hour
        /\ act' = [act EXCEPT ![v] = Quiet]
        /\ entry' = [entry EXCEPT ![ip] = c]
        /\ admitted' = admitted
    BY <1>1, <1>6 DEF Limited, Return
  <2>2. act'[v].pc # "entry" /\ \A w \in Visitors : w # v => act'[w] = act[w]
    BY <1>0, <2>1, QuietFacts, PayerFacts
  <2>3. c.n = c.n + 0 /\ \A x \in 0..MaxHour : g[x] = IF x = hour THEN g[x] + 0 ELSE g[x]
    BY <1>3, <1>4, PlusZero
  <2>4. admitted' = [admitted EXCEPT ![ip] = g]
    BY <1>1, <1>2, <2>1 DEF HourInv, Entries
  <2>5. Taken(v, 0, g, c)
    <3>1. 0 # 1
      OBVIOUS
    <3> QED
      BY <1>1, <1>3, <2>1, <2>3, <2>4, <3>1, Zenon DEF Taken
  <2> QED
    BY <1>4, <2>1, <2>2, <2>5
<1> QED
  BY <1>5, <1>6

\* A handler with the hour before becomes fresh by taking the entry, and another's
\* request is counted.
LEMMA TakesKeepHours ==
    ASSUME CInv, HourInv, NEW v \in Visitors, Admit(v) \/ Limited(v)
    PROVE  HourInv'
<1>0. PICK ip \in Ips : ip = IP[v]
  BY ConsoleAssumption
<1>1. PICK c : c = Current(entry[ip], act[v].hour)
  OBVIOUS
<1>14. /\ act[v].pc = "entry" /\ act'[v].pc # "entry" /\ hour' = hour
       /\ \A w \in Visitors : w # v => act'[w] = act[w]
  BY EntryTaken
<1>15. PICK k \in {0, 1}, f \in [0..MaxHour -> Nat] : \E d : Taken(v, k, f, d)
  BY EntryTaken
<1>16. PICK d : Taken(v, k, f, d)
  BY <1>15
<1>17. /\ k = 1 => HasPlays(c)
       /\ DOMAIN d = {"hour", "n"} /\ d.hour = c.hour /\ d.n = c.n + k
       /\ entry' = [entry EXCEPT ![ip] = d]
       /\ \A x \in 0..MaxHour :
             f[x] = IF x = hour THEN admitted[ip][x] + k ELSE admitted[ip][x]
       /\ admitted' = [admitted EXCEPT ![ip] = f]
  BY <1>0, <1>1, <1>16, Zenon DEF Taken
<1>2. PICK h \in 0..MaxHour : h = act[v].hour
  BY PayerFacts DEF CInv, Typed, IsExchange
<1>3. PICK e : e = entry[ip]
  OBVIOUS
<1>4. /\ DOMAIN e = {"hour", "n"} /\ e.hour \in 0..MaxHour /\ e.n \in 0..PER_IP_HOURLY
      /\ admitted[ip] \in [0..MaxHour -> Nat] /\ DOMAIN entry = Ips /\ DOMAIN admitted = Ips
      /\ hour \in 0..MaxHour /\ PER_IP_HOURLY \in Nat
  BY <1>3, ConsoleAssumption DEF HourInv, Entries, CInv, Typed
<1>5. /\ DOMAIN c = {"hour", "n"} /\ c.hour = h /\ c.n = (IF e.hour = h THEN e.n ELSE 0)
      /\ c.n \in 0..PER_IP_HOURLY
  <2>1. e.n \in Nat /\ c = Current(e, h)
    BY <1>1, <1>2, <1>3, <1>4
  <2>2. DOMAIN c = {"hour", "n"} /\ c.hour = h /\ c.n = (IF e.hour = h THEN e.n ELSE 0)
    BY <1>4, <2>1, CurrentFacts
  <2> QED
    BY <1>4, <2>2
<1>6. /\ DOMAIN d = {"hour", "n"} /\ d.hour = h /\ d.n = c.n + k
      /\ d.n \in 0..PER_IP_HOURLY
  BY <1>4, <1>5, <1>17 DEF HasPlays
<1>7. /\ DOMAIN entry' = Ips /\ entry'[ip] = d
      /\ \A i \in Ips : i # ip => entry'[i] = entry[i]
  BY <1>4, <1>17
<1>8. /\ DOMAIN admitted' = Ips /\ admitted'[ip] = f
      /\ \A i \in Ips : i # ip => admitted'[i] = admitted[i]
  BY <1>4, <1>17
<1>10. Entries'
  <2>1. ASSUME NEW i \in Ips
        PROVE  /\ DOMAIN entry'[i] = {"hour", "n"}
               /\ entry'[i].hour \in 0..MaxHour /\ entry'[i].n \in 0..PER_IP_HOURLY
    <3>1. CASE i = ip
      BY <1>6, <1>7, <3>1
    <3>2. CASE i # ip
      BY <1>7, <3>2, Zenon DEF HourInv, Entries
    <3> QED
      BY <3>1, <3>2
  <2>2. admitted' \in [Ips -> [0..MaxHour -> Nat]]
    BY <1>15, <1>17 DEF HourInv, Entries
  <2> QED
    BY <1>7, <2>1, <2>2 DEF Entries
<1>11. ASSUME NEW i \in Ips
       PROVE  /\ Cardinality(Fresh(i)) \in Nat /\ Cardinality(Fresh(i)') \in Nat
              /\ Cardinality(Fresh(i)') >= Cardinality(Fresh(i))
              /\ i = ip /\ h = hour => Cardinality(Fresh(i)) >= 1
              /\ i = ip /\ h # hour => Cardinality(Fresh(i)') >= Cardinality(Fresh(i)) + 1
  <2>1. PICK S, R : S = Fresh(i) /\ R = Fresh(i)'
    OBVIOUS
  <2>2. /\ S = {w \in Visitors : IP[w] = i /\ ~(act[w].pc = "entry" /\ act[w].hour # hour)}
        /\ R = {w \in Visitors : IP[w] = i /\ ~(act'[w].pc = "entry" /\ act'[w].hour # hour)}
    BY <1>14, <2>1 DEF Fresh
  <2>3. S \in SUBSET R /\ (i = ip => v \in R)
    BY <1>0, <1>14, <2>2
  <2>4. i = ip => (v \in S <=> h = hour)
    BY <1>0, <1>2, <1>14, <2>2
  <2>5. S \in SUBSET {w \in Visitors : IP[w] = i} /\ R \in SUBSET {w \in Visitors : IP[w] = i}
    BY <2>2
  <2>6. /\ IsFiniteSet(S) /\ Cardinality(S) \in Nat
        /\ IsFiniteSet(R) /\ Cardinality(R) \in Nat
    BY <2>5, HandlersOf
  <2>7. Cardinality(S) <= Cardinality(R)
    BY <2>3, <2>6, FS_Subset
  <2>8. CASE i = ip /\ h = hour
    <3>1. S # {}
      BY <2>4, <2>8
    <3>2. Cardinality(S) # 0
      BY <2>6, <3>1, FS_EmptySet
    <3> QED
      BY <2>1, <2>6, <2>7, <2>8, <3>2
  <2>9. CASE i = ip /\ h # hour
    <3>1. v \notin S /\ S \cup {v} \in SUBSET R
      BY <2>3, <2>4, <2>9
    <3>2. Cardinality(S \cup {v}) = Cardinality(S) + 1 /\ IsFiniteSet(S \cup {v})
      BY <2>6, <3>1, FS_AddElement
    <3>3. Cardinality(S \cup {v}) <= Cardinality(R)
      BY <2>6, <3>1, FS_Subset
    <3> QED
      BY <2>1, <2>6, <2>7, <2>9, <3>2, <3>3
  <2> QED
    BY <2>1, <2>6, <2>7, <2>8, <2>9
<1>12. ASSUME NEW i \in Ips PROVE HourOk(i)'
  <2>0. Entries /\ HourOk(i)
    BY DEF HourInv
  <2>1. CASE i = ip /\ h = hour
    <3>1. Counted(ip) = c.n /\ Counted(ip)' = c.n + k
      BY <1>3, <1>5, <1>6, <1>7, <1>14, <2>1 DEF Counted
    <3>2. \A x \in 0..MaxHour :
             admitted'[i][x] = IF x = hour THEN admitted[i][x] + k ELSE admitted[i][x]
      BY <1>8, <1>17, <2>1
    <3>3. Cardinality(Fresh(i)') >= Cardinality(Fresh(i)) + 0 /\ Cardinality(Fresh(i)) >= 1
      BY <1>11, <2>1
    <3>4. Counted(i)' = Counted(i) + k
      BY <2>1, <3>1
    <3> QED
      BY <1>4, <1>10, <1>14, <2>0, <3>2, <3>3, <3>4, HourMoves
  <2>2. CASE i = ip /\ h # hour
    <3>1. /\ \A x \in 0..MaxHour :
                admitted'[i][x] = IF x = hour THEN admitted[i][x] + k ELSE admitted[i][x]
          /\ Cardinality(Fresh(i)') >= Cardinality(Fresh(i)) + 1
      BY <1>8, <1>11, <1>17, <2>2
    <3> QED
      BY <1>4, <1>10, <1>14, <2>0, <3>1, HourMoves
  <2>3. CASE i # ip
    <3>1. entry'[i] = entry[i] /\ admitted'[i] = admitted[i]
      BY <1>7, <1>8, <2>3
    <3>2. /\ admitted[i] \in [0..MaxHour -> Nat]
          /\ entry[i].n \in 0..PER_IP_HOURLY
      BY DEF HourInv, Entries
    <3>3. \A x \in 0..MaxHour :
             admitted'[i][x] = IF x = hour THEN admitted[i][x] + 0 ELSE admitted[i][x]
      <4>1. PICK g : g = admitted[i] /\ g = admitted'[i]
        BY <3>1
      <4>2. g \in [0..MaxHour -> Nat]
        BY <3>2, <4>1
      <4>3. \A x \in 0..MaxHour : g[x] = IF x = hour THEN g[x] + 0 ELSE g[x]
        BY <4>2, PlusZero
      <4> QED
        BY <4>1, <4>3, Zenon
    <3>4. Cardinality(Fresh(i)') >= Cardinality(Fresh(i)) + 0
      BY <1>11
    <3>5. Counted(i)' = Counted(i) + 0
      BY <3>1, <3>2, <1>4, <1>14 DEF Counted
    <3> QED
      BY <1>4, <1>10, <1>14, <2>0, <3>3, <3>4, <3>5, HourMoves
  <2> QED
    BY <2>1, <2>2, <2>3
<1> QED
  BY <1>10, <1>12 DEF HourInv

\* Every other step leaves the entries alone, and a handler that comes to wait at
\* one has read this hour.
LEMMA OtherSteps ==
    ASSUME CInv, [Next]_vars, ~ \E v \in Visitors : Admit(v) \/ Limited(v)
    PROVE  /\ UNCHANGED <<entry, admitted>>
           /\ \/ \E a \in Actors : StepOf(a)
              \/ UNCHANGED <<act, hour>>
              \/ NextHour
<1>1. ASSUME NEW a \in Actors, Pays(a) PROVE UNCHANGED <<entry, admitted>> /\ StepOf(a)
  <2>1. UNCHANGED demoVars
    BY <1>1 DEF Pays, Fails, Probe, BuildGasless, BuildCoinObject, CannotBuild, Refused,
       Verified, NotServed, Served, CutWhileDeciding, CutWhileSettling
  <2>2. StepOf(a)
    BY <1>1, EdgeSteps, ProbeStep, BuildSteps, RefusedStep, VerifiedStep, NotServedStep,
       ServedStep, CutSteps DEF Pays
  <2> QED
    BY <2>1, <2>2 DEF demoVars
<1>2. CASE \E v \in Visitors : SendStep(v)
  <2>1. PICK v \in Visitors : SendStep(v)
    BY <1>2
  <2>2. v \in Actors
    BY PayerFacts
  <2>3. CASE Pays(v)
    BY <1>1, <2>2, <2>3
  <2>4. CASE FirstAnswered(v) \/ Peek(v) \/ ReadClock(v) \/ TakeLock(v) \/ Finish(v)
    <3>1. UNCHANGED <<entry, admitted>>
      BY <2>4 DEF FirstAnswered, Peek, ReadClock, TakeLock, Finish, demoVars
    <3>2. StepOf(v)
      BY <2>2, <2>4, FirstAnsweredStep, PeekStep, ControlSteps, FinishStep
    <3> QED
      BY <2>2, <3>1, <3>2
  <2> QED
    BY <2>1, <2>3, <2>4 DEF SendStep
<1>3. CASE CliStep
  <2>1. Cli \in Actors
    BY PayerFacts
  <2>2. CASE Pays(Cli)
    BY <1>1, <2>1, <2>2
  <2>3. CASE FirstAnswered(Cli) \/ Read \/ Exit
    <3>1. UNCHANGED demoVars
      <4>1. CASE FirstAnswered(Cli)
        BY <4>1 DEF FirstAnswered
      <4>2. CASE Read
        <5>1. UNCHANGED <<mode, chainVars, demoVars, hour, runs, unseen>>
          BY <4>2, Zenon DEF Read
        <5> QED
          BY <5>1
      <4>3. CASE Exit
        BY <4>3 DEF Exit
      <4> QED
        BY <2>3, <4>1, <4>2, <4>3
    <3>2. StepOf(Cli)
      BY <2>1, <2>3, FirstAnsweredStep, ReadStep, EdgeSteps
    <3> QED
      BY <2>1, <3>1, <3>2 DEF demoVars
  <2> QED
    BY <1>3, <2>2, <2>3 DEF CliStep
<1>4. CASE \/ \E v \in Visitors, t \in Targets : Click(v, t)
           \/ \E t \in CliTargets : Run(t)
           \/ \E a \in Actors : Leaves(a)
  <2>1. UNCHANGED demoVars
    <3>1. ASSUME NEW v, NEW t, Click(v, t) PROVE UNCHANGED demoVars
      BY <3>1 DEF Click
    <3>2. ASSUME NEW t, Run(t) PROVE UNCHANGED demoVars
      BY <3>2 DEF Run
    <3>3. ASSUME NEW a, Leaves(a) PROVE UNCHANGED demoVars
      BY <3>3 DEF Leaves
    <3> QED
      BY <1>4, <3>1, <3>2, <3>3, Zenon
  <2>2. \E a \in Actors : StepOf(a)
    BY <1>4, ClickStep, RunStep, LeavesStep, PayerFacts
  <2> QED
    BY <2>1, <2>2 DEF demoVars
<1>5. CASE (\E x \in limbo : Lands(x) \/ Lapses(x)) \/ NextHour \/ UNCHANGED vars
  BY <1>5 DEF Lands, Lapses, NextHour, vars, demoVars
<1> QED
  BY <1>2, <1>3, <1>4, <1>5 DEF Next

LEMMA NextHourKeeps ==
    ASSUME CInv, HourInv, NextHour PROVE HourInv'
<1>1. /\ hour \in 0..MaxHour /\ hour' = hour + 1 /\ hour < MaxHour /\ MaxHour \in Nat
      /\ entry' = entry /\ admitted' = admitted
  BY ConsoleAssumption DEF NextHour, demoVars, CInv, Typed
<1>2. Entries'
  BY <1>1, Zenon DEF HourInv, Entries
<1>3. ASSUME NEW ip \in Ips PROVE HourOk(ip)'
  <2>1. /\ \A h \in 0..MaxHour : h > hour => admitted[ip][h] = 0
        /\ \A h \in 0..MaxHour : admitted[ip][h] <= Handlers(ip) * (PER_IP_HOURLY + 1)
    BY Zenon DEF HourInv, HourOk
  <2>2. hour' \in 0..MaxHour /\ hour' > hour /\ \A h \in 0..MaxHour : h > hour' => h > hour
    BY <1>1
  <2>3. Handlers(ip)' = Handlers(ip)
    BY DEF Handlers
  <2> QED
    BY <1>1, <2>1, <2>2, <2>3, Zenon DEF HourOk
<1> QED
  BY <1>2, <1>3 DEF HourInv

\* No other step makes a fresh handler late.
LEMMA OthersKeepHours ==
    ASSUME CInv, HourInv, UNCHANGED <<entry, admitted>>,
           (\E a \in Actors : StepOf(a)) \/ UNCHANGED <<act, hour>>
    PROVE  HourInv'
<1>1. /\ hour' = hour /\ hour \in 0..MaxHour
      /\ \A v \in Visitors : act'[v] = act[v] \/ (act'[v].pc = "entry" => act'[v].hour = hour)
  BY PayerFacts DEF StepOf, CInv, Typed
<1>2. Entries /\ Entries'
  BY Zenon DEF HourInv, Entries
<1>3. ASSUME NEW ip \in Ips PROVE HourOk(ip)'
  <2>1. PICK S, R : S = Fresh(ip) /\ R = Fresh(ip)'
    OBVIOUS
  <2>2. /\ S = {v \in Visitors : IP[v] = ip /\ ~(act[v].pc = "entry" /\ act[v].hour # hour)}
        /\ R = {v \in Visitors : IP[v] = ip /\ ~(act'[v].pc = "entry" /\ act'[v].hour # hour)}
    BY <1>1, <2>1 DEF Fresh
  <2>3. S \in SUBSET R /\ R \in SUBSET {v \in Visitors : IP[v] = ip}
        /\ S \in SUBSET {v \in Visitors : IP[v] = ip}
    BY <1>1, <2>2
  <2>4. /\ IsFiniteSet(R) /\ Cardinality(R) \in Nat /\ Cardinality(S) \in Nat
    BY <2>3, HandlersOf
  <2>5. Cardinality(S) <= Cardinality(R)
    BY <2>3, <2>4, FS_Subset
  <2>6. Cardinality(Fresh(ip)') >= Cardinality(Fresh(ip)) + 0
    BY <2>1, <2>4, <2>5
  <2>7. Counted(ip)' = Counted(ip) + 0
    <3>1. entry[ip].n \in Nat
      BY <1>2, ConsoleAssumption DEF Entries
    <3> QED
      BY <1>1, <3>1 DEF Counted
  <2>8. \A h \in 0..MaxHour :
           admitted'[ip][h] = IF h = hour THEN admitted[ip][h] + 0 ELSE admitted[ip][h]
    <3>1. PICK g : g = admitted[ip] /\ g = admitted'[ip]
      OBVIOUS
    <3>2. g \in [0..MaxHour -> Nat]
      BY <1>2, <3>1 DEF Entries
    <3>3. \A h \in 0..MaxHour : g[h] = IF h = hour THEN g[h] + 0 ELSE g[h]
      BY <3>2, PlusZero
    <3> QED
      BY <3>1, <3>3, Zenon
  <2>9. HourOk(ip)
    BY DEF HourInv
  <2> QED
    BY <1>1, <1>2, <2>6, <2>7, <2>8, <2>9, HourMoves
<1> QED
  BY <1>2, <1>3 DEF HourInv

\* What an address is let through in an hour is bounded by its handlers, each worth
\* a request and an allowance, whatever hours they had read: a handler resets the
\* count at most once an hour, since it reads the hour again before its next turn.
THEOREM AllowanceHolds == Spec => []HourlyAllowance
<1>1. Init => HourInv
  <2> SUFFICES ASSUME Init PROVE HourInv
    OBVIOUS
  <2>1. /\ entry = [ip \in Ips |-> [hour |-> 0, n |-> 0]]
        /\ admitted = [ip \in Ips |-> [h \in 0..MaxHour |-> 0]]
        /\ hour \in 0..MaxHour
    BY DEF Init
  <2>2. Entries
    BY <2>1, ConsoleAssumption DEF Entries
  <2>3. ASSUME NEW ip \in Ips PROVE HourOk(ip)
    <3>1. \A h \in 0..MaxHour : admitted[ip][h] = 0
      BY <2>1
    <3>2. Handlers(ip) \in Nat
      <4>1. {} \in SUBSET {v \in Visitors : IP[v] = ip}
        OBVIOUS
      <4> QED
        BY <4>1, HandlersOf
    <3>3. Handlers(ip) * (PER_IP_HOURLY + 1) \in Nat
      BY <3>2, ConsoleAssumption
    <3> QED
      BY <2>1, <3>1, <3>3 DEF HourOk
  <2> QED
    BY <2>2, <2>3 DEF HourInv
<1>2. CInv /\ HourInv /\ [Next]_vars => HourInv'
  BY OtherSteps, TakesKeepHours, NextHourKeeps, OthersKeepHours
<1>3. HourInv => HourlyAllowance
  BY Zenon DEF HourInv, HourOk, HourlyAllowance
<1> QED
  BY <1>1, <1>2, <1>3, AlwaysCInv, PTL DEF Spec
=============================================================================
