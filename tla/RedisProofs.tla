----------------------------- MODULE RedisProofs -----------------------------
(***************************************************************************)
(* Proofs about RedisStore, for any number of replicas and requests, any   *)
(* clocks, quotas, durations and claim TTL, and any number of crashes.     *)
(*                                                                         *)
(* The invariant has three parts: where each request can be (WorkerInv),   *)
(* what the keys of the sessions hold and how old they are (StoreInv), and *)
(* how claims, requests and the chain hang together (ClaimInv): as long as *)
(* the server keeps its keys, the claim of a payment being worked on has   *)
(* exactly the rest of its TTL left, so nobody else is granted it, and a   *)
(* payment about to be broadcast has bought nothing yet.                   *)
(***************************************************************************)
EXTENDS RedisStore, TLAPS

Worker ==
    [pc     : {"idle", "spend", "claim"} \cup AtWork,
     id     : Keys \cup {Nothing},
     policy : Policies \cup {Nothing},
     pay    : Bought \cup {Nothing},
     held   : 0 .. MaxWork]

\* A request knows what it asks for, and has worked on nothing before a claim.
Sound(x) ==
    /\ x.pc = "spend" => x.id \in Keys /\ x.policy \in Policies
    /\ x.pc \in AtWork \cup {"claim"} => x.pay \in Bought /\ x.policy \in Policies
    /\ x.pc \notin AtWork => x.held = 0

WorkerInv ==
    /\ worker \in [Workers -> Worker]
    /\ \A w \in Workers : Sound(worker[w])

\* One session key: fresh until drawn; then alive, ending on time, and with
\* every request that is gone from its quota accounted for.
KeyInv(i) ==
    /\ i \notin drawn =>
          /\ hash[i] = NoSession
          /\ age[i] = 0
          /\ \A q \in Policies : answered[i][q] = 0 /\ unanswered[i][q] = 0
    /\ hash[i] # NoSession =>
          /\ hash[i].life > 0
          /\ hash[i].life + age[i] = DURATION[hash[i].policy]
          /\ \A q \in Policies :
                answered[i][q] + unanswered[i][q] =
                   IF q = hash[i].policy THEN QUOTA[q] - hash[i].left ELSE 0

StoreInv ==
    /\ hash \in [Keys -> Session \cup {NoSession}]
    /\ age \in [Keys -> Nat]
    /\ answered \in [Keys -> [Policies -> Nat]]
    /\ unanswered \in [Keys -> [Policies -> Nat]]
    /\ \A i \in Keys : KeyInv(i)

Working(w) == worker[w].pc \in AtWork

\* Claims while the server has lost no key.
Exclusive ==
    /\ \A p \in Bought : granted[p] <= 1
    /\ \A w \in Workers :
          Working(w) => marker[worker[w].pay] + worker[w].held = CLAIM_TTL
    /\ \A v, w \in Workers :
          Working(v) /\ Working(w) /\ worker[v].pay = worker[w].pay => v = w
    /\ \A w \in Workers :
          worker[w].pc \in {"execute", "mint"} => granted[worker[w].pay] = 0

ClaimInv ==
    /\ marker \in [Bought -> Nat]
    /\ granted \in [Bought -> Nat]
    /\ losses \in Nat
    /\ \A p \in Bought : granted[p] > 0 => p \in landed
    /\ \A w \in Workers : worker[w].pc = "mint" => worker[w].pay \in landed
    /\ losses = 0 => Exclusive

RInv == WorkerInv /\ StoreInv /\ ClaimInv

-----------------------------------------------------------------------------
(* Requests *)

LEMMA IdleFacts == IdleWorker \in Worker /\ Sound(IdleWorker) /\ IdleWorker.pc = "idle"
  BY RedisAssumption DEF IdleWorker, Worker, Sound, AtWork

LEMMA OneWorker ==
    ASSUME WorkerInv, NEW w \in Workers, NEW x \in Worker, Sound(x),
           worker' = [worker EXCEPT ![w] = x]
    PROVE  WorkerInv' /\ \A g \in Workers : worker'[g] = IF g = w THEN x ELSE worker[g]
<1>1. \A g \in Workers : worker'[g] = IF g = w THEN x ELSE worker[g]
  BY DEF WorkerInv
<1>2. worker' \in [Workers -> Worker]
  BY DEF WorkerInv
<1>3. \A g \in Workers : Sound(worker'[g])
  BY <1>1 DEF WorkerInv
<1> QED
  BY <1>1, <1>2, <1>3, Zenon DEF WorkerInv, Sound

LEMMA DoneWorker ==
    ASSUME WorkerInv, NEW w \in Workers, Done(w)
    PROVE  /\ WorkerInv'
           /\ \A g \in Workers : worker'[g] = IF g = w THEN IdleWorker ELSE worker[g]
  BY IdleFacts, OneWorker DEF Done

\* A request with a payment goes on to another step of its work.
LEMMA GoWorker ==
    ASSUME WorkerInv, NEW w \in Workers, NEW pc \in AtWork, Go(w, pc),
           worker[w].pc \in AtWork \cup {"claim"}
    PROVE  /\ WorkerInv'
           /\ \A g \in Workers : g # w => worker'[g] = worker[g]
           /\ worker'[w].pc = pc
           /\ worker'[w].pay = worker[w].pay
           /\ worker'[w].held = worker[w].held
<1> DEFINE x == [worker[w] EXCEPT !.pc = pc]
<1>1. worker[w] \in Worker /\ Sound(worker[w])
  BY DEF WorkerInv
<1>2. x \in Worker /\ x.pc = pc /\ x.pay = worker[w].pay /\ x.held = worker[w].held
      /\ x.policy = worker[w].policy
  BY <1>1 DEF Worker
<1>3. Sound(x)
  BY <1>1, <1>2 DEF Sound, AtWork
<1>4. worker' = [worker EXCEPT ![w] = x]
  BY DEF Go
<1> HIDE DEF x
<1>5. x \in Worker
  BY <1>2
<1>6. WorkerInv' /\ \A g \in Workers : worker'[g] = IF g = w THEN x ELSE worker[g]
  BY <1>3, <1>4, <1>5, OneWorker
<1> QED
  BY <1>2, <1>6

-----------------------------------------------------------------------------
(* Sessions *)

LEMMA IsSession ==
    ASSUME NEW s \in Session
    PROVE  s # NoSession
  BY TierAssumption DEF Session, NoSession

\* The stores of a step that touches none of the session keys.
LEMMA StoreSame ==
    ASSUME StoreInv, UNCHANGED <<hash, age, drawn, answered, unanswered>>
    PROVE  StoreInv'
  BY Zenon DEF StoreInv, KeyInv

\* A step on one key.
LEMMA StoreOne ==
    ASSUME StoreInv, NEW i \in Keys,
           hash' \in [Keys -> Session \cup {NoSession}],
           age' \in [Keys -> Nat],
           answered' \in [Keys -> [Policies -> Nat]],
           unanswered' \in [Keys -> [Policies -> Nat]],
           drawn' \in {drawn, drawn \cup {i}},
           \A j \in Keys \ {i} :
              /\ hash'[j] = hash[j]
              /\ age'[j] = age[j]
              /\ answered'[j] = answered[j]
              /\ unanswered'[j] = unanswered[j],
           KeyInv(i)'
    PROVE  StoreInv'
<1>1. ASSUME NEW j \in Keys, j # i PROVE KeyInv(j)'
  <2>1. KeyInv(j) /\ (j \in drawn <=> j \in drawn')
    BY <1>1 DEF StoreInv
  <2>2. /\ hash'[j] = hash[j]
        /\ age'[j] = age[j]
        /\ answered'[j] = answered[j]
        /\ unanswered'[j] = unanswered[j]
    BY <1>1
  <2> QED
    BY <2>1, <2>2, Zenon DEF KeyInv
<1>2. \A j \in Keys : KeyInv(j)'
  BY <1>1
<1> QED
  BY <1>2, Zenon DEF StoreInv

LEMMA SpendRanStore ==
    ASSUME RInv, NEW w \in Workers, SpendRan(w)
    PROVE  /\ StoreInv'
           /\ worker[w].id \in Keys
           /\ hash[worker[w].id] \in Session
           /\ hash[worker[w].id].left > 0
           /\ hash[worker[w].id].policy = worker[w].policy
           /\ hash'[worker[w].id] \in Session
           /\ hash'[worker[w].id].left = hash[worker[w].id].left - 1
           /\ hash'[worker[w].id].policy = worker[w].policy
<1>1. PICK i \in Keys, p \in Policies : i = worker[w].id /\ p = worker[w].policy
  BY DEF SpendRan, RInv, WorkerInv, Sound
<1> DEFINE s == hash[i]
           t == AfterScript(s)
<1>2. s \in Session /\ s.policy = p /\ s.left > 0
  BY <1>1 DEF SpendRan, Spendable, Covers, RInv, StoreInv
<1>3. s.left \in Nat /\ s.life \in Nat
  BY <1>2 DEF Session
<1>4. t \in Session /\ t.policy = p /\ t.left = s.left - 1 /\ t.life = s.life
  BY <1>2, <1>3 DEF AfterScript, Session
<1>5. s # NoSession
  BY <1>2, IsSession
<1>6. /\ hash' = [hash EXCEPT ![i] = t]
      /\ age' = age
      /\ drawn' = drawn
      /\ \/ answered' = [answered EXCEPT ![i][p] = @ + 1] /\ unanswered' = unanswered
         \/ unanswered' = [unanswered EXCEPT ![i][p] = @ + 1] /\ answered' = answered
  BY <1>1 DEF SpendRan
<1>7. /\ StoreInv
      /\ hash \in [Keys -> Session \cup {NoSession}]
      /\ age \in [Keys -> Nat]
  BY DEF RInv, StoreInv
<1>8. answered \in [Keys -> [Policies -> Nat]] /\ unanswered \in [Keys -> [Policies -> Nat]]
  BY DEF RInv, StoreInv
<1>9. KeyInv(i)
  BY <1>1, <1>7 DEF StoreInv
<1>10. i \in drawn
  BY <1>5, <1>9 DEF KeyInv
<1>11. /\ s.life > 0
       /\ s.life + age[i] = DURATION[p]
       /\ \A q \in Policies :
             answered[i][q] + unanswered[i][q] = IF q = p THEN QUOTA[q] - s.left ELSE 0
  BY <1>2, <1>5, <1>9 DEF KeyInv
<1> HIDE DEF s, t
<1>12. hash'[i] = t
  BY <1>1, <1>6, <1>7
<1>13. \A q \in Policies :
          answered'[i][q] + unanswered'[i][q] =
             IF q = p THEN answered[i][q] + unanswered[i][q] + 1
             ELSE answered[i][q] + unanswered[i][q]
  <2>1. CASE answered' = [answered EXCEPT ![i][p] = @ + 1] /\ unanswered' = unanswered
    BY <1>1, <1>8, <2>1
  <2>2. CASE unanswered' = [unanswered EXCEPT ![i][p] = @ + 1] /\ answered' = answered
    BY <1>1, <1>8, <2>2
  <2> QED
    BY <1>6, <2>1, <2>2
<1>14. \A q \in Policies :
          answered'[i][q] + unanswered'[i][q] = IF q = p THEN QUOTA[q] - t.left ELSE 0
  <2> SUFFICES ASSUME NEW q \in Policies
               PROVE  answered'[i][q] + unanswered'[i][q] =
                         IF q = p THEN QUOTA[q] - t.left ELSE 0
    OBVIOUS
  <2>1. QUOTA[q] \in Nat
    BY TierAssumption
  <2> QED
    BY <1>3, <1>4, <1>11, <1>13, <2>1
<1>15. KeyInv(i)'
  BY <1>4, <1>6, <1>10, <1>11, <1>12, <1>14 DEF KeyInv
<1>16. hash' \in [Keys -> Session \cup {NoSession}]
  BY <1>1, <1>4, <1>6, <1>7
<1>17. /\ answered' \in [Keys -> [Policies -> Nat]]
       /\ unanswered' \in [Keys -> [Policies -> Nat]]
  <2>1. \A f \in [Keys -> [Policies -> Nat]] :
           [f EXCEPT ![i][p] = @ + 1] \in [Keys -> [Policies -> Nat]]
    BY <1>1
  <2> QED
    BY <1>6, <1>8, <2>1
<1>18. \A j \in Keys \ {i} : /\ hash'[j] = hash[j]
                             /\ age'[j] = age[j]
                             /\ answered'[j] = answered[j]
                             /\ unanswered'[j] = unanswered[j]
  BY <1>1, <1>6, <1>7, <1>8
<1>19. StoreInv'
  BY <1>1, <1>6, <1>7, <1>15, <1>16, <1>17, <1>18, StoreOne
<1> QED
  BY <1>1, <1>2, <1>4, <1>12, <1>19 DEF s

LEMMA StoredFacts ==
    ASSUME NEW q \in Policies
    PROVE  /\ Stored(q) \in Session
           /\ Stored(q).policy = q
           /\ Stored(q).left = QUOTA[q]
           /\ Stored(q).life = DURATION[q]
           /\ DURATION[q] \in Nat /\ DURATION[q] > 0
           /\ QUOTA[q] \in Nat
  BY TierAssumption DEF Stored, NewSession, Session

LEMMA MintsStore ==
    ASSUME RInv, NEW w \in Workers, Mints(w)
    PROVE  /\ StoreInv'
           /\ worker[w].policy \in Policies
           /\ \/ \E i \in Keys \ drawn :
                    /\ hash' = [hash EXCEPT ![i] = Stored(worker[w].policy)]
                    /\ drawn' = drawn \cup {i}
              \/ UNCHANGED <<hash, drawn>>
<1> DEFINE q == worker[w].policy
<1>1. q \in Policies
  BY DEF Mints, RInv, WorkerInv, Sound, AtWork
<1>2. age' = age /\ answered' = answered /\ unanswered' = unanswered
  BY DEF Mints, counters
<1>3. CASE UNCHANGED <<hash, drawn>>
  BY <1>1, <1>2, <1>3, StoreSame DEF RInv
<1>4. CASE \E i \in Keys \ drawn :
              hash' = [hash EXCEPT ![i] = Stored(q)] /\ drawn' = drawn \cup {i}
  <2>1. PICK i \in Keys \ drawn :
           hash' = [hash EXCEPT ![i] = Stored(q)] /\ drawn' = drawn \cup {i}
    BY <1>4
  <2> DEFINE s == Stored(q)
  <2>2. /\ s \in Session /\ s.policy = q /\ s.left = QUOTA[q] /\ s.life = DURATION[q]
        /\ DURATION[q] \in Nat /\ DURATION[q] > 0 /\ QUOTA[q] \in Nat
    BY <1>1, StoredFacts
  <2> HIDE DEF s
  <2>3. StoreInv /\ KeyInv(i) /\ hash \in [Keys -> Session \cup {NoSession}]
    BY DEF RInv, StoreInv
  <2>4. age[i] = 0 /\ \A r \in Policies : answered[i][r] = 0 /\ unanswered[i][r] = 0
    BY <2>1, <2>3 DEF KeyInv
  <2>5. hash'[i] = s /\ \A j \in Keys \ {i} : hash'[j] = hash[j]
    BY <2>1, <2>3 DEF s
  <2>6. KeyInv(i)'
    BY <1>2, <2>1, <2>2, <2>4, <2>5 DEF KeyInv
  <2>7. hash' \in [Keys -> Session \cup {NoSession}]
    BY <2>1, <2>2, <2>3 DEF s
  <2>8. StoreInv'
    <3>1. /\ age' \in [Keys -> Nat]
          /\ answered' \in [Keys -> [Policies -> Nat]]
          /\ unanswered' \in [Keys -> [Policies -> Nat]]
      BY <1>2, <2>3 DEF StoreInv
    <3> QED
      BY <1>2, <2>1, <2>3, <2>5, <2>6, <2>7, <3>1, StoreOne
  <2> QED
    BY <1>1, <2>1, <2>8
<1> QED
  BY <1>3, <1>4 DEF Mints

\* What a second does to a stored session: gone, or the same a second shorter.
LEMMA ExpiredFacts ==
    ASSUME NEW s \in Session, s.life > 0
    PROVE  \/ s.life = 1 /\ Expired(s) = NoSession
           \/ /\ Expired(s) \in Session
              /\ Expired(s).policy = s.policy
              /\ Expired(s).left = s.left
              /\ Expired(s).life = s.life - 1
              /\ Expired(s).life > 0
  BY DEF Expired, Shorter, Session

LEMMA ExpiredNothing == Expired(NoSession) = NoSession
  BY DEF Expired, Shorter, NoSession

LEMMA SecondStore ==
    ASSUME StoreInv, Second
    PROVE  /\ StoreInv'
           /\ \A i \in Keys :
                 \/ hash'[i] = NoSession
                 \/ /\ hash[i] \in Session
                    /\ hash'[i] \in Session
                    /\ hash'[i].policy = hash[i].policy
                    /\ hash'[i].left = hash[i].left
<1>1. /\ hash \in [Keys -> Session \cup {NoSession}]
      /\ age \in [Keys -> Nat]
      /\ \A i \in Keys : KeyInv(i)
  BY DEF StoreInv
<1>2. /\ \A i \in Keys : hash'[i] = Expired(hash[i])
      /\ \A i \in Keys : age'[i] = IF hash'[i] = NoSession THEN 0 ELSE age[i] + 1
      /\ UNCHANGED <<drawn, answered, unanswered>>
  BY DEF Second, counters
<1>3. ASSUME NEW i \in Keys
      PROVE  \/ hash'[i] = NoSession
             \/ /\ hash[i] \in Session
                /\ hash'[i] \in Session
                /\ hash'[i].policy = hash[i].policy
                /\ hash'[i].left = hash[i].left
                /\ hash'[i].life = hash[i].life - 1
                /\ hash'[i].life > 0
  <2>1. CASE hash[i] = NoSession
    BY <1>2, <2>1, ExpiredNothing
  <2>2. CASE hash[i] # NoSession
    <3>1. hash[i] \in Session /\ hash[i].life > 0
      BY <1>1, <2>2 DEF KeyInv
    <3> QED
      BY <1>2, <3>1, ExpiredFacts
  <2> QED
    BY <2>1, <2>2
<1>4. hash' \in [Keys -> Session \cup {NoSession}]
  <2>1. hash' = [i \in Keys |-> Expired(hash[i])]
    BY DEF Second
  <2>2. \A i \in Keys : Expired(hash[i]) \in Session \cup {NoSession}
    BY <1>2, <1>3
  <2> QED
    BY <2>1, <2>2
<1>5. age' \in [Keys -> Nat]
  <2>1. age' = [i \in Keys |-> IF hash'[i] = NoSession THEN 0 ELSE age[i] + 1]
    BY DEF Second
  <2> QED
    BY <1>1, <2>1
<1>6. ASSUME NEW i \in Keys PROVE KeyInv(i)'
  <2>1. KeyInv(i)
    BY <1>1
  <2>2. CASE hash'[i] = NoSession
    BY <1>2, <2>1, <2>2 DEF KeyInv
  <2>3. CASE hash'[i] # NoSession
    <3>1. /\ hash[i] \in Session
          /\ hash'[i] \in Session
          /\ hash'[i].policy = hash[i].policy
          /\ hash'[i].left = hash[i].left
          /\ hash'[i].life = hash[i].life - 1
          /\ hash'[i].life > 0
      BY <1>3, <2>3
    <3>2. hash[i] # NoSession
      BY <3>1, IsSession
    <3>3. i \in drawn'
      BY <1>2, <2>1, <3>2 DEF KeyInv
    <3>4. hash[i].life \in Nat /\ age[i] \in Nat /\ age'[i] = age[i] + 1
      BY <1>1, <1>2, <2>3, <3>1 DEF Session
    <3>5. hash[i].life + age[i] = DURATION[hash[i].policy]
      BY <2>1, <3>2 DEF KeyInv
    <3>6. hash'[i].life + age'[i] = DURATION[hash'[i].policy]
      BY <3>1, <3>4, <3>5
    <3> QED
      BY <1>2, <2>1, <3>1, <3>2, <3>3, <3>6 DEF KeyInv
  <2> QED
    BY <2>2, <2>3
<1>7. StoreInv'
  BY <1>2, <1>4, <1>5, <1>6 DEF StoreInv
<1> QED
  BY <1>3, <1>7

LEMMA LoseStore ==
    ASSUME StoreInv, LoseKeys
    PROVE  /\ StoreInv'
           /\ \A i \in Keys : hash'[i] \in {hash[i], NoSession}
<1>1. PICK S \in SUBSET Keys : hash' = [i \in Keys |-> IF i \in S THEN NoSession ELSE hash[i]]
  BY DEF LoseKeys
<1>2. UNCHANGED <<age, drawn, answered, unanswered>>
  BY DEF LoseKeys, counters
<1>3. hash' \in [Keys -> Session \cup {NoSession}]
  BY <1>1 DEF StoreInv
<1>4. \A i \in Keys : hash'[i] \in {hash[i], NoSession}
  BY <1>1
<1>5. ASSUME NEW i \in Keys PROVE KeyInv(i)'
  <2>1. KeyInv(i)
    BY DEF StoreInv
  <2>2. CASE hash'[i] = NoSession
    BY <1>2, <2>1, <2>2 DEF KeyInv
  <2>3. CASE hash'[i] = hash[i]
    BY <1>2, <2>1, <2>3, Zenon DEF KeyInv
  <2> QED
    BY <1>4, <2>2, <2>3
<1> QED
  BY <1>2, <1>3, <1>4, <1>5 DEF StoreInv

-----------------------------------------------------------------------------
(* Claims *)

\* Requests end, or come in, and the claims of those still at work are kept.
LEMMA RestStep ==
    ASSUME RInv,
           \A g \in Workers : worker'[g] = worker[g] \/ worker'[g].pc \notin AtWork,
           marker' \in [Bought -> Nat],
           losses = 0 =>
              \A g \in Workers :
                 Working(g) /\ worker'[g] = worker[g] =>
                    marker'[worker[g].pay] = marker[worker[g].pay],
           granted' = granted,
           losses' = losses,
           landed \subseteq landed'
    PROVE  ClaimInv'
<1>1. ClaimInv
  BY DEF RInv
<1>2. granted' \in [Bought -> Nat] /\ losses' \in Nat
  BY <1>1 DEF ClaimInv
<1>3. \A p \in Bought : granted'[p] > 0 => p \in landed'
  BY <1>1 DEF ClaimInv
<1>4. \A g \in Workers : worker'[g].pc = "mint" => worker'[g].pay \in landed'
  BY <1>1 DEF ClaimInv, AtWork
<1>5. ASSUME losses = 0 PROVE Exclusive'
  <2>1. Exclusive
    BY <1>1, <1>5 DEF ClaimInv
  <2>2. \A p \in Bought : granted'[p] <= 1
    BY <2>1 DEF Exclusive
  <2>3. ASSUME NEW g \in Workers, worker'[g].pc \in AtWork
        PROVE  /\ worker'[g] = worker[g]
               /\ worker[g].pc \in AtWork
               /\ marker'[worker[g].pay] + worker[g].held = CLAIM_TTL
    <3>1. worker'[g] = worker[g] /\ worker[g].pc \in AtWork
      BY <2>3
    <3>2. marker'[worker[g].pay] = marker[worker[g].pay]
      BY <1>5, <3>1 DEF Working
    <3>3. marker[worker[g].pay] + worker[g].held = CLAIM_TTL
      BY <2>1, <3>1 DEF Exclusive, Working
    <3> QED
      BY <3>1, <3>2, <3>3
  <2>4. \A g \in Workers :
           worker'[g].pc \in AtWork =>
              marker'[worker'[g].pay] + worker'[g].held = CLAIM_TTL
    BY <2>3
  <2>5. \A g, h \in Workers :
           (worker'[g].pc \in AtWork /\ worker'[h].pc \in AtWork
              /\ worker'[g].pay = worker'[h].pay) => g = h
    BY <2>1, <2>3 DEF Exclusive, Working
  <2>6. \A g \in Workers :
           worker'[g].pc \in {"execute", "mint"} => granted'[worker'[g].pay] = 0
    BY <2>1, <2>3 DEF Exclusive, AtWork
  <2> QED
    BY <2>2, <2>4, <2>5, <2>6 DEF Exclusive, Working
<1> QED
  BY <1>2, <1>3, <1>4, <1>5 DEF ClaimInv

\* The claim of a payment somebody is working on has not expired.
LEMMA HeldIsClaimed ==
    ASSUME RInv, losses = 0, NEW w \in Workers, Working(w)
    PROVE  marker[worker[w].pay] > 0
<1>1. worker[w] \in Worker /\ worker[w].pay \in Bought
  BY DEF RInv, WorkerInv, Sound, Working
<1>2. worker[w].held \in 0 .. MaxWork
  BY <1>1 DEF Worker
<1>3. marker[worker[w].pay] \in Nat
  BY <1>1 DEF RInv, ClaimInv
<1>4. marker[worker[w].pay] + worker[w].held = CLAIM_TTL
  BY DEF RInv, ClaimInv, Exclusive
<1> QED
  BY <1>2, <1>3, <1>4, RedisAssumption

\* CLAIM_SCRIPT, its answer received or lost.
LEMMA ClaimedStep ==
    ASSUME RInv, NEW w \in Workers, Claimed(w)
    PROVE  WorkerInv' /\ ClaimInv'
<1>0. WorkerInv /\ ClaimInv
  BY DEF RInv
<1>1. PICK p \in Bought : p = worker[w].pay
  BY <1>0 DEF Claimed, WorkerInv, Sound
<1>2. worker[w].pc = "claim" /\ worker[w].held = 0 /\ marker[p] = 0
  BY <1>0, <1>1 DEF Claimed, Unclaimed, WorkerInv, Sound, AtWork
<1>3. /\ marker' = [marker EXCEPT ![p] = CLAIM_TTL]
      /\ granted' = granted /\ losses' = losses /\ landed' = landed
  BY <1>1 DEF Claimed
<1>4. marker \in [Bought -> Nat]
  BY <1>0 DEF ClaimInv
<1>5. /\ marker' \in [Bought -> Nat]
      /\ marker'[p] = CLAIM_TTL
      /\ \A x \in Bought : x # p => marker'[x] = marker[x]
  BY <1>3, <1>4, RedisAssumption
<1>6. ASSUME losses = 0, NEW g \in Workers, Working(g)
      PROVE  worker[g].pay # p /\ marker'[worker[g].pay] = marker[worker[g].pay]
  <2>1. marker[worker[g].pay] > 0
    BY <1>6, HeldIsClaimed
  <2>2. worker[g].pay # p
    BY <1>2, <2>1
  <2>3. worker[g].pay \in Bought
    BY <1>0, <1>6 DEF WorkerInv, Sound, Working
  <2> QED
    BY <1>5, <2>2, <2>3
<1>7. CASE Done(w)
  <2>1. WorkerInv' /\ \A g \in Workers : worker'[g] = IF g = w THEN IdleWorker ELSE worker[g]
    BY <1>0, <1>7, DoneWorker
  <2>2. IdleWorker.pc \notin AtWork
    BY DEF IdleWorker, AtWork
  <2>3. \A g \in Workers : worker'[g] = worker[g] \/ worker'[g].pc \notin AtWork
    BY <2>1, <2>2
  <2>4. ClaimInv'
    BY <1>3, <1>5, <1>6, <2>3, RestStep
  <2> QED
    BY <2>1, <2>4
<1>8. CASE Go(w, "verify")
  <2>1. /\ WorkerInv'
        /\ \A g \in Workers : g # w => worker'[g] = worker[g]
        /\ worker'[w].pc = "verify"
        /\ worker'[w].pay = p
        /\ worker'[w].held = 0
    BY <1>0, <1>1, <1>2, <1>8, GoWorker DEF AtWork
  <2>2. ASSUME losses = 0 PROVE Exclusive'
    <3>1. Exclusive
      BY <1>0, <2>2 DEF ClaimInv
    <3>2. \A x \in Bought : granted'[x] <= 1
      BY <1>3, <3>1 DEF Exclusive
    <3>3. ASSUME NEW g \in Workers, worker'[g].pc \in AtWork, g # w
          PROVE  /\ worker'[g] = worker[g]
                 /\ Working(g)
                 /\ worker[g].pay # p
                 /\ marker'[worker[g].pay] + worker[g].held = CLAIM_TTL
      <4>1. worker'[g] = worker[g] /\ Working(g)
        BY <2>1, <3>3 DEF Working
      <4>2. worker[g].pay # p /\ marker'[worker[g].pay] = marker[worker[g].pay]
        BY <1>6, <2>2, <4>1
      <4>3. marker[worker[g].pay] + worker[g].held = CLAIM_TTL
        BY <3>1, <4>1 DEF Exclusive
      <4> QED
        BY <4>1, <4>2, <4>3
    <3>4. \A g \in Workers :
             worker'[g].pc \in AtWork =>
                marker'[worker'[g].pay] + worker'[g].held = CLAIM_TTL
      <4>1. marker'[p] + 0 = CLAIM_TTL
        BY <1>5, RedisAssumption
      <4> QED
        BY <2>1, <3>3, <4>1
    <3>5. \A g, h \in Workers :
             (worker'[g].pc \in AtWork /\ worker'[h].pc \in AtWork
                /\ worker'[g].pay = worker'[h].pay) => g = h
      BY <2>1, <3>1, <3>3 DEF Exclusive
    <3>6. \A g \in Workers :
             worker'[g].pc \in {"execute", "mint"} => granted'[worker'[g].pay] = 0
      BY <1>3, <2>1, <3>1, <3>3 DEF Exclusive, AtWork
    <3> QED
      BY <3>2, <3>4, <3>5, <3>6 DEF Exclusive, Working
  <2>3. \A g \in Workers : worker'[g].pc = "mint" => worker'[g].pay \in landed'
    BY <1>0, <1>3, <2>1 DEF ClaimInv
  <2>4. ClaimInv'
    BY <1>0, <1>3, <1>5, <2>2, <2>3 DEF ClaimInv
  <2> QED
    BY <2>1, <2>4
<1> QED
  BY <1>7, <1>8 DEF Claimed

\* A request goes on with its payment: verified again, or broadcast.
LEMMA AdvanceStep ==
    ASSUME RInv, NEW w \in Workers, NEW pc \in {"execute", "mint"}, Go(w, pc),
           worker[w].pc \in {"verify", "execute"},
           marker' = marker, granted' = granted, losses' = losses,
           landed \subseteq landed',
           pc = "mint" => worker[w].pay \in landed',
           losses = 0 => granted[worker[w].pay] = 0
    PROVE  WorkerInv' /\ ClaimInv'
<1>0. WorkerInv /\ ClaimInv
  BY DEF RInv
<1>1. pc \in AtWork /\ worker[w].pc \in AtWork
  BY DEF AtWork
<1>2. /\ WorkerInv'
      /\ \A g \in Workers : g # w => worker'[g] = worker[g]
      /\ worker'[w].pc = pc
      /\ worker'[w].pay = worker[w].pay
      /\ worker'[w].held = worker[w].held
  BY <1>0, <1>1, GoWorker
<1>3. \A g \in Workers : /\ worker'[g].pay = worker[g].pay
                         /\ worker'[g].held = worker[g].held
                         /\ worker'[g].pc \in AtWork <=> worker[g].pc \in AtWork
  BY <1>1, <1>2
<1>4. ASSUME losses = 0 PROVE Exclusive'
  <2>1. Exclusive
    BY <1>0, <1>4 DEF ClaimInv
  <2>2. \A p \in Bought : granted'[p] <= 1
    BY <2>1 DEF Exclusive
  <2>3. \A g \in Workers :
           worker'[g].pc \in AtWork =>
              marker'[worker'[g].pay] + worker'[g].held = CLAIM_TTL
    BY <1>3, <2>1 DEF Exclusive, Working
  <2>4. \A g, h \in Workers :
           (worker'[g].pc \in AtWork /\ worker'[h].pc \in AtWork
              /\ worker'[g].pay = worker'[h].pay) => g = h
    BY <1>3, <2>1 DEF Exclusive, Working
  <2>5. \A g \in Workers :
           worker'[g].pc \in {"execute", "mint"} => granted'[worker'[g].pay] = 0
    BY <1>2, <1>4, <2>1 DEF Exclusive
  <2> QED
    BY <2>2, <2>3, <2>4, <2>5 DEF Exclusive, Working
<1>5. \A g \in Workers : worker'[g].pc = "mint" => worker'[g].pay \in landed'
  BY <1>0, <1>2 DEF ClaimInv
<1>6. ClaimInv'
  BY <1>0, <1>4, <1>5 DEF ClaimInv
<1> QED
  BY <1>2, <1>6

\* create_session gives out the token of a payment that landed and, while the
\* server keeps its keys, has bought none before.
LEMMA GrantStep ==
    ASSUME RInv, NEW w \in Workers, worker[w].pc = "mint", Done(w),
           granted' = [granted EXCEPT ![worker[w].pay] = IF @ = 0 THEN 1 ELSE 2],
           marker' = marker, losses' = losses, landed' = landed
    PROVE  WorkerInv' /\ ClaimInv'
<1>0. WorkerInv /\ ClaimInv
  BY DEF RInv
<1>1. PICK p \in Bought : p = worker[w].pay
  BY <1>0 DEF WorkerInv, Sound, AtWork
<1>2. WorkerInv' /\ \A g \in Workers : worker'[g] = IF g = w THEN IdleWorker ELSE worker[g]
  BY <1>0, DoneWorker
<1>3. IdleWorker.pc = "idle" /\ "idle" \notin AtWork
  BY DEF IdleWorker, AtWork
<1>4. granted \in [Bought -> Nat] /\ p \in landed
  BY <1>0, <1>1 DEF ClaimInv
<1>5. /\ granted' \in [Bought -> Nat]
      /\ granted'[p] = IF granted[p] = 0 THEN 1 ELSE 2
      /\ \A x \in Bought : x # p => granted'[x] = granted[x]
  BY <1>1, <1>4
<1>6. \A x \in Bought : granted'[x] > 0 => x \in landed'
  BY <1>0, <1>4, <1>5 DEF ClaimInv
<1>7. \A g \in Workers : worker'[g].pc = "mint" => worker'[g].pay \in landed'
  BY <1>0, <1>2, <1>3 DEF ClaimInv
<1>8. ASSUME losses = 0 PROVE Exclusive'
  <2>1. Exclusive /\ Working(w)
    BY <1>0, <1>8 DEF ClaimInv, Working, AtWork
  <2>2. granted[p] = 0
    BY <1>1, <2>1 DEF Exclusive
  <2>3. \A x \in Bought : granted'[x] <= 1
    BY <1>5, <2>1, <2>2 DEF Exclusive
  <2>4. ASSUME NEW g \in Workers, worker'[g].pc \in AtWork
        PROVE  worker'[g] = worker[g] /\ Working(g) /\ g # w
    BY <1>2, <1>3, <2>4 DEF Working
  <2>5. \A g \in Workers :
           worker'[g].pc \in AtWork =>
              marker'[worker'[g].pay] + worker'[g].held = CLAIM_TTL
    BY <2>1, <2>4 DEF Exclusive
  <2>6. \A g, h \in Workers :
           (worker'[g].pc \in AtWork /\ worker'[h].pc \in AtWork
              /\ worker'[g].pay = worker'[h].pay) => g = h
    BY <2>1, <2>4 DEF Exclusive
  <2>7. ASSUME NEW g \in Workers, worker'[g].pc \in {"execute", "mint"}
        PROVE  granted'[worker'[g].pay] = 0
    <3>1. worker'[g] = worker[g] /\ Working(g) /\ g # w
      BY <2>4, <2>7 DEF AtWork
    <3>2. worker[g].pay # p /\ granted[worker[g].pay] = 0
      BY <1>1, <2>1, <2>7, <3>1 DEF Exclusive
    <3>3. worker[g].pay \in Bought
      BY <1>0, <3>1 DEF WorkerInv, Sound, Working
    <3> QED
      BY <1>5, <3>1, <3>2, <3>3
  <2> QED
    BY <2>3, <2>5, <2>6, <2>7 DEF Exclusive, Working
<1>9. marker' \in [Bought -> Nat] /\ losses' \in Nat
  BY <1>0 DEF ClaimInv
<1>10. ClaimInv'
  BY <1>5, <1>6, <1>7, <1>8, <1>9 DEF ClaimInv
<1> QED
  BY <1>2, <1>10

\* A second passes for the claims and for those who hold them.
LEMMA SecondStep ==
    ASSUME RInv, Second
    PROVE  WorkerInv' /\ ClaimInv'
<1>0. WorkerInv /\ ClaimInv
  BY DEF RInv
<1>1. ASSUME NEW w \in Workers
      PROVE  /\ worker'[w] \in Worker
             /\ worker'[w].pc = worker[w].pc
             /\ worker'[w].id = worker[w].id
             /\ worker'[w].policy = worker[w].policy
             /\ worker'[w].pay = worker[w].pay
             /\ worker'[w].held = IF Working(w) THEN worker[w].held + 1 ELSE worker[w].held
  <2>1. worker[w] \in Worker
    BY <1>0 DEF WorkerInv
  <2>2. CASE Working(w)
    <3>1. worker'[w] = [worker[w] EXCEPT !.held = @ + 1]
      BY <2>2 DEF Second, Working
    <3>2. worker[w].held \in 0 .. MaxWork /\ worker[w].held < MaxWork
      BY <2>1, <2>2 DEF Second, Working, Worker
    <3>3. worker[w].held + 1 \in 0 .. MaxWork
      BY <3>2, RedisAssumption
    <3> QED
      BY <2>1, <2>2, <3>1, <3>3 DEF Worker
  <2>3. CASE ~Working(w)
    <3>1. worker'[w] = worker[w]
      BY <2>3 DEF Second, Working
    <3> QED
      BY <2>1, <2>3, <3>1
  <2> QED
    BY <2>2, <2>3
<1>2. worker' \in [Workers -> Worker]
  <2>1. worker' = [w \in Workers |-> worker'[w]]
    BY DEF Second
  <2> QED
    BY <1>1, <2>1
<1>3. \A w \in Workers : Sound(worker'[w])
  BY <1>0, <1>1 DEF WorkerInv, Sound, Working
<1>4. WorkerInv'
  BY <1>2, <1>3, Zenon DEF WorkerInv, Sound
<1>5. /\ \A p \in Bought : marker'[p] = IF marker[p] = 0 THEN 0 ELSE marker[p] - 1
      /\ granted' = granted /\ losses' = losses /\ landed' = landed
  BY DEF Second
<1>6. marker' \in [Bought -> Nat]
  <2>1. marker' = [p \in Bought |-> IF marker[p] = 0 THEN 0 ELSE marker[p] - 1]
    BY DEF Second
  <2> QED
    BY <1>0, <2>1 DEF ClaimInv
<1>7. ASSUME losses = 0 PROVE Exclusive'
  <2>1. Exclusive
    BY <1>0, <1>7 DEF ClaimInv
  <2>2. \A p \in Bought : granted'[p] <= 1
    BY <1>5, <2>1 DEF Exclusive
  <2>3. ASSUME NEW w \in Workers, worker'[w].pc \in AtWork
        PROVE  marker'[worker'[w].pay] + worker'[w].held = CLAIM_TTL
    <3>1. Working(w) /\ worker[w].pay \in Bought /\ worker[w].held \in 0 .. MaxWork
      BY <1>0, <1>1, <2>3 DEF Working, WorkerInv, Sound, Worker
    <3>2. marker[worker[w].pay] > 0 /\ marker[worker[w].pay] \in Nat
      BY <1>0, <1>7, <3>1, HeldIsClaimed DEF ClaimInv
    <3>3. marker[worker[w].pay] + worker[w].held = CLAIM_TTL
      BY <2>1, <3>1 DEF Exclusive
    <3>4. /\ worker'[w].pay = worker[w].pay
          /\ worker'[w].held = worker[w].held + 1
          /\ marker'[worker[w].pay] = marker[worker[w].pay] - 1
      BY <1>1, <1>5, <3>1, <3>2
    <3> QED
      BY <3>1, <3>2, <3>3, <3>4, RedisAssumption
  <2>4. \A v, w \in Workers :
           (worker'[v].pc \in AtWork /\ worker'[w].pc \in AtWork
              /\ worker'[v].pay = worker'[w].pay) => v = w
    BY <1>1, <2>1 DEF Exclusive, Working
  <2>5. \A w \in Workers :
           worker'[w].pc \in {"execute", "mint"} => granted'[worker'[w].pay] = 0
    BY <1>1, <1>5, <2>1 DEF Exclusive
  <2> QED
    BY <2>2, <2>3, <2>4, <2>5 DEF Exclusive, Working
<1>8. \A w \in Workers : worker'[w].pc = "mint" => worker'[w].pay \in landed'
  BY <1>0, <1>1, <1>5 DEF ClaimInv
<1>9. ClaimInv'
  BY <1>0, <1>5, <1>6, <1>7, <1>8 DEF ClaimInv
<1> QED
  BY <1>4, <1>9

\* Once the server has lost a key, nothing is promised about claims.
LEMMA LoseStep ==
    ASSUME RInv, LoseKeys
    PROVE  WorkerInv' /\ ClaimInv'
<1>0. WorkerInv /\ ClaimInv
  BY DEF RInv
<1>1. /\ UNCHANGED <<worker, granted, landed>>
      /\ losses' = losses + 1
      /\ losses \in Nat
  BY <1>0 DEF LoseKeys, ClaimInv
<1>2. marker' \in [Bought -> Nat]
  <2>1. PICK T : marker' = [p \in Bought |-> IF p \in T THEN 0 ELSE marker[p]]
    BY DEF LoseKeys
  <2> QED
    BY <1>0, <2>1 DEF ClaimInv
<1>3. losses' \in Nat /\ losses' # 0
  BY <1>1
<1>4. ClaimInv'
  BY <1>0, <1>1, <1>2, <1>3 DEF ClaimInv
<1>5. WorkerInv'
  BY <1>0, <1>1, Zenon DEF WorkerInv, Sound
<1> QED
  BY <1>4, <1>5

-----------------------------------------------------------------------------
(* The invariant *)

LEMMA InitRInv == RedisInit => RInv
<1> SUFFICES ASSUME RedisInit PROVE RInv
  OBVIOUS
<1>1. WorkerInv
  BY IdleFacts DEF RedisInit, WorkerInv
<1>2. StoreInv
  BY DEF RedisInit, StoreInv, KeyInv
<1>3. ClaimInv
  <2>1. \A w \in Workers : worker[w].pc = "idle"
    BY IdleFacts DEF RedisInit
  <2>2. Exclusive
    BY <2>1 DEF RedisInit, Exclusive, Working, AtWork
  <2> QED
    BY <2>1, <2>2 DEF RedisInit, ClaimInv
<1> QED
  BY <1>1, <1>2, <1>3 DEF RInv

\* A request ends where it is, or comes in, and the stores do not change.
LEMMA QuietStep ==
    ASSUME RInv, NEW w \in Workers, NEW x \in Worker, Sound(x), x.pc \notin AtWork,
           worker' = [worker EXCEPT ![w] = x],
           UNCHANGED <<hash, age, drawn, answered, unanswered>>,
           UNCHANGED <<marker, granted, losses>>,
           landed \subseteq landed'
    PROVE  RInv'
<1>1. WorkerInv' /\ \A g \in Workers : worker'[g] = IF g = w THEN x ELSE worker[g]
  BY OneWorker DEF RInv
<1>2. StoreInv'
  BY StoreSame DEF RInv
<1>3. marker' \in [Bought -> Nat]
  BY DEF RInv, ClaimInv
<1>4. ClaimInv'
  BY <1>1, <1>3, RestStep
<1> QED
  BY <1>1, <1>2, <1>4 DEF RInv

LEMMA WorkerRInv ==
    ASSUME RInv, NEW w \in Workers, WorkerStep(w)
    PROVE  RInv'
<1>0. WorkerInv /\ StoreInv /\ ClaimInv
  BY DEF RInv
<1>1. CASE SpendRefused(w) \/ ClaimRefused(w)
  <2>1. worker' = [worker EXCEPT ![w] = IdleWorker]
    BY <1>1 DEF SpendRefused, ClaimRefused, Done
  <2>2. /\ UNCHANGED <<hash, age, drawn, answered, unanswered>>
        /\ UNCHANGED <<marker, granted, losses>>
        /\ landed' = landed
    BY <1>1 DEF SpendRefused, ClaimRefused, storeVars, counters
  <2> QED
    BY <2>1, <2>2, IdleFacts, QuietStep DEF AtWork
<1>2. CASE SpendRan(w)
  <2>1. StoreInv'
    BY <1>2, SpendRanStore
  <2>2. WorkerInv' /\ \A g \in Workers : worker'[g] = IF g = w THEN IdleWorker ELSE worker[g]
    BY <1>0, <1>2, DoneWorker DEF SpendRan
  <2>3. UNCHANGED <<marker, granted, losses, landed>>
    BY <1>2 DEF SpendRan
  <2>4. marker' \in [Bought -> Nat]
    BY <1>0, <2>3 DEF ClaimInv
  <2>5. \A g \in Workers : worker'[g] = worker[g] \/ worker'[g].pc \notin AtWork
    BY <2>2, IdleFacts DEF AtWork
  <2>6. ClaimInv'
    BY <2>3, <2>4, <2>5, RestStep
  <2> QED
    BY <2>1, <2>2, <2>6 DEF RInv
<1>3. CASE Claimed(w)
  <2>1. WorkerInv' /\ ClaimInv'
    BY <1>3, ClaimedStep
  <2>2. UNCHANGED <<hash, age, drawn, answered, unanswered>>
    BY <1>3 DEF Claimed, counters
  <2> QED
    BY <1>0, <2>1, <2>2, StoreSame DEF RInv
<1>4. CASE GivesBack(w)
  <2>1. PICK p \in Bought : p = worker[w].pay
    BY <1>0, <1>4 DEF GivesBack, WorkerInv, Sound, AtWork
  <2>2. WorkerInv' /\ \A g \in Workers : worker'[g] = IF g = w THEN IdleWorker ELSE worker[g]
    BY <1>0, <1>4, DoneWorker DEF GivesBack
  <2>3. \A g \in Workers : worker'[g] = worker[g] \/ worker'[g].pc \notin AtWork
    BY <2>2, IdleFacts DEF AtWork
  <2>4. /\ UNCHANGED <<hash, age, drawn, answered, unanswered>>
        /\ UNCHANGED <<granted, losses, landed>>
        /\ marker' = [marker EXCEPT ![p] = 0] \/ marker' = marker
    BY <1>4, <2>1 DEF GivesBack, counters
  <2>5. marker \in [Bought -> Nat]
    BY <1>0 DEF ClaimInv
  <2>6. marker' \in [Bought -> Nat] /\ \A x \in Bought : x # p => marker'[x] = marker[x]
    BY <2>4, <2>5
  <2>7. ASSUME losses = 0, NEW g \in Workers, Working(g), worker'[g] = worker[g]
        PROVE  marker'[worker[g].pay] = marker[worker[g].pay]
    <3>1. Working(w) /\ Exclusive
      BY <1>0, <1>4, <2>7 DEF GivesBack, Working, AtWork, ClaimInv
    <3>2. g # w
      BY <2>2, <2>7, IdleFacts DEF Working, AtWork
    <3>3. worker[g].pay # p
      BY <2>1, <2>7, <3>1, <3>2 DEF Exclusive
    <3>4. worker[g].pay \in Bought
      BY <1>0, <2>7 DEF WorkerInv, Sound, Working
    <3> QED
      BY <2>6, <3>3, <3>4
  <2>8. ClaimInv'
    BY <2>3, <2>4, <2>6, <2>7, RestStep
  <2>9. StoreInv'
    BY <1>0, <2>4, StoreSame
  <2> QED
    BY <2>2, <2>8, <2>9 DEF RInv
<1>5. CASE Reverifies(w)
  <2>1. worker[w].pay \in Bought
    BY <1>0, <1>5 DEF Reverifies, WorkerInv, Sound, AtWork
  <2>2. granted[worker[w].pay] = 0
    BY <1>0, <1>5, <2>1 DEF Reverifies, ClaimInv
  <2>3. /\ UNCHANGED <<hash, age, drawn, answered, unanswered>>
        /\ UNCHANGED <<marker, granted, losses, landed>>
    BY <1>5 DEF Reverifies, storeVars, counters
  <2>4. WorkerInv' /\ ClaimInv'
    BY <1>5, <2>2, <2>3, AdvanceStep DEF Reverifies
  <2> QED
    BY <1>0, <2>3, <2>4, StoreSame DEF RInv
<1>6. CASE Broadcasts(w)
  <2>1. /\ UNCHANGED <<hash, age, drawn, answered, unanswered>>
        /\ UNCHANGED <<marker, granted, losses>>
        /\ landed \subseteq landed'
    BY <1>6 DEF Broadcasts, storeVars, counters
  <2>2. CASE Done(w)
    <3>1. worker' = [worker EXCEPT ![w] = IdleWorker]
      BY <2>2 DEF Done
    <3> QED
      BY <2>1, <3>1, IdleFacts, QuietStep DEF AtWork
  <2>3. CASE Go(w, "mint") /\ landed' = landed \cup {worker[w].pay}
    <3>1. losses = 0 => granted[worker[w].pay] = 0
      BY <1>0, <1>6 DEF Broadcasts, ClaimInv, Exclusive
    <3>2. worker[w].pay \in landed'
      BY <2>3
    <3>3. WorkerInv' /\ ClaimInv'
      BY <1>6, <2>1, <2>3, <3>1, <3>2, AdvanceStep DEF Broadcasts
    <3> QED
      BY <1>0, <2>1, <3>3, StoreSame DEF RInv
  <2> QED
    BY <1>6, <2>2, <2>3 DEF Broadcasts
<1>7. CASE Mints(w)
  <2>1. StoreInv'
    BY <1>7, MintsStore
  <2>2. UNCHANGED <<marker, losses, landed>> /\ Done(w) /\ worker[w].pc = "mint"
    BY <1>7 DEF Mints
  <2>3. CASE granted' = granted
    <3>1. WorkerInv' /\ \A g \in Workers : worker'[g] = IF g = w THEN IdleWorker ELSE worker[g]
      BY <1>0, <2>2, DoneWorker
    <3>2. \A g \in Workers : worker'[g] = worker[g] \/ worker'[g].pc \notin AtWork
      BY <3>1, IdleFacts DEF AtWork
    <3>3. marker' \in [Bought -> Nat]
      BY <1>0, <2>2 DEF ClaimInv
    <3>4. ClaimInv'
      BY <2>2, <2>3, <3>2, <3>3, RestStep
    <3> QED
      BY <2>1, <3>1, <3>4 DEF RInv
  <2>4. CASE granted' = [granted EXCEPT ![worker[w].pay] = IF @ = 0 THEN 1 ELSE 2]
    <3>1. WorkerInv' /\ ClaimInv'
      BY <2>2, <2>4, GrantStep
    <3> QED
      BY <2>1, <3>1 DEF RInv
  <2> QED
    BY <1>7, <2>3, <2>4 DEF Mints
<1> QED
  BY <1>1, <1>2, <1>3, <1>4, <1>5, <1>6, <1>7 DEF WorkerStep

LEMMA NextRInv == RInv /\ [RedisNext]_redisVars => RInv'
<1> SUFFICES ASSUME RInv, [RedisNext]_redisVars PROVE RInv'
  OBVIOUS
<1>0. WorkerInv /\ StoreInv /\ ClaimInv
  BY DEF RInv
<1>1. ASSUME NEW w \in Workers, NEW i \in Keys, NEW q \in Policies, Presents(w, i, q)
      PROVE  RInv'
  <2> DEFINE x == [worker[w] EXCEPT !.pc = "spend", !.id = i, !.policy = q]
  <2>1. worker[w] \in Worker /\ worker[w].held = 0
    BY <1>0, <1>1 DEF Presents, WorkerInv, Sound, AtWork
  <2>2. x \in Worker /\ x.pc = "spend" /\ x.id = i /\ x.policy = q /\ x.held = 0
    BY <2>1 DEF Worker
  <2>3. worker' = [worker EXCEPT ![w] = x]
    BY <1>1 DEF Presents
  <2> HIDE DEF x
  <2>4. Sound(x) /\ x.pc \notin AtWork
    BY <2>2 DEF Sound, AtWork
  <2>5. /\ UNCHANGED <<hash, age, drawn, answered, unanswered>>
        /\ UNCHANGED <<marker, granted, losses>>
        /\ landed \subseteq landed'
    BY <1>1 DEF Presents, storeVars, counters
  <2>6. x \in Worker
    BY <2>2
  <2> QED
    BY <2>3, <2>4, <2>5, <2>6, QuietStep
<1>2. ASSUME NEW w \in Workers, NEW p \in Bought, NEW q \in Policies, Arrives(w, p, q)
      PROVE  RInv'
  <2> DEFINE x == [worker[w] EXCEPT !.pc = "claim", !.pay = p, !.policy = q]
  <2>1. worker[w] \in Worker /\ worker[w].held = 0
    BY <1>0, <1>2 DEF Arrives, WorkerInv, Sound, AtWork
  <2>2. x \in Worker /\ x.pc = "claim" /\ x.pay = p /\ x.policy = q /\ x.held = 0
    BY <2>1 DEF Worker
  <2>3. worker' = [worker EXCEPT ![w] = x]
    BY <1>2 DEF Arrives
  <2> HIDE DEF x
  <2>4. Sound(x) /\ x.pc \notin AtWork
    BY <2>2 DEF Sound, AtWork
  <2>5. /\ UNCHANGED <<hash, age, drawn, answered, unanswered>>
        /\ UNCHANGED <<marker, granted, losses>>
        /\ landed \subseteq landed'
    BY <1>2 DEF Arrives, storeVars, counters
  <2>6. x \in Worker
    BY <2>2
  <2> QED
    BY <2>3, <2>4, <2>5, <2>6, QuietStep
<1>3. ASSUME NEW w \in Workers, WorkerStep(w) PROVE RInv'
  BY <1>3, WorkerRInv
<1>4. CASE Second
  <2>1. WorkerInv' /\ ClaimInv'
    BY <1>4, SecondStep
  <2>2. StoreInv'
    BY <1>0, <1>4, SecondStore
  <2> QED
    BY <2>1, <2>2 DEF RInv
<1>5. ASSUME NEW r \in Replicas, CrashReplica(r) PROVE RInv'
  <2>1. \A w \in Workers : worker'[w] = IF AT[w] = r THEN IdleWorker ELSE worker[w]
    BY <1>5 DEF CrashReplica
  <2>2. worker' \in [Workers -> Worker]
    <3>1. worker' = [w \in Workers |-> IF AT[w] = r THEN IdleWorker ELSE worker[w]]
      BY <1>5 DEF CrashReplica
    <3> QED
      BY <1>0, <3>1, IdleFacts DEF WorkerInv
  <2>3. \A w \in Workers : Sound(worker'[w])
    BY <1>0, <2>1, IdleFacts DEF WorkerInv
  <2>4. WorkerInv'
    BY <2>2, <2>3, Zenon DEF WorkerInv, Sound
  <2>5. /\ UNCHANGED <<hash, age, drawn, answered, unanswered>>
        /\ UNCHANGED <<marker, granted, losses, landed>>
    BY <1>5 DEF CrashReplica, storeVars, counters
  <2>6. marker' \in [Bought -> Nat]
    BY <1>0, <2>5 DEF ClaimInv
  <2>7. \A w \in Workers : worker'[w] = worker[w] \/ worker'[w].pc \notin AtWork
    BY <2>1, IdleFacts DEF AtWork
  <2>8. ClaimInv'
    BY <2>5, <2>6, <2>7, RestStep
  <2>9. StoreInv'
    BY <1>0, <2>5, StoreSame
  <2> QED
    BY <2>4, <2>8, <2>9 DEF RInv
<1>6. CASE LoseKeys
  <2>1. WorkerInv' /\ ClaimInv'
    BY <1>6, LoseStep
  <2>2. StoreInv'
    BY <1>0, <1>6, LoseStore
  <2> QED
    BY <2>1, <2>2 DEF RInv
<1>7. CASE UNCHANGED redisVars
  <2>1. /\ UNCHANGED <<hash, age, drawn, answered, unanswered>>
        /\ UNCHANGED <<marker, granted, losses, landed>>
        /\ worker' = worker
    BY <1>7 DEF redisVars
  <2>2. marker' \in [Bought -> Nat]
    BY <1>0, <2>1 DEF ClaimInv
  <2>3. ClaimInv'
    BY <2>1, <2>2, RestStep
  <2>4. WorkerInv'
    BY <1>0, <2>1, Zenon DEF WorkerInv, Sound
  <2>5. StoreInv'
    BY <1>0, <2>1, StoreSame
  <2> QED
    BY <2>3, <2>4, <2>5 DEF RInv
<1> QED
  BY <1>1, <1>2, <1>3, <1>4, <1>5, <1>6, <1>7 DEF RedisNext

LEMMA AlwaysRInv == RedisSpec => []RInv
  BY InitRInv, NextRInv, PTL DEF RedisSpec

-----------------------------------------------------------------------------
(* Theorems *)

\* SPEND_SCRIPT's accounting, for any number of replicas: nothing is gone from a
\* session's quota that was not served or charged to a request told "backend".
THEOREM DeductionsCounted == RedisSpec => []EveryDeductionCounted
<1>1. RInv => EveryDeductionCounted
  BY DEF RInv, StoreInv, KeyInv, EveryDeductionCounted
<1> QED
  BY <1>1, AlwaysRInv, PTL

\* The deadline in a token is the key's end by some replica's clock.
Dated(i) ==
    hash[i] # NoSession /\ token[i] # Nothing =>
       \E r \in Replicas : token[i] = hash[i].life + SKEW[r]

TokenInv ==
    /\ DOMAIN token = Keys
    /\ \A i \in Keys : i \notin drawn => token[i] = Nothing
    /\ \A i \in Keys : Dated(i)

\* One key's session and token are what a step has changed.
LEMMA OneToken ==
    ASSUME RInv, TokenInv, NEW i \in Keys,
           \A j \in Keys : j # i => hash'[j] = hash[j] /\ token'[j] = token[j],
           DOMAIN token' = Keys, drawn \subseteq drawn', i \in drawn', Dated(i)'
    PROVE  TokenInv'
<1>1. ASSUME NEW j \in Keys PROVE (j \notin drawn' => token'[j] = Nothing) /\ Dated(j)'
  <2>1. CASE j = i
    BY <2>1
  <2>2. CASE j # i
    BY <2>2, Zenon DEF TokenInv, Dated
  <2> QED
    BY <2>1, <2>2
<1> QED
  BY <1>1, Zenon DEF TokenInv

\* No step parts a token from its key.
LEMMA TokenStep == RInv /\ TokenInv /\ [RedisNext]_redisVars => TokenInv'
<1> SUFFICES ASSUME RInv, TokenInv, [RedisNext]_redisVars PROVE TokenInv'
  OBVIOUS
<1>0. /\ hash \in [Keys -> Session \cup {NoSession}]
      /\ WorkerInv
      /\ \A i \in Keys : KeyInv(i)
  BY DEF RInv, StoreInv
<1>1. ASSUME UNCHANGED <<hash, token, drawn>> PROVE TokenInv'
  BY <1>1, Zenon DEF TokenInv, Dated
<1>2. CASE Second
  <2>1. UNCHANGED drawn /\ DOMAIN token' = Keys
    BY <1>2 DEF Second
  <2>2. ASSUME NEW i \in Keys
        PROVE  (i \notin drawn' => token'[i] = Nothing) /\ Dated(i)'
    <3>1. /\ hash'[i] = Expired(hash[i])
          /\ token'[i] = IF token[i] = Nothing THEN Nothing
                         ELSE IF \A r \in Replicas : token[i] <= SKEW[r] THEN token[i]
                         ELSE token[i] - 1
      BY <1>2 DEF Second
    <3>2. i \notin drawn' => token'[i] = Nothing
      BY <2>1, <3>1 DEF TokenInv
    <3>3. ASSUME hash'[i] # NoSession, token'[i] # Nothing
          PROVE  \E r \in Replicas : token'[i] = hash'[i].life + SKEW[r]
      <4>1. PICK s : s = hash[i]
        OBVIOUS
      <4>2. s # NoSession /\ s.life # 1 /\ Shorter(NoSession) = NoSession
        BY <3>1, <3>3, <4>1 DEF Expired, Shorter, NoSession
      <4>3. s \in Session /\ s.life \in Nat /\ s.life > 1
        BY <1>0, <4>1, <4>2 DEF KeyInv, Session
      <4>4. hash'[i].life = s.life - 1
        BY <3>1, <4>1, <4>3 DEF Expired, Shorter, Session
      <4>5. PICK r \in Replicas : token[i] = s.life + SKEW[r]
        BY <3>1, <3>3, <4>1, <4>2 DEF TokenInv, Dated
      <4>6. SKEW[r] \in Int
        BY RedisAssumption
      <4>7. token'[i] = token[i] - 1
        BY <3>1, <3>3, <4>3, <4>5, <4>6
      <4> QED
        BY <4>3, <4>4, <4>5, <4>6, <4>7
    <3> QED
      BY <3>2, <3>3 DEF Dated
  <2> QED
    BY <2>1, <2>2, Zenon DEF TokenInv
<1>3. CASE LoseKeys
  <2>1. /\ UNCHANGED <<token, drawn>>
        /\ \A i \in Keys : hash'[i] \in {NoSession, hash[i]}
    BY <1>3 DEF LoseKeys
  <2>2. \A i \in Keys : Dated(i)'
    BY <2>1 DEF TokenInv, Dated
  <2> QED
    BY <2>1, <2>2, Zenon DEF TokenInv
<1>4. ASSUME NEW w \in Workers, SpendRan(w) PROVE TokenInv'
  <2>1. PICK i, s : i = worker[w].id /\ s = hash[i]
    OBVIOUS
  <2>2. i \in Keys /\ s # NoSession /\ i \in drawn
    BY <1>0, <1>4, <2>1 DEF SpendRan, Spendable, Covers, WorkerInv, Sound, KeyInv
  <2>3. /\ hash' = [hash EXCEPT ![i] = AfterScript(s)] /\ UNCHANGED <<token, drawn>>
    BY <1>4, <2>1 DEF SpendRan
  <2>4. s \in Session
    BY <1>0, <2>1, <2>2
  <2>5. AfterScript(s).life = s.life
    BY <2>4 DEF AfterScript, Session
  <2>6. hash'[i] = AfterScript(s) /\ \A j \in Keys : j # i => hash'[j] = hash[j]
    BY <1>0, <2>2, <2>3
  <2>7. Dated(i)'
    BY <2>1, <2>2, <2>3, <2>5, <2>6 DEF TokenInv, Dated
  <2> QED
    BY <2>2, <2>3, <2>6, <2>7, OneToken DEF TokenInv
<1>5. ASSUME NEW w \in Workers, Mints(w) PROVE TokenInv'
  <2>1. CASE UNCHANGED <<hash, token, drawn>>
    BY <1>1, <2>1
  <2>2. CASE ~UNCHANGED <<hash, token, drawn>>
    <3>1. PICK q : q = worker[w].policy
      OBVIOUS
    <3>2. q \in Policies /\ AT[w] \in Replicas
      BY <1>0, <1>5, <3>1, RedisAssumption DEF Mints, WorkerInv, Sound, AtWork
    <3>3. PICK i \in Keys \ drawn :
             /\ hash' = [hash EXCEPT ![i] = NewSession(q)]
             /\ drawn' = drawn \cup {i}
             /\ \/ token' = [token EXCEPT ![i] = DURATION[q] + SKEW[AT[w]]]
                \/ UNCHANGED token
      BY <1>5, <2>2, <3>1 DEF Mints, Stored
    <3>4. /\ hash'[i].life = DURATION[q]
          /\ \A j \in Keys : j # i => hash'[j] = hash[j] /\ token'[j] = token[j]
          /\ DOMAIN token' = Keys
      BY <1>0, <3>3 DEF NewSession, TokenInv
    <3>5. token'[i] \in {Nothing, DURATION[q] + SKEW[AT[w]]}
      BY <3>3 DEF TokenInv
    <3>6. Dated(i)'
      BY <3>2, <3>4, <3>5 DEF Dated
    <3> QED
      BY <3>3, <3>4, <3>6, OneToken
  <2> QED
    BY <2>1, <2>2
<1>6. CASE \/ \E w \in Workers, i \in Keys, q \in Policies : Presents(w, i, q)
           \/ \E w \in Workers, p \in Bought, q \in Policies : Arrives(w, p, q)
           \/ \E w \in Workers : \/ SpendRefused(w) \/ ClaimRefused(w) \/ Claimed(w)
                                 \/ GivesBack(w) \/ Reverifies(w) \/ Broadcasts(w)
           \/ \E r \in Replicas : CrashReplica(r)
           \/ UNCHANGED redisVars
  <2>1. UNCHANGED <<hash, token, drawn>>
    BY <1>6 DEF Presents, Arrives, SpendRefused, ClaimRefused, Claimed, GivesBack,
       Reverifies, Broadcasts, CrashReplica, storeVars, redisVars
  <2> QED
    BY <1>1, <2>1
<1> QED
  BY <1>2, <1>3, <1>4, <1>5, <1>6 DEF RedisNext, WorkerStep

\* A session in Redis ends duration_secs after create_session stored it, and its
\* token at that very second of the minting replica's clock, for any clocks,
\* crashes and lost keys.
THEOREM SessionsEndOnTime == RedisSpec => []EndsOnTime
<1>1. RedisInit => TokenInv
  BY DEF RedisInit, TokenInv, Dated
<1>2. RInv /\ TokenInv => EndsOnTime
  BY DEF RInv, StoreInv, KeyInv, TokenInv, Dated, EndsOnTime
<1> QED
  BY <1>1, <1>2, TokenStep, AlwaysRInv, PTL DEF RedisSpec

\* CLAIM_SCRIPT makes payments single use across any number of replicas, as
\* long as the server keeps its keys and no request works longer than CLAIM_TTL.
THEOREM TokensSingleUse == RedisSpec => []OneTokenPerPayment
<1>1. RInv => OneTokenPerPayment
  BY DEF RInv, ClaimInv, Exclusive, Working, OneTokenPerPayment
<1> QED
  BY <1>1, AlwaysRInv, PTL

\* The payment is charged, nobody is about to use it, and it has bought nothing;
\* or the server has lost a key.
Wasted(p) ==
    \/ losses # 0
    \/ /\ p \in landed
       /\ granted[p] = 0
       /\ \A w \in Workers : worker[w].pc \in {"execute", "mint"} => worker[w].pay # p

\* No step gives a token for a payment that was wasted.
LEMMA WastedStep ==
    ASSUME NEW p \in Bought
    PROVE  RInv /\ Wasted(p) /\ [RedisNext]_redisVars => Wasted(p)'
<1> SUFFICES ASSUME RInv, Wasted(p), [RedisNext]_redisVars PROVE Wasted(p)'
  OBVIOUS
<1>0. losses \in Nat /\ granted \in [Bought -> Nat] /\ WorkerInv
  BY DEF RInv, ClaimInv
<1>1. CASE LoseKeys
  <2>1. losses' # 0
    BY <1>0, <1>1 DEF LoseKeys
  <2> QED
    BY <2>1 DEF Wasted
<1>2. CASE losses # 0 /\ ~LoseKeys
  <2>1. losses' = losses
    BY <1>2 DEF RedisNext, redisVars, Presents, Arrives, WorkerStep, SpendRefused,
                SpendRan, ClaimRefused, Claimed, GivesBack, Reverifies, Broadcasts,
                Mints, Second, CrashReplica, storeVars
  <2> QED
    BY <1>2, <2>1 DEF Wasted
<1>3. CASE losses = 0 /\ ~LoseKeys
  <2>1. /\ p \in landed
        /\ granted[p] = 0
        /\ \A w \in Workers : worker[w].pc \in {"execute", "mint"} => worker[w].pay # p
    BY <1>3 DEF Wasted
  <2>2. p \in landed'
    BY <1>3, <2>1 DEF RedisNext, redisVars, Presents, Arrives, WorkerStep, SpendRefused,
                SpendRan, ClaimRefused, Claimed, GivesBack, Reverifies, Broadcasts,
                Mints, Second, CrashReplica
  <2>3. granted'[p] = 0
    <3>1. CASE \E w \in Workers : Mints(w)
      <4>1. PICK w \in Workers : Mints(w)
        BY <3>1
      <4>2. worker[w].pay # p
        BY <2>1, <4>1 DEF Mints
      <4>3. \/ granted' = granted
            \/ granted' = [granted EXCEPT ![worker[w].pay] = IF @ = 0 THEN 1 ELSE 2]
        BY <4>1 DEF Mints
      <4> QED
        BY <1>0, <2>1, <4>2, <4>3
    <3>2. CASE ~\E w \in Workers : Mints(w)
      <4>1. granted' = granted
        BY <1>3, <3>2 DEF RedisNext, redisVars, Presents, Arrives, WorkerStep,
                SpendRefused, SpendRan, ClaimRefused, Claimed, GivesBack, Reverifies,
                Broadcasts, Second, CrashReplica, storeVars
      <4> QED
        BY <2>1, <4>1
    <3> QED
      BY <3>1, <3>2
  <2>4. ASSUME NEW w \in Workers, worker'[w].pc \in {"execute", "mint"}
        PROVE  worker'[w].pay # p
    <3>1. ASSUME NEW g \in Workers, Done(g) PROVE worker'[w].pay # p
      <4>1. worker'[w] = IF w = g THEN IdleWorker ELSE worker[w]
        BY <1>0, <3>1, DoneWorker
      <4> QED
        BY <2>1, <2>4, <4>1, IdleFacts
    <3>2. CASE \E g \in Workers : Done(g)
      BY <3>1, <3>2
    <3>3. ASSUME NEW g \in Workers, NEW pc \in AtWork, Go(g, pc),
                 worker[g].pc \in AtWork \cup {"claim"},
                 pc = "verify" \/ worker[g].pay # p
          PROVE  worker'[w].pay # p
      <4>1. /\ \A h \in Workers : h # g => worker'[h] = worker[h]
            /\ worker'[g].pc = pc
            /\ worker'[g].pay = worker[g].pay
        BY <1>0, <3>3, GoWorker
      <4> QED
        BY <2>1, <2>4, <3>3, <4>1
    <3>4. CASE \E g \in Workers : Claimed(g) /\ Go(g, "verify")
      BY <3>3, <3>4 DEF Claimed, AtWork
    <3>5. CASE \E g \in Workers : Reverifies(g)
      BY <2>1, <3>3, <3>5 DEF Reverifies, AtWork
    <3>6. CASE \E g \in Workers : Broadcasts(g) /\ Go(g, "mint")
      BY <2>1, <3>3, <3>6 DEF Broadcasts, AtWork
    <3>7. CASE \E g \in Workers, i \in Keys, q \in Policies : Presents(g, i, q)
      <4>1. worker'[w] = worker[w] \/ worker'[w].pc = "spend"
        BY <1>0, <3>7 DEF Presents, WorkerInv, Worker
      <4> QED
        BY <2>1, <2>4, <4>1
    <3>8. CASE \E g \in Workers, x \in Bought, q \in Policies : Arrives(g, x, q)
      <4>1. worker'[w] = worker[w] \/ worker'[w].pc = "claim"
        BY <1>0, <3>8 DEF Arrives, WorkerInv, Worker
      <4> QED
        BY <2>1, <2>4, <4>1
    <3>9. CASE Second
      <4>1. worker[w] \in Worker
        BY <1>0 DEF WorkerInv
      <4>2. worker'[w].pc = worker[w].pc /\ worker'[w].pay = worker[w].pay
        BY <3>9, <4>1 DEF Second, Worker
      <4> QED
        BY <2>1, <2>4, <4>2
    <3>10. CASE \E r \in Replicas : CrashReplica(r)
      <4>1. worker'[w] = worker[w] \/ worker'[w] = IdleWorker
        BY <3>10 DEF CrashReplica
      <4> QED
        BY <2>1, <2>4, <4>1, IdleFacts
    <3>11. CASE UNCHANGED redisVars
      <4>1. worker' = worker
        BY <3>11 DEF redisVars
      <4> QED
        BY <2>1, <2>4, <4>1
    <3>12. ASSUME NEW g \in Workers, WorkerStep(g)
           PROVE  Done(g) \/ (Claimed(g) /\ Go(g, "verify")) \/ Reverifies(g)
                     \/ (Broadcasts(g) /\ Go(g, "mint"))
      BY <3>12 DEF WorkerStep, SpendRefused, SpendRan, ClaimRefused, Claimed,
                   GivesBack, Broadcasts, Mints
    <3> QED
      BY <1>3, <3>2, <3>4, <3>5, <3>6, <3>7, <3>8, <3>9, <3>10, <3>11, <3>12 DEF RedisNext
  <2> QED
    BY <2>2, <2>3, <2>4 DEF Wasted
<1> QED
  BY <1>1, <1>2, <1>3

\* create_session that fails after the settlement succeeded leaves the payer
\* charged without a session for good, whoever retries on whichever replica.
THEOREM FailedMintsStayFailed == RedisSpec => FailedMintIsFinal
<1> SUFFICES ASSUME NEW p \in Bought
             PROVE  RedisSpec =>
                [](/\ p \in landed
                   /\ granted[p] = 0
                   /\ \A w \in Workers : worker[w].pc \in AtWork => worker[w].pay # p
                   => [](losses = 0 => granted[p] = 0))
  BY DEF FailedMintIsFinal
<1>1. (/\ p \in landed
       /\ granted[p] = 0
       /\ \A w \in Workers : worker[w].pc \in AtWork => worker[w].pay # p)
      => Wasted(p)
  BY DEF Wasted, AtWork
<1>2. Wasted(p) => (losses = 0 => granted[p] = 0)
  BY DEF Wasted
<1>3. RInv /\ Wasted(p) /\ [RedisNext]_redisVars => Wasted(p)'
  BY WastedStep
<1> QED
  BY <1>1, <1>2, <1>3, AlwaysRInv, PTL DEF RedisSpec
=============================================================================
