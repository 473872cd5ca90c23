--------------------------- MODULE StorefrontProofs ---------------------------
(***************************************************************************)
(* What is sold and to whom (Storefront.tla), for every policy table, set  *)
(* of requests, payments and streams.                                      *)
(*                                                                         *)
(* A session does not remember its price and a bucket does not remember    *)
(* its entry.  The invariant says where they came from: a live session is  *)
(* the one some request's entry sells, to a payment that is spent and was  *)
(* credited at that entry's price, and a spent payment cannot buy again.   *)
(***************************************************************************)
EXTENDS Storefront, TLAPS

\* Domains, and what a stream holds between its two phases.
ShapeInv ==
    /\ DOMAIN stream = Streams
    /\ DOMAIN session = Payments
    /\ DOMAIN bought = Payments
    /\ DOMAIN usedOn = Payments
    /\ \A s \in Streams :
          stream[s] # Idle => stream[s].pay \in Payments /\ stream[s].visit \in Visits

\* s is the session create_session stores for the visit, whatever is left of it.
SessionOf(s, v) ==
    s = [policy |-> v.policy, quota |-> Resolve(v).terms.paid.quota, left |-> s.left]

SaleInv ==
    \A p \in Payments :
       /\ bought[p] # NoPay =>
             p \in spent /\ Credited(p, bought[p].terms) = bought[p].terms.amount
       /\ session[p] # NoPay =>
             \E v \in Visits : bought[p] = Resolve(v) /\ SessionOf(session[p], v)
       /\ usedOn[p] # {} => bought[p] # NoPay

StoreInv == ShapeInv /\ SaleInv

-----------------------------------------------------------------------------
(* Sales *)

\* Steps that touch neither a session nor what has been sold.
LEMMA SaleUntouched ==
    ASSUME SaleInv, UNCHANGED <<session, bought, usedOn>>, spent \subseteq spent'
    PROVE  SaleInv'
<1> SUFFICES ASSUME NEW p \in Payments
             PROVE  /\ bought[p] # NoPay =>
                          p \in spent' /\ Credited(p, bought[p].terms) = bought[p].terms.amount
                    /\ session[p] # NoPay =>
                          \E v \in Visits : bought[p] = Resolve(v) /\ SessionOf(session[p], v)
                    /\ usedOn[p] # {} => bought[p] # NoPay
  BY DEF SaleInv, SessionOf
<1> QED
  BY DEF SaleInv

\* create_session, granted or refused, for a payment that verifies: it has not
\* been spent before, so it has bought and served nothing yet.
LEMMA SaleMint ==
    ASSUME ShapeInv, SaleInv, NEW p \in Payments, NEW v \in Visits,
           Verifies(p, Resolve(v).terms), Mint(p, v),
           spent' = spent \cup {p}, UNCHANGED usedOn
    PROVE  SaleInv'
<1>1. CASE UNCHANGED <<session, bought>>
  BY <1>1, SaleUntouched
<1>2. CASE /\ session' = [session EXCEPT ![p] = NewSession(v)]
           /\ bought' = [bought EXCEPT ![p] = Resolve(v)]
  <2>1. /\ session'[p] = NewSession(v) /\ bought'[p] = Resolve(v)
        /\ \A q \in Payments : q # p => session'[q] = session[q] /\ bought'[q] = bought[q]
    BY <1>2 DEF ShapeInv
  <2>2. Credited(p, Resolve(v).terms) = Resolve(v).terms.amount
    BY DEF Verifies, AssertCredits
  <2>3. SessionOf(NewSession(v), v)
    BY DEF SessionOf, NewSession
  <2>4. Resolve(v) # NoPay
    BY NoPayAssumption
  <2>5. SaleInv' <=>
          \A q \in Payments :
            /\ bought'[q] # NoPay =>
                  q \in spent' /\ Credited(q, bought'[q].terms) = bought'[q].terms.amount
            /\ session'[q] # NoPay =>
                  \E w \in Visits : bought'[q] = Resolve(w) /\ SessionOf(session'[q], w)
            /\ usedOn'[q] # {} => bought'[q] # NoPay
    BY DEF SaleInv, SessionOf
  <2>6. ASSUME NEW q \in Payments
        PROVE  /\ bought'[q] # NoPay =>
                     q \in spent' /\ Credited(q, bought'[q].terms) = bought'[q].terms.amount
               /\ session'[q] # NoPay =>
                     \E w \in Visits : bought'[q] = Resolve(w) /\ SessionOf(session'[q], w)
               /\ usedOn'[q] # {} => bought'[q] # NoPay
    <3>1. CASE q = p
      BY <2>1, <2>2, <2>3, <2>4, <3>1
    <3>2. CASE q # p
      BY <2>1, <3>2 DEF SaleInv
    <3> QED
      BY <3>1, <3>2
  <2> QED
    BY <2>5, <2>6
<1> QED
  BY <1>1, <1>2 DEF Mint

\* consume takes a request from a session and leaves the rest of it alone.
LEMMA SaleServe ==
    ASSUME ShapeInv, SaleInv, NEW v \in Visits, NEW t \in Payments, FromSession(v, t)
    PROVE  SaleInv'
<1>1. session[t] # NoPay /\ UNCHANGED <<spent, bought>>
  BY DEF FromSession, Honoured
<1>2. /\ session'[t] = [session[t] EXCEPT !.left = session[t].left - 1]
      /\ \A q \in Payments : q # t => session'[q] = session[q] /\ usedOn'[q] = usedOn[q]
  BY DEF FromSession, ShapeInv
<1>3. PICK w \in Visits : bought[t] = Resolve(w) /\ SessionOf(session[t], w)
  BY <1>1 DEF SaleInv
<1>4. SessionOf(session'[t], w)
  BY <1>2, <1>3 DEF SessionOf
<1>5. Resolve(w) # NoPay
  BY NoPayAssumption
<1>6. SaleInv' <=>
        \A q \in Payments :
          /\ bought[q] # NoPay =>
                q \in spent /\ Credited(q, bought[q].terms) = bought[q].terms.amount
          /\ session'[q] # NoPay =>
                \E r \in Visits : bought[q] = Resolve(r) /\ SessionOf(session'[q], r)
          /\ usedOn'[q] # {} => bought[q] # NoPay
  BY <1>1 DEF SaleInv, SessionOf
<1>7. ASSUME NEW q \in Payments
      PROVE  /\ bought[q] # NoPay =>
                   q \in spent /\ Credited(q, bought[q].terms) = bought[q].terms.amount
             /\ session'[q] # NoPay =>
                   \E r \in Visits : bought[q] = Resolve(r) /\ SessionOf(session'[q], r)
             /\ usedOn'[q] # {} => bought[q] # NoPay
  <2>1. CASE q = t
    BY <1>3, <1>4, <1>5, <2>1 DEF SaleInv
  <2>2. CASE q # t
    BY <1>2, <2>2 DEF SaleInv
  <2> QED
    BY <2>1, <2>2
<1> QED
  BY <1>6, <1>7

\* A session that expires is gone; the sale stands.
LEMMA SaleExpire ==
    ASSUME ShapeInv, SaleInv, NEW p \in Payments, Expire(p)
    PROVE  SaleInv'
<1>1. /\ session'[p] = NoPay /\ UNCHANGED <<spent, bought, usedOn>>
      /\ \A q \in Payments : q # p => session'[q] = session[q]
  BY DEF Expire, ShapeInv
<1> QED
  BY <1>1 DEF SaleInv, SessionOf

\* Every step keeps the domains; a stream's visit and payment come from Admit.
LEMMA ShapeStep ==
    ASSUME ShapeInv, [Next]_vars
    PROVE  ShapeInv'
<1>1. ASSUME UNCHANGED stream,
             DOMAIN session' = Payments, DOMAIN bought' = Payments, DOMAIN usedOn' = Payments
      PROVE  ShapeInv'
  BY <1>1 DEF ShapeInv, Idle
<1>2. ASSUME NEW s \in Streams, stream' = [stream EXCEPT ![s] = Idle],
             DOMAIN session' = Payments, DOMAIN bought' = Payments, DOMAIN usedOn' = Payments
      PROVE  ShapeInv'
  BY <1>2 DEF ShapeInv
<1>3. ASSUME NEW v \in Visits, NEW t \in Payments, FromSession(v, t) PROVE ShapeInv'
  BY <1>1, <1>3 DEF FromSession, ShapeInv
<1>4. ASSUME NEW s \in Streams, NEW v \in Visits, NEW t \in Tokens, NEW p \in Payments,
             Admit(s, v, t, p)
      PROVE  ShapeInv'
  <2>1. stream' = [stream EXCEPT ![s] = [pay |-> p, visit |-> v]]
    BY <1>4 DEF Admit
  <2>2. UNCHANGED <<session, bought, usedOn>>
    BY <1>4 DEF Admit
  <2> QED
    BY <2>1, <2>2 DEF ShapeInv, Idle
<1>5. ASSUME NEW v \in Visits, NEW t \in Tokens, NEW p \in Payments,
             RejectPayment(v, t, p) \/ SettleAtOnce(v, t, p) \/ SettleAtOnceFails(v, t, p)
      PROVE  ShapeInv'
  BY <1>1, <1>5 DEF RejectPayment, SettleAtOnce, SettleAtOnceFails, Mint, ShapeInv
<1>6. ASSUME NEW v \in Visits, NEW t \in Tokens, ServeFree(v, t) PROVE ShapeInv'
  BY <1>1, <1>6 DEF ServeFree, ShapeInv
<1>7. ASSUME NEW s \in Streams, Settle(s) \/ SettleFails(s) \/ Discard(s) PROVE ShapeInv'
  BY <1>2, <1>7 DEF Settle, SettleFails, Discard, Mint, ShapeInv
<1>8. ASSUME NEW p \in Payments, Lapse(p) \/ Expire(p) PROVE ShapeInv'
  BY <1>1, <1>8 DEF Lapse, Expire, ShapeInv
<1>9. CASE WindowPasses \/ UNCHANGED vars
  BY <1>1, <1>9 DEF WindowPasses, vars, ShapeInv
<1> QED
  BY <1>3, <1>4, <1>5, <1>6, <1>7, <1>8, <1>9 DEF Next

\* Every step keeps what is known of the sales.
LEMMA SaleStep ==
    ASSUME StoreInv, [Next]_vars
    PROVE  SaleInv'
<1>0. ShapeInv /\ SaleInv
  BY DEF StoreInv
<1>1. ASSUME NEW v \in Visits, NEW t \in Payments, FromSession(v, t) PROVE SaleInv'
  BY <1>0, <1>1, SaleServe
<1>2. ASSUME NEW s \in Streams, NEW v \in Visits, NEW t \in Tokens, NEW p \in Payments,
             Admit(s, v, t, p)
      PROVE  SaleInv'
  BY <1>0, <1>2, SaleUntouched DEF Admit
<1>3. ASSUME NEW v \in Visits, NEW t \in Tokens, NEW p \in Payments,
             RejectPayment(v, t, p) \/ SettleAtOnceFails(v, t, p)
      PROVE  SaleInv'
  <2>1. UNCHANGED <<session, bought, usedOn>> /\ spent \subseteq spent'
    BY <1>3 DEF RejectPayment, SettleAtOnceFails
  <2> QED
    BY <1>0, <2>1, SaleUntouched
<1>4. ASSUME NEW v \in Visits, NEW t \in Tokens, NEW p \in Payments, SettleAtOnce(v, t, p)
      PROVE  SaleInv'
  BY <1>0, <1>4, SaleMint DEF SettleAtOnce
<1>5. ASSUME NEW v \in Visits, NEW t \in Tokens, ServeFree(v, t) PROVE SaleInv'
  BY <1>0, <1>5, SaleUntouched DEF ServeFree
<1>6. ASSUME NEW s \in Streams, Settle(s) PROVE SaleInv'
  <2>1. PICK p \in Payments, v \in Visits : p = stream[s].pay /\ v = stream[s].visit
    BY <1>0, <1>6 DEF Settle, ShapeInv
  <2>2. /\ Verifies(p, Resolve(v).terms) /\ Mint(p, v)
        /\ spent' = spent \cup {p} /\ UNCHANGED usedOn
    BY <1>6, <2>1 DEF Settle
  <2> QED
    BY <1>0, <2>2, SaleMint
<1>7. ASSUME NEW s \in Streams, SettleFails(s) \/ Discard(s) PROVE SaleInv'
  <2>1. UNCHANGED <<session, bought, usedOn>> /\ spent \subseteq spent'
    BY <1>7 DEF SettleFails, Discard
  <2> QED
    BY <1>0, <2>1, SaleUntouched
<1>8. ASSUME NEW p \in Payments, Lapse(p) PROVE SaleInv'
  BY <1>0, <1>8, SaleUntouched DEF Lapse
<1>9. ASSUME NEW p \in Payments, Expire(p) PROVE SaleInv'
  BY <1>0, <1>9, SaleExpire
<1>10. CASE WindowPasses \/ UNCHANGED vars
  <2>1. UNCHANGED <<session, bought, usedOn, spent>>
    BY <1>10 DEF WindowPasses, vars
  <2> QED
    BY <1>0, <2>1, SaleUntouched
<1> QED
  BY <1>1, <1>2, <1>3, <1>4, <1>5, <1>6, <1>7, <1>8, <1>9, <1>10 DEF Next

LEMMA AlwaysStoreInv == Spec => []StoreInv
<1>1. Init => StoreInv
  BY DEF Init, StoreInv, ShapeInv, SaleInv
<1>2. StoreInv /\ [Next]_vars => StoreInv'
  BY ShapeStep, SaleStep DEF StoreInv
<1> QED
  BY <1>1, <1>2, PTL DEF Spec

\* A client cannot "buy access on its own terms" (verify_and_settle), nor on
\* another route's: for every policy table and every way requests, responses,
\* lapses and expiries interleave, a session is sold for money that is spent
\* and credits the payee of its entry with that entry's price in its coin, and
\* has the size that entry sells, although the terms are resolved anew in the
\* response phase and the payment's own `accepted` is only ever compared.
THEOREM PricesHold == Spec => []SoldAtItsPrice
<1>1. StoreInv => SoldAtItsPrice
  <2> SUFFICES ASSUME StoreInv, NEW p \in Payments, bought[p] # NoPay
               PROVE  /\ p \in spent
                      /\ Credited(p, bought[p].terms) = bought[p].terms.amount
                      /\ session[p] # NoPay => session[p].quota = bought[p].terms.paid.quota
    BY DEF SoldAtItsPrice
  <2>1. ASSUME session[p] # NoPay
        PROVE  session[p].quota = bought[p].terms.paid.quota
    <3>1. PICK v \in Visits : bought[p] = Resolve(v) /\ SessionOf(session[p], v)
      BY <2>1 DEF StoreInv, SaleInv
    <3>2. session[p].quota = Resolve(v).terms.paid.quota
      BY <3>1 DEF SessionOf
    <3> QED
      BY <3>1, <3>2
  <2> QED
    BY <2>1 DEF StoreInv, SaleInv
<1> QED
  BY <1>1, AlwaysStoreInv, PTL


-----------------------------------------------------------------------------
(* Sessions stay with the entry they were bought from *)

\* A session keeps the name Envoy attached and not the entry: the two say the
\* same where requests of one name all resolve to one entry.
NamesDecide ==
    \A v, w \in Visits : v.policy = w.policy => Resolve(v).from = Resolve(w).from

\* Two ways to configure that: every request carries a name the file defines, or
\* the file has no path prefixes to fall back on.
LEMMA NamesDecideWhen ==
    ASSUME \/ \A v \in Visits : v.policy \in DOMAIN Config.policies
           \/ DOMAIN Config.routes = {}
    PROVE  NamesDecide
<1> SUFFICES ASSUME NEW v \in Visits, NEW w \in Visits, v.policy = w.policy
             PROVE  Resolve(v).from = Resolve(w).from
  BY DEF NamesDecide
<1>1. CASE v.policy \in DOMAIN Config.policies
  BY <1>1 DEF Resolve, PolicyFor
<1>2. CASE v.policy \notin DOMAIN Config.policies
  <2>1. \A u \in Visits : LongestMatch(Config.routes, u.path) = {}
    BY <1>2 DEF LongestMatch, Matching
  <2> QED
    BY <1>2, <2>1 DEF Resolve, PolicyFor
<1> QED
  BY <1>1, <1>2

ScopeInv == \A p \in Payments : \A e \in usedOn[p] : e = bought[p].from

\* A payment that verifies has served nothing, so a sale disturbs no use of it.
LEMMA ScopeMint ==
    ASSUME StoreInv, ScopeInv, NEW p \in Payments, NEW t, Verifies(p, t),
           \A q \in Payments : q # p => bought'[q] = bought[q], UNCHANGED usedOn
    PROVE  ScopeInv'
<1>1. usedOn[p] = {}
  BY DEF Verifies, StoreInv, SaleInv
<1> QED
  BY <1>1 DEF ScopeInv

\* A session is honoured for the name it was bought under, hence for its entry.
LEMMA ScopeServe ==
    ASSUME NamesDecide, StoreInv, ScopeInv, NEW v \in Visits, NEW t \in Payments,
           FromSession(v, t)
    PROVE  ScopeInv'
<1>1. session[t] # NoPay /\ session[t].policy = v.policy /\ UNCHANGED bought
  BY DEF FromSession, Honoured
<1>2. /\ usedOn'[t] = usedOn[t] \cup {Resolve(v).from}
      /\ \A q \in Payments : q # t => usedOn'[q] = usedOn[q]
  BY DEF FromSession, StoreInv, ShapeInv
<1>3. PICK w \in Visits : bought[t] = Resolve(w) /\ SessionOf(session[t], w)
  BY <1>1 DEF StoreInv, SaleInv
<1>4. session[t].policy = w.policy
  BY <1>3 DEF SessionOf
<1>5. Resolve(v).from = bought[t].from
  BY <1>1, <1>3, <1>4 DEF NamesDecide
<1> QED
  BY <1>1, <1>2, <1>5 DEF ScopeInv

LEMMA ScopeStep ==
    ASSUME NamesDecide, StoreInv, ScopeInv, [Next]_vars
    PROVE  ScopeInv'
<1>1. ASSUME NEW v \in Visits, NEW t \in Payments, FromSession(v, t) PROVE ScopeInv'
  BY <1>1, ScopeServe
<1>2. ASSUME UNCHANGED <<bought, usedOn>> PROVE ScopeInv'
  BY <1>2 DEF ScopeInv
<1>3. ASSUME NEW p \in Payments, NEW v \in Visits, Mint(p, v)
      PROVE  \A q \in Payments : q # p => bought'[q] = bought[q]
  BY <1>3 DEF Mint, StoreInv, ShapeInv
<1>4. ASSUME NEW v \in Visits, NEW t \in Tokens, NEW p \in Payments, SettleAtOnce(v, t, p)
      PROVE  ScopeInv'
  <2>1. \A q \in Payments : q # p => bought'[q] = bought[q]
    BY <1>3, <1>4 DEF SettleAtOnce
  <2> QED
    BY <1>4, <2>1, ScopeMint DEF SettleAtOnce
<1>5. ASSUME NEW s \in Streams, Settle(s) PROVE ScopeInv'
  <2>1. PICK p \in Payments, v \in Visits : p = stream[s].pay /\ v = stream[s].visit
    BY <1>5 DEF Settle, StoreInv, ShapeInv
  <2>2. Verifies(p, Resolve(v).terms) /\ Mint(p, v) /\ UNCHANGED usedOn
    BY <1>5, <2>1 DEF Settle
  <2>3. \A q \in Payments : q # p => bought'[q] = bought[q]
    BY <1>3, <2>2
  <2> QED
    BY <2>2, <2>3, ScopeMint
<1>6. ASSUME NEW s \in Streams,
             SettleFails(s) \/ Discard(s)
             \/ \E v \in Visits, t \in Tokens, p \in Payments : Admit(s, v, t, p)
      PROVE  ScopeInv'
  BY <1>2, <1>6 DEF SettleFails, Discard, Admit
<1>7. ASSUME NEW v \in Visits, NEW t \in Tokens, NEW p \in Payments,
             RejectPayment(v, t, p) \/ SettleAtOnceFails(v, t, p)
      PROVE  ScopeInv'
  BY <1>2, <1>7 DEF RejectPayment, SettleAtOnceFails
<1>8. ASSUME NEW v \in Visits, NEW t \in Tokens, ServeFree(v, t) PROVE ScopeInv'
  BY <1>2, <1>8 DEF ServeFree
<1>9. ASSUME NEW p \in Payments, Lapse(p) \/ Expire(p) PROVE ScopeInv'
  BY <1>2, <1>9 DEF Lapse, Expire
<1>10. CASE WindowPasses \/ UNCHANGED vars
  BY <1>2, <1>10 DEF WindowPasses, vars
<1> QED
  BY <1>1, <1>4, <1>5, <1>6, <1>7, <1>8, <1>9, <1>10 DEF Next

\* "a session bought on the cheap route does not unlock the expensive one"
\* (README.md), for every policy table in which a policy name decides the entry:
\* whatever sessions are bought, spent, expired and bought again, one serves
\* requests of the entry it was sold under and of no other.
THEOREM SessionsKeepToTheirEntry ==
    NamesDecide => (Spec => []SessionServesWhatItBought)
<1> SUFFICES ASSUME NamesDecide PROVE Spec => []SessionServesWhatItBought
  OBVIOUS
<1>1. Init => ScopeInv
  BY DEF Init, ScopeInv
<1>2. StoreInv /\ ScopeInv /\ [Next]_vars => ScopeInv'
  BY ScopeStep
<1>3. StoreInv /\ ScopeInv => SessionServesWhatItBought
  BY DEF StoreInv, SaleInv, ScopeInv, SessionServesWhatItBought
<1> QED
  BY <1>1, <1>2, <1>3, AlwaysStoreInv, PTL DEF Spec

-----------------------------------------------------------------------------
(* Free allowances *)

\* No two entries of the file share a label: a policy is not named like a path
\* prefix, and nothing is named like the default.
LabelsDistinct ==
    /\ DEFAULT_POLICY_LABEL \notin DOMAIN Config.policies
    /\ \A i \in DOMAIN Config.routes :
          /\ Config.routes[i].prefix \notin DOMAIN Config.policies
          /\ Config.routes[i].prefix # DEFAULT_POLICY_LABEL

\* The three ways a request is resolved (policy_for).
LEMMA ThreeWays ==
    ASSUME NEW v
    PROVE  \/ /\ v.policy \in DOMAIN Config.policies
              /\ Resolve(v).label = v.policy
              /\ Resolve(v).from = <<"policy", v.policy>>
           \/ \E i \in DOMAIN Config.routes :
                 /\ Resolve(v).label = Config.routes[i].prefix
                 /\ Resolve(v).from = <<"route", Config.routes[i].prefix>>
           \/ /\ Resolve(v).label = DEFAULT_POLICY_LABEL
              /\ Resolve(v).from = <<"default", <<>>>>
<1> DEFINE best == LongestMatch(Config.routes, v.path)
<1>1. CASE v.policy \in DOMAIN Config.policies
  BY <1>1 DEF Resolve, PolicyFor
<1>2. CASE v.policy \notin DOMAIN Config.policies /\ best # {}
  <2>1. PICK i : i = CHOOSE j \in best : TRUE
    OBVIOUS
  <2>2. i \in DOMAIN Config.routes
    BY <1>2, <2>1 DEF LongestMatch, Matching
  <2>3. /\ Resolve(v).label = Config.routes[i].prefix
        /\ Resolve(v).from = <<"route", Config.routes[i].prefix>>
    BY <1>2, <2>1 DEF Resolve, PolicyFor
  <2> QED
    BY <2>2, <2>3
<1>3. CASE v.policy \notin DOMAIN Config.policies /\ best = {}
  BY <1>3 DEF Resolve, PolicyFor
<1> QED
  BY <1>1, <1>2, <1>3

\* A label stands for one entry, and an entry has one label.
LEMMA LabelIsEntry ==
    ASSUME LabelsDistinct, NEW v, NEW w
    PROVE  Resolve(v).label = Resolve(w).label <=> Resolve(v).from = Resolve(w).from
<1> DEFINE Kind(u, kind, name) ==
             Resolve(u).label = name /\ Resolve(u).from = <<kind, name>>
<1>1. \A k, l, m, n : <<k, m>> = <<l, n>> <=> k = l /\ m = n
  OBVIOUS
<1>2. \/ v.policy \in DOMAIN Config.policies /\ Kind(v, "policy", v.policy)
      \/ \E i \in DOMAIN Config.routes : Kind(v, "route", Config.routes[i].prefix)
      \/ /\ Resolve(v).label = DEFAULT_POLICY_LABEL
         /\ Resolve(v).from = <<"default", <<>>>>
  BY ThreeWays
<1>3. \/ w.policy \in DOMAIN Config.policies /\ Kind(w, "policy", w.policy)
      \/ \E i \in DOMAIN Config.routes : Kind(w, "route", Config.routes[i].prefix)
      \/ /\ Resolve(w).label = DEFAULT_POLICY_LABEL
         /\ Resolve(w).from = <<"default", <<>>>>
  BY ThreeWays
<1>4. "policy" # "route" /\ "route" # "default" /\ "policy" # "default"
  OBVIOUS
<1>5. PICK lv, fv, lw, fw : /\ lv = Resolve(v).label /\ fv = Resolve(v).from
                            /\ lw = Resolve(w).label /\ fw = Resolve(w).from
  OBVIOUS
<1> QED
  BY <1>1, <1>2, <1>3, <1>4, <1>5 DEF LabelsDistinct

\* "two policies never share a free-tier allowance" (ResolvedPolicy::label), for
\* every table whose labels are distinct: a bucket has counted exactly what the
\* one entry it belongs to has served, to each client, in every window.
THEOREM AllowancesAreOwn == LabelsDistinct => (Spec => []FreeAllowanceIsOwn)
<1> SUFFICES ASSUME LabelsDistinct PROVE Spec => []FreeAllowanceIsOwn
  OBVIOUS
<1> DEFINE AllowanceInv == /\ DOMAIN bucket = Buckets
                           /\ DOMAIN freeServed = Entries
                           /\ FreeAllowanceIsOwn
<1>0. ASSUME NEW v \in Visits, v.client # Unset
      PROVE  <<Resolve(v).label, v.client>> \in Buckets /\ <<Resolve(v).from, v.client>> \in Entries
  BY <1>0 DEF Buckets, Entries, Labels, Clients
<1>a. ASSUME bucket = [b \in Buckets |-> 0], freeServed = [e \in Entries |-> 0]
      PROVE  AllowanceInv
  BY <1>0, <1>a DEF FreeAllowanceIsOwn
<1>1. Init => AllowanceInv
  BY <1>a DEF Init
<1>2. AllowanceInv /\ [Next]_vars => AllowanceInv'
  <2> SUFFICES ASSUME AllowanceInv, [Next]_vars PROVE AllowanceInv'
    OBVIOUS
  <2>1. ASSUME UNCHANGED <<bucket, freeServed>> PROVE AllowanceInv'
    BY <2>1 DEF FreeAllowanceIsOwn
  <2>2. ASSUME NEW v \in Visits, NEW t \in Tokens, ServeFree(v, t) PROVE AllowanceInv'
    <3>1. PICK b, e : b = <<Resolve(v).label, v.client>> /\ e = <<Resolve(v).from, v.client>>
      OBVIOUS
    <3>2. /\ b \in Buckets /\ e \in Entries
          /\ bucket' = [bucket EXCEPT ![b] = bucket[b] + 1]
          /\ freeServed' = [freeServed EXCEPT ![e] = freeServed[e] + 1]
          /\ bucket[b] = freeServed[e]
      BY <1>0, <2>2, <3>1 DEF ServeFree, BucketOf, FreeAllowanceIsOwn
    <3>3. ASSUME NEW w \in Visits, w.client # Unset
          PROVE  bucket'[<<Resolve(w).label, w.client>>] =
                    freeServed'[<<Resolve(w).from, w.client>>]
      <4>1. PICK c, f : c = <<Resolve(w).label, w.client>> /\ f = <<Resolve(w).from, w.client>>
        OBVIOUS
      <4>2. c \in Buckets /\ f \in Entries /\ bucket[c] = freeServed[f]
        BY <1>0, <3>3, <4>1 DEF FreeAllowanceIsOwn
      <4>3. c = b <=> f = e
        BY <3>1, <4>1, LabelIsEntry
      <4>4. bucket'[c] = freeServed'[f]
        BY <3>2, <4>2, <4>3
      <4> QED
        BY <4>1, <4>4
    <3> QED
      BY <3>2, <3>3 DEF FreeAllowanceIsOwn
  <2>3. CASE WindowPasses
    BY <1>0, <2>3 DEF WindowPasses, FreeAllowanceIsOwn
  <2>4. CASE \/ \E v \in Visits, t \in Payments : FromSession(v, t)
             \/ \E s \in Streams, v \in Visits, t \in Tokens, p \in Payments : Admit(s, v, t, p)
             \/ \E v \in Visits, t \in Tokens, p \in Payments :
                   \/ RejectPayment(v, t, p) \/ SettleAtOnce(v, t, p)
                   \/ SettleAtOnceFails(v, t, p)
             \/ \E s \in Streams : Settle(s) \/ SettleFails(s) \/ Discard(s)
             \/ \E p \in Payments : Lapse(p) \/ Expire(p)
             \/ UNCHANGED vars
    BY <2>1, <2>4 DEF FromSession, Admit, RejectPayment, SettleAtOnce, SettleAtOnceFails,
                      Settle, SettleFails, Discard, Lapse, Expire, vars
  <2> QED
    BY <2>2, <2>3, <2>4 DEF Next
<1>3. AllowanceInv => FreeAllowanceIsOwn
  OBVIOUS
<1> HIDE DEF AllowanceInv
<1> QED
  BY <1>1, <1>2, <1>3, PTL DEF Spec

=============================================================================
