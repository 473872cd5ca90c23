---------------------------- MODULE BackendProofs ----------------------------
(***************************************************************************)
(* Proofs about the session store in memory, for any policies, quotas and  *)
(* durations, any number of sessions and any number of threads inside      *)
(* `consume`, and about both stores together.                              *)
(*                                                                         *)
(* ServedAsBought is not inductive: a thread about to exchange a counter   *)
(* must have a session of its own policy under it (SpendInv), and an id    *)
(* nobody was given must not have served anything (FreshInv).              *)
(*                                                                         *)
(* Both stores implement SessionLedger: every step of either is an         *)
(* opening, a request served or wasted, a closing, or nothing the ledger   *)
(* sees.  The stores' invariants (SInv here, RInv of RedisProofs) say      *)
(* which.                                                                  *)
(***************************************************************************)
EXTENDS SessionBackends, RedisProofs, TLAPS

\* What a request spent, or is about to be, is on the policy it asked for.
SpendInv ==
    \A r \in Readers :
       /\ reader[r].pc # "idle" => reader[r].id \in SessionIds /\ reader[r].policy \in Policies
       /\ reader[r].pc = "spend" => Covers(sessions[reader[r].id], reader[r].policy)

\* Only ids that were given out have, or had, a session.
FreshInv ==
    \A i \in SessionIds \ issued :
       sessions[i] = NoSession /\ \A q \in Policies : served[i][q] = 0

\* What a live session has served, by policy.
Accounted(i) ==
    sessions[i] # NoSession =>
       \A q \in Policies :
          served[i][q] = IF q = sessions[i].policy THEN QUOTA[q] - sessions[i].left ELSE 0

SInv ==
    /\ TypeOK
    /\ SpendInv
    /\ FreshInv
    /\ \A i \in SessionIds : Accounted(i)

-----------------------------------------------------------------------------
(* Operators *)

\* A new session is one; spending and ageing keep it one, with its policy and
\* (ageing) its quota.
LEMMA NewSessionFacts ==
    ASSUME NEW q \in Policies
    PROVE  /\ NewSession(q) \in Session
           /\ NewSession(q) # NoSession
           /\ NewSession(q).policy = q
           /\ NewSession(q).left = QUOTA[q]
  BY TierAssumption DEF NewSession, Session, NoSession

LEMMA SessionIsSomething ==
    ASSUME NEW s \in Session
    PROVE  s # NoSession
  BY TierAssumption DEF Session, NoSession

LEMMA SpendFacts ==
    ASSUME NEW s \in Session, NEW n \in Nat, n # 0, Exchanges(s, n)
    PROVE  /\ AfterSpend(s, n) \in Session
           /\ AfterSpend(s, n).policy = s.policy
           /\ AfterSpend(s, n).left = s.left - 1
  BY DEF Exchanges, AfterSpend, Session

LEMMA ShorterFacts ==
    ASSUME NEW s \in Session
    PROVE  /\ Shorter(s) \in Session
           /\ Shorter(s).policy = s.policy
           /\ Shorter(s).left = s.left
  BY DEF Shorter, Session

LEMMA ShorterNothing == Shorter(NoSession) = NoSession
  BY DEF Shorter, NoSession

LEMMA SweepFacts ==
    ASSUME NEW s \in Session \cup {NoSession}
    PROVE  AfterSessionSweep(s) \in {s, NoSession}
  BY DEF AfterSessionSweep

-----------------------------------------------------------------------------
(* The invariant *)

LEMMA InitSInv == Init => SInv
<1> SUFFICES ASSUME Init PROVE SInv
  OBVIOUS
<1>1. TypeOK
  <2>1. IdleReader \in Reader
    BY DEF IdleReader, Reader
  <2> QED
    BY <2>1 DEF Init, TypeOK
<1>2. SpendInv
  BY DEF Init, SpendInv, IdleReader
<1>3. FreshInv
  BY DEF Init, FreshInv
<1>4. \A i \in SessionIds : Accounted(i)
  BY DEF Init, Accounted
<1> QED
  BY <1>1, <1>2, <1>3, <1>4 DEF SInv

\* A step of a reader that touches neither sessions nor the counts, and leaves
\* the reader idle, looking up, or on a session of its policy.
LEMMA ReaderStep ==
    ASSUME SInv, NEW r \in Readers, NEW x \in Reader,
           reader' = [reader EXCEPT ![r] = x],
           x.pc # "idle" => x.id \in SessionIds /\ x.policy \in Policies,
           x.pc = "spend" => Covers(sessions[x.id], x.policy),
           UNCHANGED <<sessions, issued, served>>
    PROVE  SInv'
<1>1. TypeOK'
  BY DEF SInv, TypeOK
<1>2. \A g \in Readers : reader'[g] = IF g = r THEN x ELSE reader[g]
  BY DEF SInv, TypeOK
<1>3. SpendInv'
  <2> SUFFICES ASSUME NEW g \in Readers
               PROVE  /\ reader'[g].pc # "idle" =>
                            reader'[g].id \in SessionIds /\ reader'[g].policy \in Policies
                      /\ reader'[g].pc = "spend" =>
                            Covers(sessions[reader'[g].id], reader'[g].policy)
    BY Zenon DEF SpendInv, Covers
  <2>1. CASE g = r
    BY <1>2, <2>1
  <2>2. CASE g # r
    BY <1>2, <2>2 DEF SInv, SpendInv
  <2> QED
    BY <2>1, <2>2
<1>4. FreshInv'
  BY Zenon DEF SInv, FreshInv
<1>5. (\A i \in SessionIds : Accounted(i))'
  BY Zenon DEF SInv, Accounted
<1> QED
  BY <1>1, <1>3, <1>4, <1>5 DEF SInv

LEMMA IdleStep ==
    ASSUME SInv, NEW r \in Readers, Return(r), UNCHANGED <<sessions, issued, served>>
    PROVE  SInv'
<1>1. IdleReader \in Reader
  BY DEF IdleReader, Reader
<1>2. IdleReader.pc = "idle"
  BY DEF IdleReader
<1> QED
  BY <1>1, <1>2, ReaderStep DEF Return

LEMMA LoadStep ==
    ASSUME SInv, NEW r \in Readers, Load(r) \/ Retry(r)
    PROVE  SInv'
<1> DEFINE n == sessions[reader[r].id].left
           x == [reader[r] EXCEPT !.pc = "spend", !.seen = n]
<1>1. reader[r] \in Reader /\ reader[r].id \in SessionIds /\ reader[r].policy \in Policies
  BY DEF SInv, TypeOK, SpendInv, Load, Retry
<1>2. Covers(sessions[reader[r].id], reader[r].policy)
  BY DEF Load, Retry, SInv, SpendInv
<1>3. sessions[reader[r].id] \in Session
  BY <1>1, <1>2 DEF SInv, TypeOK, Covers
<1>4. n \in Nat
  BY <1>3 DEF Session
<1>5. reader' = [reader EXCEPT ![r] = x]
  <2>1. CASE Load(r)
    BY <2>1 DEF Load
  <2>2. CASE Retry(r)
    <3>1. [reader[r] EXCEPT !.seen = n] = x
      BY <1>1, <2>2 DEF Retry, Reader
    <3> QED
      BY <2>2, <3>1 DEF Retry
  <2> QED
    BY <2>1, <2>2
<1> HIDE DEF n
<1>6. x \in Reader /\ x.pc = "spend" /\ x.id = reader[r].id /\ x.policy = reader[r].policy
  BY <1>1, <1>4 DEF Reader
<1>7. UNCHANGED <<sessions, issued, served>>
  BY DEF Load, Retry
<1> HIDE DEF x
<1> QED
  BY <1>1, <1>2, <1>5, <1>6, <1>7, ReaderStep

LEMMA SpendStep ==
    ASSUME SInv, NEW r \in Readers, Spend(r)
    PROVE  /\ SInv'
           /\ reader[r].id \in SessionIds
           /\ sessions[reader[r].id] \in Session
           /\ sessions[reader[r].id].left > 0
           /\ sessions[reader[r].id].policy = reader[r].policy
           /\ sessions'[reader[r].id] \in Session
           /\ sessions'[reader[r].id].left = sessions[reader[r].id].left - 1
           /\ sessions'[reader[r].id].policy = reader[r].policy
<1> DEFINE i == reader[r].id
           p == reader[r].policy
           s == sessions[reader[r].id]
           t == AfterSpend(s, reader[r].seen)
<1>1. i \in SessionIds /\ p \in Policies /\ Covers(s, p)
  BY DEF Spend, SInv, SpendInv
<1>2. s \in Session /\ s.policy = p /\ s # NoSession
  BY <1>1 DEF SInv, TypeOK, Covers
<1>3. reader[r].seen \in Nat /\ reader[r].seen # 0
  BY DEF Spend, SInv, TypeOK, Reader
<1>4. t \in Session /\ t.policy = s.policy /\ t.left = s.left - 1
  BY <1>2, <1>3, SpendFacts DEF Spend
<1>5. s.left \in Nat /\ s.left > 0
  BY <1>2, <1>3 DEF Spend, Exchanges, Session
<1>6. /\ sessions' = [sessions EXCEPT ![i] = t]
      /\ served' = [served EXCEPT ![i][p] = @ + 1]
      /\ reader' = [reader EXCEPT ![r] = IdleReader]
      /\ issued' = issued
  BY DEF Spend, Return
<1>7. sessions \in [SessionIds -> Session \cup {NoSession}]
  BY DEF SInv, TypeOK
<1>8. served \in [SessionIds -> [Policies -> Nat]]
  BY DEF SInv, TypeOK
<1>9. reader \in [Readers -> Reader]
  BY DEF SInv, TypeOK
<1>10. Accounted(i)
  BY <1>1 DEF SInv
<1>11. SpendInv
  BY DEF SInv
<1>12. FreshInv
  BY DEF SInv
<1>13. issued \subseteq SessionIds
  BY DEF SInv, TypeOK
<1>14. \A j \in SessionIds : Accounted(j)
  BY DEF SInv
<1> HIDE DEF i, p, s, t
<1>15. sessions'[i] = t /\ \A j \in SessionIds : j # i => sessions'[j] = sessions[j]
  BY <1>1, <1>6, <1>7
<1>16. /\ \A q \in Policies : served'[i][q] = IF q = p THEN served[i][q] + 1 ELSE served[i][q]
       /\ \A j \in SessionIds : j # i => served'[j] = served[j]
  BY <1>1, <1>6, <1>8
<1>17. TypeOK'
  <2>1. sessions' \in [SessionIds -> Session \cup {NoSession}]
    BY <1>1, <1>4, <1>6, <1>7
  <2>2. served' \in [SessionIds -> [Policies -> Nat]]
    BY <1>1, <1>6, <1>8
  <2>3. IdleReader \in Reader
    BY DEF IdleReader, Reader
  <2>4. reader' \in [Readers -> Reader]
    BY <1>6, <1>9, <2>3
  <2> QED
    BY <1>6, <1>13, <2>1, <2>2, <2>4 DEF TypeOK
<1>18. SpendInv'
  <2> SUFFICES ASSUME NEW g \in Readers, reader'[g].pc # "idle"
               PROVE  /\ reader'[g].id \in SessionIds /\ reader'[g].policy \in Policies
                      /\ reader'[g].pc = "spend" =>
                            Covers(sessions'[reader'[g].id], reader'[g].policy)
    BY Zenon DEF SpendInv, Covers
  <2>1. g # r /\ reader'[g] = reader[g]
    BY <1>6, <1>9 DEF IdleReader
  <2>2. /\ reader[g].id \in SessionIds /\ reader[g].policy \in Policies
        /\ reader[g].pc = "spend" => Covers(sessions[reader[g].id], reader[g].policy)
    BY <1>11, <2>1 DEF SpendInv
  <2>3. CASE reader[g].id = i
    <3>1. t # NoSession
      BY <1>4, SessionIsSomething
    <3> QED
      BY <1>4, <1>15, <2>1, <2>2, <2>3, <3>1 DEF Covers, s, i
  <2>4. CASE reader[g].id # i
    BY <1>15, <2>1, <2>2, <2>4 DEF Covers
  <2> QED
    BY <2>3, <2>4
<1>19. FreshInv'
  <2>1. i \in issued
    BY <1>1, <1>2, <1>12 DEF FreshInv, s, i
  <2> QED
    BY <1>6, <1>12, <1>15, <1>16, <2>1 DEF FreshInv
<1>20. \A j \in SessionIds : Accounted(j)'
  <2> SUFFICES ASSUME NEW j \in SessionIds PROVE Accounted(j)'
    OBVIOUS
  <2>1. CASE j # i
    <3>1. sessions'[j] = sessions[j] /\ served'[j] = served[j] /\ Accounted(j)
      BY <1>14, <1>15, <1>16, <2>1
    <3> QED
      BY <3>1, Zenon DEF Accounted
  <2>2. CASE j = i
    <3> SUFFICES ASSUME NEW q \in Policies
                 PROVE  served'[i][q] = IF q = t.policy THEN QUOTA[q] - t.left ELSE 0
      BY <1>15, <2>2 DEF Accounted
    <3>1. served[i][q] = IF q = p THEN QUOTA[q] - s.left ELSE 0
      BY <1>2, <1>10 DEF Accounted, s, i
    <3>2. QUOTA[q] \in Nat
      BY TierAssumption
    <3> QED
      BY <1>2, <1>4, <1>5, <1>16, <3>1, <3>2
  <2> QED
    BY <2>1, <2>2
<1>21. SInv'
  BY <1>17, <1>18, <1>19, <1>20 DEF SInv
<1> QED
  BY <1>1, <1>2, <1>4, <1>5, <1>15, <1>21 DEF i, p, s

LEMMA CreateStep ==
    ASSUME SInv, NEW i \in SessionIds, NEW q \in Policies, Create(i, q)
    PROVE  SInv'
<1> DEFINE n == NewSession(q)
<1>1. n \in Session /\ n # NoSession /\ n.policy = q /\ n.left = QUOTA[q]
  BY NewSessionFacts
<1>2. i \notin issued /\ sessions[i] = NoSession /\ \A p \in Policies : served[i][p] = 0
  BY DEF Create, SInv, FreshInv
<1>3. sessions' = [sessions EXCEPT ![i] = n] /\ issued' = issued \cup {i}
      /\ reader' = reader /\ served' = served
  BY DEF Create
<1> HIDE DEF n
<1>4. sessions \in [SessionIds -> Session \cup {NoSession}]
  BY DEF SInv, TypeOK
<1>5. sessions'[i] = n /\ \A j \in SessionIds : j # i => sessions'[j] = sessions[j]
  BY <1>3, <1>4
<1>6. TypeOK'
  BY <1>1, <1>3, <1>4 DEF SInv, TypeOK
<1>7. SpendInv'
  <2> SUFFICES ASSUME NEW g \in Readers, reader[g].pc # "idle"
               PROVE  /\ reader[g].id \in SessionIds /\ reader[g].policy \in Policies
                      /\ reader[g].pc = "spend" =>
                            Covers(sessions'[reader[g].id], reader[g].policy)
    BY <1>3, Zenon DEF SpendInv, Covers
  <2>1. /\ reader[g].id \in SessionIds /\ reader[g].policy \in Policies
        /\ reader[g].pc = "spend" => Covers(sessions[reader[g].id], reader[g].policy)
    BY DEF SInv, SpendInv
  <2> QED
    BY <1>2, <1>5, <2>1 DEF Covers
<1>8. FreshInv'
  BY <1>3, <1>5 DEF SInv, FreshInv
<1>9. \A j \in SessionIds : Accounted(j)'
  <2> SUFFICES ASSUME NEW j \in SessionIds PROVE Accounted(j)'
    OBVIOUS
  <2>1. CASE j # i
    <3>1. sessions'[j] = sessions[j] /\ served'[j] = served[j] /\ Accounted(j)
      BY <1>3, <1>5, <2>1 DEF SInv
    <3> QED
      BY <3>1, Zenon DEF Accounted
  <2>2. CASE j = i
    <3>1. \A p \in Policies : QUOTA[p] - QUOTA[p] = 0
      BY TierAssumption
    <3> QED
      BY <1>1, <1>2, <1>3, <1>5, <2>2, <3>1 DEF Accounted
  <2> QED
    BY <2>1, <2>2
<1> QED
  BY <1>6, <1>7, <1>8, <1>9 DEF SInv

\* Sessions are kept with their policy and quota, or vanish from under nobody.
LEMMA KeepStep ==
    ASSUME SInv, UNCHANGED <<issued, served>>,
           sessions' \in [SessionIds -> Session \cup {NoSession}],
           \A i \in SessionIds :
              \/ sessions'[i] = NoSession
              \/ /\ sessions[i] # NoSession
                 /\ sessions'[i].policy = sessions[i].policy
                 /\ sessions'[i].left = sessions[i].left,
           reader' \in [Readers -> Reader],
           \A r \in Readers :
              \/ reader'[r].pc = "idle"
              \/ /\ reader'[r] = reader[r]
                 /\ reader[r].pc = "spend" => sessions'[reader[r].id] # NoSession
    PROVE  SInv'
<1>1. TypeOK'
  BY DEF SInv, TypeOK
<1>2. SpendInv'
  <2> SUFFICES ASSUME NEW g \in Readers, reader'[g].pc # "idle"
               PROVE  /\ reader'[g].id \in SessionIds /\ reader'[g].policy \in Policies
                      /\ reader'[g].pc = "spend" =>
                            Covers(sessions'[reader'[g].id], reader'[g].policy)
    BY Zenon DEF SpendInv, Covers
  <2>1. reader'[g] = reader[g] /\ (reader[g].pc = "spend" => sessions'[reader[g].id] # NoSession)
    OBVIOUS
  <2>2. /\ reader[g].id \in SessionIds /\ reader[g].policy \in Policies
        /\ reader[g].pc = "spend" => Covers(sessions[reader[g].id], reader[g].policy)
    BY <2>1 DEF SInv, SpendInv
  <2> QED
    BY <2>1, <2>2 DEF Covers
<1>3. FreshInv'
  BY DEF SInv, FreshInv
<1>4. \A i \in SessionIds : Accounted(i)'
  <2> SUFFICES ASSUME NEW i \in SessionIds, sessions'[i] # NoSession, NEW q \in Policies
               PROVE  served[i][q] =
                        IF q = sessions'[i].policy THEN QUOTA[q] - sessions'[i].left ELSE 0
    BY DEF Accounted
  <2>1. Accounted(i)
    BY DEF SInv
  <2> QED
    BY <2>1 DEF Accounted
<1> QED
  BY <1>1, <1>2, <1>3, <1>4 DEF SInv

LEMMA SweepStep ==
    ASSUME SInv, NEW i \in SessionIds, Sweep(i)
    PROVE  SInv'
<1>1. sessions \in [SessionIds -> Session \cup {NoSession}] /\ reader \in [Readers -> Reader]
  BY DEF SInv, TypeOK
<1>2. AfterSessionSweep(sessions[i]) \in {sessions[i], NoSession}
  BY <1>1, SweepFacts
<1>3. AfterSessionSweep(sessions[i]) = NoSession
  BY <1>2 DEF Sweep
<1>4. sessions' = [sessions EXCEPT ![i] = NoSession] /\ UNCHANGED <<issued, reader, served>>
  BY <1>3 DEF Sweep
<1>5. \A r \in Readers : reader[r].pc = "spend" => sessions'[reader[r].id] # NoSession
  <2> SUFFICES ASSUME NEW r \in Readers, reader[r].pc = "spend"
               PROVE  sessions'[reader[r].id] # NoSession
    OBVIOUS
  <2>1. reader[r].id # i
    BY DEF Sweep
  <2>2. reader[r].id \in SessionIds /\ sessions[reader[r].id] # NoSession
    BY DEF SInv, SpendInv, Covers
  <2> QED
    BY <1>1, <1>4, <2>1, <2>2
<1>6. \A j \in SessionIds : sessions'[j] = NoSession \/ sessions'[j] = sessions[j]
  BY <1>1, <1>4
<1>7. sessions' \in [SessionIds -> Session \cup {NoSession}]
  BY <1>1, <1>4
<1> QED
  BY <1>1, <1>4, <1>5, <1>6, <1>7, KeepStep

LEMMA TickStep ==
    ASSUME SInv, Tick
    PROVE  /\ SInv'
           /\ \A i \in SessionIds :
                 \/ sessions[i] = NoSession /\ sessions'[i] = NoSession
                 \/ /\ sessions[i] \in Session
                    /\ sessions'[i] \in Session
                    /\ sessions'[i].policy = sessions[i].policy
                    /\ sessions'[i].left = sessions[i].left
<1>1. sessions \in [SessionIds -> Session \cup {NoSession}] /\ reader \in [Readers -> Reader]
  BY DEF SInv, TypeOK
<1>2. \A i \in SessionIds :
         \/ sessions[i] = NoSession /\ sessions'[i] = NoSession
         \/ /\ sessions[i] \in Session
            /\ sessions'[i] \in Session
            /\ sessions'[i].policy = sessions[i].policy
            /\ sessions'[i].left = sessions[i].left
  BY <1>1, ShorterFacts, ShorterNothing DEF Tick
<1>3. sessions' \in [SessionIds -> Session \cup {NoSession}]
  <2>1. sessions' = [i \in SessionIds |-> Shorter(sessions[i])]
    BY DEF Tick
  <2>2. \A i \in SessionIds : Shorter(sessions[i]) \in Session \cup {NoSession}
    BY <1>1, ShorterFacts, ShorterNothing
  <2> QED
    BY <2>1, <2>2
<1>4. UNCHANGED <<issued, reader, served>>
  BY DEF Tick
<1>5. \A r \in Readers : reader[r].pc = "spend" => sessions'[reader[r].id] # NoSession
  BY <1>2, SessionIsSomething DEF SInv, SpendInv, Covers
<1>6. SInv'
  BY <1>1, <1>2, <1>3, <1>4, <1>5, SessionIsSomething, KeepStep
<1> QED
  BY <1>2, <1>6

LEMMA RestartStep ==
    ASSUME SInv, Restart
    PROVE  SInv'
<1>1. IdleReader \in Reader /\ IdleReader.pc = "idle"
  BY DEF IdleReader, Reader
<1>2. /\ sessions' \in [SessionIds -> Session \cup {NoSession}]
      /\ reader' \in [Readers -> Reader]
      /\ \A i \in SessionIds : sessions'[i] = NoSession
      /\ \A r \in Readers : reader'[r].pc = "idle"
      /\ UNCHANGED <<issued, served>>
  BY <1>1 DEF Restart
<1> QED
  BY <1>2, KeepStep

LEMMA PresentStep ==
    ASSUME SInv, NEW r \in Readers, NEW i \in SessionIds, NEW q \in Policies,
           Present(r, i, q)
    PROVE  SInv'
<1> DEFINE x == [pc |-> "lookup", id |-> i, policy |-> q, seen |-> 0]
<1>1. x \in Reader /\ x.pc = "lookup" /\ x.id = i /\ x.policy = q
  BY DEF Reader
<1>2. reader' = [reader EXCEPT ![r] = x] /\ UNCHANGED <<sessions, issued, served>>
  BY DEF Present
<1> HIDE DEF x
<1> QED
  BY <1>1, <1>2, ReaderStep

LEMMA NextSInv == SInv /\ [Next]_vars => SInv'
<1> SUFFICES ASSUME SInv, [Next]_vars PROVE SInv'
  OBVIOUS
<1>1. ASSUME NEW i \in SessionIds, NEW q \in Policies, Create(i, q) PROVE SInv'
  BY <1>1, CreateStep
<1>2. ASSUME NEW r \in Readers, NEW i \in SessionIds, NEW q \in Policies, Present(r, i, q)
      PROVE  SInv'
  BY <1>2, PresentStep
<1>3. ASSUME NEW r \in Readers, Consume(r) PROVE SInv'
  <2>1. CASE Reject(r) \/ Exhausted(r)
    BY <2>1, IdleStep DEF Reject, Exhausted
  <2>2. CASE Load(r) \/ Retry(r)
    BY <2>2, LoadStep
  <2>3. CASE Spend(r)
    BY <2>3, SpendStep
  <2> QED
    BY <1>3, <2>1, <2>2, <2>3 DEF Consume
<1>4. ASSUME NEW i \in SessionIds, Sweep(i) PROVE SInv'
  BY <1>4, SweepStep
<1>5. CASE Tick
  BY <1>5, TickStep
<1>6. CASE Restart
  BY <1>6, RestartStep
<1>7. CASE UNCHANGED vars
  <2>1. UNCHANGED <<sessions, issued, reader, served>>
    BY <1>7 DEF vars
  <2> QED
    BY <2>1, Zenon DEF SInv, TypeOK, SpendInv, FreshInv, Accounted, Covers
<1> QED
  BY <1>1, <1>2, <1>3, <1>4, <1>5, <1>6, <1>7 DEF Next

LEMMA AlwaysSInv == Spec => []SInv
  BY InitSInv, NextSInv, PTL DEF Spec

-----------------------------------------------------------------------------
(* Theorems *)

\* The map, the threads and the counts stay well typed, whatever interleaves.
THEOREM SessionTypeCorrect == Spec => []TypeOK
<1>1. SInv => TypeOK
  BY DEF SInv
<1> QED
  BY <1>1, AlwaysSInv, PTL

\* MemorySessionStore's accounting for any number of threads in spend_one's
\* compare-exchange loop, sessions, policies and quotas: a live session has
\* served exactly what is gone from its quota, on its own policy only, and no
\* thread spends from a session that the cleanup removed.
THEOREM SessionsServeAsBought == Spec => []ServedAsBought
<1>1. SInv => ServedAsBought
  BY DEF SInv, SpendInv, Covers, Accounted, ServedAsBought
<1> QED
  BY <1>1, AlwaysSInv, PTL

-----------------------------------------------------------------------------
(* Both stores implement SessionLedger *)

LEMMA BookedSession ==
    ASSUME NEW s \in Session
    PROVE  /\ Booked(s) = [product |-> s.policy, left |-> s.left]
           /\ Booked(s) # Nothing
           /\ Booked(s).product = s.policy
           /\ Booked(s).left = s.left
<1>1. Booked(s) = [product |-> s.policy, left |-> s.left]
  BY SessionIsSomething DEF Booked
<1>2. [product |-> s.policy, left |-> s.left] \in [product : Policies, left : Nat]
  BY DEF Session
<1> QED
  BY <1>1, <1>2, BookedAssumption

LEMMA BookedNothing == Booked(NoSession) = Nothing
  BY DEF Booked

\* One account changes.
LEMMA OneAccount ==
    ASSUME NEW Ids, NEW f, NEW g, NEW i \in Ids, NEW x,
           Booked(g[i]) = x,
           \A j \in Ids : j # i => g[j] = f[j]
    PROVE  [j \in Ids |-> Booked(g[j])] = [[j \in Ids |-> Booked(f[j])] EXCEPT ![i] = x]
<1>1. \A j \in Ids : Booked(g[j]) = IF j = i THEN x ELSE Booked(f[j])
  BY Zenon
<1> HIDE DEF Booked
<1> QED
  BY <1>1

\* Some accounts are closed and the others keep what the ledger sees of them.
LEMMA SomeClosed ==
    ASSUME NEW Ids, NEW f, NEW g, NEW S, S = {j \in Ids : Booked(g[j]) = Nothing},
           \A j \in Ids : Booked(g[j]) \in {Booked(f[j]), Nothing}
    PROVE  [j \in Ids |-> Booked(g[j])] =
              [j \in Ids |-> IF j \in S THEN Nothing ELSE [k \in Ids |-> Booked(f[k])][j]]
<1>1. \A j \in Ids : Booked(g[j]) =
         IF j \in S THEN Nothing ELSE [k \in Ids |-> Booked(f[k])][j]
  OBVIOUS
<1> QED
  BY <1>1

\* A request taken from one account.
LEMMA OneSpent ==
    ASSUME NEW Ids, NEW f, NEW g, NEW i \in Ids,
           f[i] \in Session, g[i] \in Session,
           g[i].policy = f[i].policy, g[i].left = f[i].left - 1,
           \A j \in Ids : j # i => g[j] = f[j]
    PROVE  [j \in Ids |-> Booked(g[j])] =
              [[j \in Ids |-> Booked(f[j])] EXCEPT ![i].left = @ - 1]
<1> DEFINE a == Booked(f[i])
           x == [a EXCEPT !.left = @ - 1]
<1>1. a = [product |-> f[i].policy, left |-> f[i].left]
  BY BookedSession
<1>2. Booked(g[i]) = [product |-> g[i].policy, left |-> g[i].left]
  BY BookedSession
<1>3. Booked(g[i]) = x
  BY <1>1, <1>2
<1>4. [j \in Ids |-> Booked(g[j])] = [[j \in Ids |-> Booked(f[j])] EXCEPT ![i] = x]
  BY <1>3, OneAccount
<1>5. [j \in Ids |-> Booked(f[j])][i] = a
  OBVIOUS
<1> HIDE DEF a
<1> QED
  BY <1>4, <1>5

-----------------------------------------------------------------------------
(* The in-memory store *)

LEMMA MemoryInit == Init => MemoryLedger!LedgerInit
  BY BookedNothing DEF Init, MemoryLedger!LedgerInit

LEMMA MemoryOpens ==
    ASSUME SInv, NEW i \in SessionIds, NEW q \in Policies, Create(i, q)
    PROVE  MemoryLedger!Open(i, q)
<1>1. /\ i \notin issued
      /\ issued' = issued \cup {i}
      /\ served' = served
      /\ sessions' = [sessions EXCEPT ![i] = NewSession(q)]
  BY DEF Create
<1>2. sessions'[i] = NewSession(q) /\ \A j \in SessionIds : j # i => sessions'[j] = sessions[j]
  BY <1>1 DEF SInv, TypeOK
<1>3. Booked(sessions'[i]) = [product |-> q, left |-> QUOTA[q]]
  BY <1>2, NewSessionFacts, BookedSession
<1>4. [j \in SessionIds |-> Booked(sessions'[j])] =
         [[j \in SessionIds |-> Booked(sessions[j])] EXCEPT ![i] = [product |-> q, left |-> QUOTA[q]]]
  BY <1>2, <1>3, OneAccount
<1> QED
  BY <1>1, <1>4 DEF MemoryLedger!Open, Booked

LEMMA MemoryServes ==
    ASSUME SInv, NEW r \in Readers, Spend(r)
    PROVE  \E i \in SessionIds : MemoryLedger!Serve(i)
<1>1. PICK i \in SessionIds, q \in Policies : i = reader[r].id /\ q = reader[r].policy
  BY DEF Spend, SInv, SpendInv
<1>2. /\ sessions[i] \in Session /\ sessions'[i] \in Session
      /\ sessions[i].left > 0
      /\ sessions[i].policy = q
      /\ sessions'[i].policy = sessions[i].policy
      /\ sessions'[i].left = sessions[i].left - 1
  BY <1>1, SpendStep
<1>3. /\ issued' = issued
      /\ served' = [served EXCEPT ![i][q] = @ + 1]
      /\ \A j \in SessionIds : j # i => sessions'[j] = sessions[j]
  BY <1>1 DEF Spend, SInv, TypeOK
<1> DEFINE a == [j \in SessionIds |-> Booked(sessions[j])]
<1>4. [j \in SessionIds |-> Booked(sessions'[j])] = [a EXCEPT ![i].left = @ - 1]
  BY <1>2, <1>3, OneSpent
<1>5. a[i] # Nothing /\ a[i].left > 0 /\ a[i].product = q
  BY <1>2, BookedSession
<1>6. MemoryLedger!Deduct(i)
  BY <1>3, <1>4, <1>5 DEF MemoryLedger!Deduct, Booked
<1>7. served' = [served EXCEPT ![i][a[i].product] = @ + 1]
  BY <1>3, <1>5
<1>8. MemoryLedger!Serve(i)
  BY <1>6, <1>7 DEF MemoryLedger!Serve
<1> QED
  BY <1>8

LEMMA MemoryCloses ==
    ASSUME UNCHANGED <<issued, served>>,
           \A j \in SessionIds : Booked(sessions'[j]) \in {Booked(sessions[j]), Nothing}
    PROVE  \E S \in SUBSET SessionIds : MemoryLedger!Close(S)
<1>1. PICK S \in SUBSET SessionIds : S = {j \in SessionIds : Booked(sessions'[j]) = Nothing}
  OBVIOUS
<1>2. [j \in SessionIds |-> Booked(sessions'[j])] =
         [j \in SessionIds |-> IF j \in S THEN Nothing
                               ELSE [k \in SessionIds |-> Booked(sessions[k])][j]]
  BY <1>1, SomeClosed
<1>3. MemoryLedger!Close(S)
  BY <1>2 DEF MemoryLedger!Close, Booked
<1> QED
  BY <1>3

LEMMA MemoryStep == SInv /\ [Next]_vars => [MemoryLedger!LedgerNext]_(MemoryLedger!ledgerVars)
<1> SUFFICES ASSUME SInv, [Next]_vars
             PROVE  MemoryLedger!LedgerNext \/ UNCHANGED MemoryLedger!ledgerVars
  OBVIOUS
<1>1. ASSUME NEW i \in SessionIds, NEW q \in Policies, Create(i, q)
      PROVE  MemoryLedger!LedgerNext
  <2>1. MemoryLedger!Open(i, q)
    BY <1>1, MemoryOpens
  <2> QED
    BY <2>1 DEF MemoryLedger!LedgerNext
<1>2. ASSUME NEW r \in Readers, Spend(r)
      PROVE  MemoryLedger!LedgerNext
  <2>1. \E i \in SessionIds : MemoryLedger!Serve(i)
    BY <1>2, MemoryServes
  <2> QED
    BY <2>1 DEF MemoryLedger!LedgerNext
<1>3. ASSUME UNCHANGED <<issued, served>>,
             \A j \in SessionIds : Booked(sessions'[j]) \in {Booked(sessions[j]), Nothing}
      PROVE  MemoryLedger!LedgerNext
  <2>1. \E S \in SUBSET SessionIds : MemoryLedger!Close(S)
    BY <1>3, MemoryCloses
  <2> QED
    BY <2>1 DEF MemoryLedger!LedgerNext
<1>4. ASSUME NEW i \in SessionIds, Sweep(i)
      PROVE  MemoryLedger!LedgerNext
  <2>1. \A j \in SessionIds : sessions'[j] \in {sessions[j], NoSession}
    BY <1>4, SweepFacts DEF Sweep, SInv, TypeOK
  <2>2. \A j \in SessionIds : Booked(sessions'[j]) \in {Booked(sessions[j]), Nothing}
    BY <2>1, BookedNothing
  <2> QED
    BY <1>3, <1>4, <2>2 DEF Sweep
<1>5. CASE Tick
  <2>1. \A j \in SessionIds : Booked(sessions'[j]) = Booked(sessions[j])
    BY <1>5, TickStep, BookedSession
  <2> QED
    BY <1>3, <1>5, <2>1 DEF Tick
<1>6. CASE Restart
  <2>1. \A j \in SessionIds : Booked(sessions'[j]) = Nothing
    BY <1>6, BookedNothing DEF Restart
  <2> QED
    BY <1>3, <1>6, <2>1 DEF Restart
<1>7. ASSUME UNCHANGED <<sessions, issued, served>>
      PROVE  MemoryLedger!LedgerNext
  BY <1>3, <1>7
<1>8. ASSUME NEW r \in Readers, Consume(r), ~Spend(r)
      PROVE  UNCHANGED <<sessions, issued, served>>
  BY <1>8 DEF Consume, Reject, Load, Retry, Exhausted
<1>9. ASSUME NEW r \in Readers, NEW i \in SessionIds, NEW q \in Policies, Present(r, i, q)
      PROVE  UNCHANGED <<sessions, issued, served>>
  BY <1>9 DEF Present
<1>10. CASE UNCHANGED vars
  BY <1>7, <1>10 DEF vars
<1> QED
  BY <1>1, <1>2, <1>4, <1>5, <1>6, <1>7, <1>8, <1>9, <1>10 DEF Next

LEMMA MemoryImplements == Spec => MemoryLedger!LedgerSpec
  BY MemoryInit, MemoryStep, AlwaysSInv, PTL DEF Spec, MemoryLedger!LedgerSpec

-----------------------------------------------------------------------------
(* The Redis store *)

LEMMA RedisStarts == RedisInit => RedisLedger!LedgerInit
  BY BookedNothing DEF RedisInit, RedisLedger!LedgerInit

LEMMA RedisOpens ==
    ASSUME RInv, NEW q \in Policies, NEW i \in Keys, i \notin drawn,
           hash'[i] = Stored(q),
           \A j \in Keys : j # i => hash'[j] = hash[j],
           drawn' = drawn \cup {i},
           answered' = answered
    PROVE  RedisLedger!Open(i, q)
<1>1. Booked(hash'[i]) = [product |-> q, left |-> QUOTA[q]]
  BY StoredFacts, BookedSession
<1>2. [j \in Keys |-> Booked(hash'[j])] =
         [[j \in Keys |-> Booked(hash[j])] EXCEPT ![i] = [product |-> q, left |-> QUOTA[q]]]
  BY <1>1, OneAccount
<1> QED
  BY <1>2 DEF RedisLedger!Open, Booked

LEMMA RedisServes ==
    ASSUME RInv, NEW w \in Workers, SpendRan(w)
    PROVE  \E i \in Keys : RedisLedger!Serve(i) \/ RedisLedger!Waste(i)
<1>1. PICK i \in Keys, q \in Policies : i = worker[w].id /\ q = worker[w].policy
  BY DEF SpendRan, RInv, WorkerInv, Sound
<1>2. /\ hash[i] \in Session /\ hash'[i] \in Session
      /\ hash[i].left > 0
      /\ hash[i].policy = q
      /\ hash'[i].policy = hash[i].policy
      /\ hash'[i].left = hash[i].left - 1
  BY <1>1, SpendRanStore
<1>3. /\ drawn' = drawn
      /\ answered' = [answered EXCEPT ![i][q] = @ + 1] \/ answered' = answered
      /\ \A j \in Keys : j # i => hash'[j] = hash[j]
  BY <1>1 DEF SpendRan, RInv, StoreInv
<1> DEFINE a == [j \in Keys |-> Booked(hash[j])]
<1>4. [j \in Keys |-> Booked(hash'[j])] = [a EXCEPT ![i].left = @ - 1]
  BY <1>2, <1>3, OneSpent
<1>5. a[i] # Nothing /\ a[i].left > 0 /\ a[i].product = q
  BY <1>2, BookedSession
<1>6. RedisLedger!Deduct(i)
  BY <1>3, <1>4, <1>5 DEF RedisLedger!Deduct, Booked
<1>7. answered' = [answered EXCEPT ![i][a[i].product] = @ + 1] \/ answered' = answered
  BY <1>3, <1>5
<1>8. RedisLedger!Serve(i) \/ RedisLedger!Waste(i)
  BY <1>6, <1>7 DEF RedisLedger!Serve, RedisLedger!Waste
<1> QED
  BY <1>8

LEMMA RedisCloses ==
    ASSUME UNCHANGED <<drawn, answered>>,
           \A j \in Keys : Booked(hash'[j]) \in {Booked(hash[j]), Nothing}
    PROVE  \E S \in SUBSET Keys : RedisLedger!Close(S)
<1>1. PICK S \in SUBSET Keys : S = {j \in Keys : Booked(hash'[j]) = Nothing}
  OBVIOUS
<1>2. [j \in Keys |-> Booked(hash'[j])] =
         [j \in Keys |-> IF j \in S THEN Nothing ELSE [k \in Keys |-> Booked(hash[k])][j]]
  BY <1>1, SomeClosed
<1>3. RedisLedger!Close(S)
  BY <1>2 DEF RedisLedger!Close, Booked
<1> QED
  BY <1>3

LEMMA RedisStep ==
    RInv /\ [RedisNext]_redisVars => [RedisLedger!LedgerNext]_(RedisLedger!ledgerVars)
<1> SUFFICES ASSUME RInv, [RedisNext]_redisVars
             PROVE  RedisLedger!LedgerNext \/ UNCHANGED RedisLedger!ledgerVars
  OBVIOUS
<1>1. ASSUME UNCHANGED <<drawn, answered>>,
             \A j \in Keys : Booked(hash'[j]) \in {Booked(hash[j]), Nothing}
      PROVE  RedisLedger!LedgerNext
  <2>1. \E S \in SUBSET Keys : RedisLedger!Close(S)
    BY <1>1, RedisCloses
  <2> QED
    BY <2>1 DEF RedisLedger!LedgerNext
<1>2. ASSUME UNCHANGED <<hash, drawn, answered>>
      PROVE  RedisLedger!LedgerNext
  BY <1>1, <1>2
<1>3. ASSUME NEW w \in Workers, Mints(w)
      PROVE  RedisLedger!LedgerNext
  <2>1. answered' = answered
    BY <1>3 DEF Mints, counters
  <2>2. PICK q \in Policies : q = worker[w].policy
    BY <1>3, MintsStore
  <2>3. \/ \E i \in Keys \ drawn :
             hash' = [hash EXCEPT ![i] = Stored(q)] /\ drawn' = drawn \cup {i}
        \/ UNCHANGED <<hash, drawn>>
    BY <1>3, <2>2, MintsStore
  <2>4. ASSUME NEW i \in Keys \ drawn,
               hash' = [hash EXCEPT ![i] = Stored(q)], drawn' = drawn \cup {i}
        PROVE  RedisLedger!LedgerNext
    <3>1. hash'[i] = Stored(q) /\ \A j \in Keys : j # i => hash'[j] = hash[j]
      BY <2>4 DEF RInv, StoreInv
    <3>2. RedisLedger!Open(i, q)
      BY <2>1, <2>4, <3>1, RedisOpens
    <3> QED
      BY <3>2 DEF RedisLedger!LedgerNext
  <2> QED
    BY <1>2, <2>1, <2>3, <2>4
<1>4. ASSUME NEW w \in Workers, SpendRan(w)
      PROVE  RedisLedger!LedgerNext
  <2>1. \E i \in Keys : RedisLedger!Serve(i) \/ RedisLedger!Waste(i)
    BY <1>4, RedisServes
  <2> QED
    BY <2>1 DEF RedisLedger!LedgerNext
<1>5. ASSUME NEW w \in Workers, WorkerStep(w), ~SpendRan(w), ~Mints(w)
      PROVE  UNCHANGED <<hash, drawn, answered>>
  BY <1>5 DEF WorkerStep, SpendRefused, ClaimRefused, Claimed, GivesBack, Reverifies,
              Broadcasts, storeVars, counters
<1>6. CASE Second
  <2>1. \A j \in Keys : Booked(hash'[j]) \in {Booked(hash[j]), Nothing}
    <3> SUFFICES ASSUME NEW j \in Keys
                 PROVE  Booked(hash'[j]) \in {Booked(hash[j]), Nothing}
      OBVIOUS
    <3>1. \/ hash'[j] = NoSession
          \/ /\ hash[j] \in Session
             /\ hash'[j] \in Session
             /\ hash'[j].policy = hash[j].policy
             /\ hash'[j].left = hash[j].left
      BY <1>6, SecondStore DEF RInv
    <3> QED
      BY <3>1, BookedSession, BookedNothing
  <2> QED
    BY <1>1, <1>6, <2>1 DEF Second, counters
<1>7. CASE LoseKeys
  <2>1. \A j \in Keys : hash'[j] \in {hash[j], NoSession}
    BY <1>7, LoseStore DEF RInv
  <2>2. \A j \in Keys : Booked(hash'[j]) \in {Booked(hash[j]), Nothing}
    BY <2>1, BookedNothing
  <2> QED
    BY <1>1, <1>7, <2>2 DEF LoseKeys, counters
<1>8. ASSUME \/ \E w \in Workers, i \in Keys, q \in Policies : Presents(w, i, q)
             \/ \E w \in Workers, p \in Bought, q \in Policies : Arrives(w, p, q)
             \/ \E r \in Replicas : CrashReplica(r)
             \/ UNCHANGED redisVars
      PROVE  UNCHANGED <<hash, drawn, answered>>
  BY <1>8 DEF Presents, Arrives, CrashReplica, storeVars, counters, redisVars
<1> QED
  BY <1>2, <1>3, <1>4, <1>5, <1>6, <1>7, <1>8 DEF RedisNext

LEMMA RedisImplements == RedisSpec => RedisLedger!LedgerSpec
  BY RedisStarts, RedisStep, AlwaysRInv, PTL DEF RedisSpec, RedisLedger!LedgerSpec

-----------------------------------------------------------------------------
(* The process, with the backend it was started with *)

LEMMA StepOfEach ==
    [Memory \/ Redis]_allVars => [Next]_vars /\ [RedisNext]_redisVars
  BY Zenon DEF Memory, Redis, allVars, vars, redisVars

\* create_session, consume and the sweep of whichever backend the process was
\* started with, for any number of threads, replicas, sessions and policies and
\* any crash, lost answer or lost key: a session is opened once for what was
\* bought, serves at most that on that policy, and is never extended or revived.
THEOREM LedgerKept == BackendSpec => ImplementsLedger
<1>1. BackendInit => Init /\ RedisInit
  BY DEF BackendInit
<1>2. BackendSpec => Spec /\ RedisSpec
  BY <1>1, StepOfEach, PTL DEF BackendSpec, Spec, RedisSpec
<1> QED
  BY <1>2, MemoryImplements, RedisImplements, PTL DEF ImplementsLedger
=============================================================================
