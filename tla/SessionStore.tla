---------------------------- MODULE SessionStore ----------------------------
(***************************************************************************)
(* The in-memory session store (MemorySessionStore, src/src/session.rs)    *)
(* under concurrent use: worker threads consuming sessions, new sessions   *)
(* being created, the cleanup task and the clock.                          *)
(*                                                                         *)
(* A thread in `consume` reads the clock and checks the token, then takes  *)
(* the session from the map, and then spends one request in a              *)
(* compare-exchange loop.  From the lookup to the end it holds the map     *)
(* shard's read lock, so the cleanup task cannot remove that session.      *)
(***************************************************************************)
EXTENDS PaidSession, FiniteSets

CONSTANTS
    SessionIds,    \* random ids; one is never drawn twice
    Readers        \* threads that can be inside `consume`

VARIABLES
    sessions,      \* the map: id -> Session, or NoSession
    issued,        \* ids whose token some client has
    reader,        \* thread -> where it is in `consume`
    served         \* history: requests accepted, by session and by policy

vars == <<sessions, issued, reader, served>>

IdleReader == [pc |-> "idle", id |-> "none", policy |-> "none", seen |-> 0]

Init ==
    /\ sessions = [i \in SessionIds |-> NoSession]
    /\ issued = {}
    /\ reader = [r \in Readers |-> IdleReader]
    /\ served = [i \in SessionIds |-> [q \in Policies |-> 0]]

Return(r) == reader' = [reader EXCEPT ![r] = IdleReader]

\* create_session
Create(i, q) ==
    /\ i \notin issued
    /\ sessions' = [sessions EXCEPT ![i] = NewSession(q)]
    /\ issued' = issued \cup {i}
    /\ UNCHANGED <<reader, served>>

\* consume, first part: `now` is read and the token found authentic and before
\* its deadline, which is also the stored one.  A token that is malformed or
\* expired is rejected with no effect.
Present(r, i, q) ==
    /\ reader[r].pc = "idle"
    /\ i \in issued
    /\ sessions[i] # NoSession => sessions[i].life > 0
    /\ reader' = [reader EXCEPT ![r] =
                    [pc |-> "lookup", id |-> i, policy |-> q, seen |-> 0]]
    /\ UNCHANGED <<sessions, issued, served>>

\* Unknown (restarted or reaped meanwhile) or WrongPolicy.
Reject(r) ==
    /\ reader[r].pc = "lookup"
    /\ ~Covers(sessions[reader[r].id], reader[r].policy)
    /\ Return(r)
    /\ UNCHANGED <<sessions, issued, served>>

\* The session is found and its counter loaded (spend_one's first line).
Load(r) ==
    /\ reader[r].pc = "lookup"
    /\ Covers(sessions[reader[r].id], reader[r].policy)
    /\ reader' = [reader EXCEPT ![r].pc = "spend",
                                ![r].seen = sessions[reader[r].id].left]
    /\ UNCHANGED <<sessions, issued, served>>

\* The exchange succeeds: Accepted.
Spend(r) ==
    /\ reader[r].pc = "spend"
    /\ reader[r].seen # 0
    /\ Exchanges(sessions[reader[r].id], reader[r].seen)
    /\ sessions' = [sessions EXCEPT ![reader[r].id] = AfterSpend(@, reader[r].seen)]
    /\ served' = [served EXCEPT ![reader[r].id][reader[r].policy] = @ + 1]
    /\ Return(r)
    /\ UNCHANGED issued

\* Mutant: the loop retries with the value it read first.
RetryStale(r) ==
    /\ reader[r].pc = "spend"
    /\ reader[r].seen # 0
    /\ ~Exchanges(sessions[reader[r].id], reader[r].seen)
    /\ UNCHANGED vars

\* It fails: `current = observed`.  (A weak exchange may also fail for no reason;
\* it then observes what it already had and nothing changes.)
Retry(r) ==
    /\ reader[r].pc = "spend"
    /\ reader[r].seen # 0
    /\ ~Exchanges(sessions[reader[r].id], reader[r].seen)
    /\ reader' = [reader EXCEPT ![r].seen = sessions[reader[r].id].left]
    /\ UNCHANGED <<sessions, issued, served>>

\* QuotaExhausted
Exhausted(r) ==
    /\ reader[r].pc = "spend"
    /\ reader[r].seen = 0
    /\ Return(r)
    /\ UNCHANGED <<sessions, issued, served>>

\* cleanup_expired over one session; it waits for the shard's readers.
Sweep(i) ==
    /\ \A r \in Readers : ~(reader[r].pc = "spend" /\ reader[r].id = i)
    /\ sessions[i] # AfterSessionSweep(sessions[i])
    /\ sessions' = [sessions EXCEPT ![i] = AfterSessionSweep(@)]
    /\ UNCHANGED <<issued, reader, served>>

Tick ==
    /\ sessions' = [i \in SessionIds |-> Shorter(sessions[i])]
    /\ UNCHANGED <<issued, reader, served>>

\* The process dies: sessions are gone, the clients still have their tokens.
Restart ==
    /\ sessions' = [i \in SessionIds |-> NoSession]
    /\ reader' = [r \in Readers |-> IdleReader]
    /\ UNCHANGED <<issued, served>>

Consume(r) == Reject(r) \/ Load(r) \/ Spend(r) \/ Retry(r) \/ Exhausted(r)

Next ==
    \/ \E i \in SessionIds, q \in Policies : Create(i, q)
    \/ \E r \in Readers, i \in SessionIds, q \in Policies : Present(r, i, q)
    \/ \E r \in Readers : Consume(r)
    \/ \E i \in SessionIds : Sweep(i)
    \/ Tick
    \/ Restart

Spec == Init /\ [][Next]_vars

\* Threads are scheduled; nothing else is promised.
FairSpec == Spec /\ \A r \in Readers : WF_vars(Consume(r))

-----------------------------------------------------------------------------
(* Properties *)

Reader ==
    [pc     : {"idle", "lookup", "spend"},
     id     : SessionIds \cup {"none"},
     policy : Policies \cup {"none"},
     seen   : Nat]

TypeOK ==
    /\ sessions \in [SessionIds -> Session \cup {NoSession}]
    /\ issued \subseteq SessionIds
    /\ reader \in [Readers -> Reader]
    /\ served \in [SessionIds -> [Policies -> Nat]]

\* The compare-exchange loop of spend_one, with every interleaving of threads,
\* cleanup and expiry: a live session has served exactly the part of its quota
\* that is gone, and only on the policy it was bought under; and a thread about
\* to exchange a counter has its session under it, which cleanup_expired's
\* retain could not remove.
ServedAsBought ==
    /\ \A i \in SessionIds :
          sessions[i] # NoSession =>
             \A q \in Policies :
                served[i][q] = IF q = sessions[i].policy
                               THEN QUOTA[q] - sessions[i].left ELSE 0
    /\ \A r \in Readers :
          reader[r].pc = "spend" => sessions[reader[r].id] # NoSession

\* spend_one is not a spin lock: every `consume` returns, although each thread
\* may lose any number of exchanges to the others.
ConsumeReturns ==
    \A r \in Readers : reader[r].pc # "idle" ~> reader[r].pc = "idle"
=============================================================================
