--------------------------- MODULE SessionBackends ---------------------------
(***************************************************************************)
(* SessionStore of src/src/session.rs: the process has one of two          *)
(* backends, chosen at start (main.rs) and never changed, and both keep    *)
(* the promise of SessionLedger.                                           *)
(***************************************************************************)
EXTENDS SessionStore, RedisStore

VARIABLE backend      \* "memory" or "redis"

allVars == <<vars, redisVars, backend>>

BackendInit == Init /\ RedisInit /\ backend \in {"memory", "redis"}

\* Every operation dispatches on the backend.  cleanup_expired and len do
\* nothing for Redis: `Sweep` belongs to the memory store alone.
Memory == backend = "memory" /\ Next /\ UNCHANGED <<redisVars, backend>>
Redis == backend = "redis" /\ RedisNext /\ UNCHANGED <<vars, backend>>

\* Threads are scheduled; nothing else is promised.
BackendFairness == \A r \in Readers : WF_vars(Consume(r))

BackendSpec == BackendInit /\ [][Memory \/ Redis]_allVars /\ BackendFairness

-----------------------------------------------------------------------------
(* Refinement *)

\* What the ledger sees of a stored session.
Booked(s) ==
    IF s = NoSession THEN Nothing ELSE [product |-> s.policy, left |-> s.left]

ASSUME BookedAssumption == Nothing \notin [product : Policies, left : Nat]

MemoryLedger == INSTANCE SessionLedger WITH
    Ids <- SessionIds, Products <- Policies, SIZE <- QUOTA, Closed <- Nothing,
    opened <- issued,
    account <- [i \in SessionIds |-> Booked(sessions[i])],
    used <- served

RedisLedger == INSTANCE SessionLedger WITH
    Ids <- Keys, Products <- Policies, SIZE <- QUOTA, Closed <- Nothing,
    opened <- drawn,
    account <- [i \in Keys |-> Booked(hash[i])],
    used <- answered

\* Both stores implement the ledger: whatever interleaving, expiry, lost answer,
\* crash or lost key, a session is only ever opened fresh, spent or closed.
ImplementsLedger == MemoryLedger!LedgerSpec /\ RedisLedger!LedgerSpec
=============================================================================
