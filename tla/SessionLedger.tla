---------------------------- MODULE SessionLedger ----------------------------
(***************************************************************************)
(* What a session store promises, whichever backend it has: a session is   *)
(* opened once, for one product, and serves at most the requests that      *)
(* product sells, on that product only.  It may be cut short (expired,     *)
(* reaped, lost with its store, or charged for an answer that never        *)
(* arrived) and is never extended.                                         *)
(***************************************************************************)
EXTENDS Integers

CONSTANTS
    Ids,          \* session ids
    Products,     \* what is sold
    SIZE,         \* requests a product sells
    Closed        \* no session

VARIABLES
    opened,       \* ids that have been sold
    account,      \* id -> [product, left], or Closed
    used          \* id -> product -> requests served

ledgerVars == <<opened, account, used>>

LedgerInit ==
    /\ opened = {}
    /\ account = [i \in Ids |-> Closed]
    /\ used = [i \in Ids |-> [q \in Products |-> 0]]

Open(i, q) ==
    /\ i \notin opened
    /\ opened' = opened \cup {i}
    /\ account' = [account EXCEPT ![i] = [product |-> q, left |-> SIZE[q]]]
    /\ UNCHANGED used

Deduct(i) ==
    /\ account[i] # Closed
    /\ account[i].left > 0
    /\ account' = [account EXCEPT ![i].left = @ - 1]
    /\ UNCHANGED opened

Serve(i) ==
    /\ Deduct(i)
    /\ used' = [used EXCEPT ![i][account[i].product] = @ + 1]

\* Deducted, and the client told that the store could not be reached.
Waste(i) == Deduct(i) /\ UNCHANGED used

Close(S) ==
    /\ account' = [i \in Ids |-> IF i \in S THEN Closed ELSE account[i]]
    /\ UNCHANGED <<opened, used>>

LedgerNext ==
    \/ \E i \in Ids, q \in Products : Open(i, q)
    \/ \E i \in Ids : Serve(i) \/ Waste(i)
    \/ \E S \in SUBSET Ids : Close(S)

LedgerSpec == LedgerInit /\ [][LedgerNext]_ledgerVars
=============================================================================
