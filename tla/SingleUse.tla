------------------------------ MODULE SingleUse ------------------------------
(***************************************************************************)
(* What the replay cache, the chain and the three payment surfaces promise *)
(* together about one signed payment: it is in at most one pair of hands   *)
(* at a time and, if the chain can tell that it is used up, buys at most   *)
(* one session, ever, process restarts included.  Gateway implements this. *)
(***************************************************************************)
CONSTANTS
    Surfaces,     \* whoever can try to spend a payment
    Signed,       \* the payments
    Once,         \* those that buy one session, ever
    Nobody

VARIABLES
    owner,        \* payment -> the surface spending it, or Nobody
    sold          \* payment -> sessions it has bought (2: more than one)

singleVars == <<owner, sold>>

SingleInit ==
    /\ owner = [p \in Signed |-> Nobody]
    /\ sold = [p \in Signed |-> 0]

Acquire(h, p) ==
    /\ owner[p] = Nobody
    /\ owner' = [owner EXCEPT ![p] = h]
    /\ UNCHANGED sold

\* Given up without a session: refused, failed, abandoned, or a bare /settle.
GiveUp(h, p) ==
    /\ owner[p] = h
    /\ owner' = [owner EXCEPT ![p] = Nobody]
    /\ UNCHANGED sold

Sell(h, p) ==
    /\ owner[p] = h
    /\ p \in Once => sold[p] = 0
    /\ owner' = [owner EXCEPT ![p] = Nobody]
    /\ sold' = [sold EXCEPT ![p] = IF @ = 0 THEN 1 ELSE 2]

\* The process dies; what has been sold stays sold.
Crash ==
    /\ owner' = [p \in Signed |-> Nobody]
    /\ UNCHANGED sold

SingleNext ==
    \/ \E h \in Surfaces, p \in Signed : Acquire(h, p) \/ GiveUp(h, p) \/ Sell(h, p)
    \/ Crash

SingleSpec == SingleInit /\ [][SingleNext]_singleVars
=============================================================================
