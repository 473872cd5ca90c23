------------------------------- MODULE Wallet -------------------------------
(***************************************************************************)
(* Building a payment (src/src/payclient.rs): the funds of a wallet, the   *)
(* choice of a funding path, and the transaction each path signs.          *)
(*                                                                         *)
(* Amounts are base units.  A wallet holds an address balance, some Coin   *)
(* objects of the asset and one SUI coin for gas.  A coin object changes   *)
(* its version only by being spent, and its value goes down then: its      *)
(* value stands for its version.  `gas` is what the SUI coin is good for   *)
(* in gas budgets, and stands for its version in the same way.             *)
(***************************************************************************)
EXTENDS Integers, Sequences, FiniteSetsExt

CONSTANTS
    Coins,              \* ids of the wallet's Coin objects of the asset
    GASLESS_MINIMUM,    \* smallest gasless transfer
    NoCoin

ASSUME WalletAssumption ==
    /\ GASLESS_MINIMUM \in Nat \ {0}
    /\ NoCoin \notin Coins

\* funding: one GetBalance, split by where the money is.
Funding(w) ==
    [address_balance |-> w.address,
     coin_balance |-> MapThenSumSet(LAMBDA c : w.coin[c], Coins)]

\* check: why a path is passed over, or "usable".
Check(path, amount, funds) ==
    CASE path = "gasless" /\ amount < GASLESS_MINIMUM -> "below_gasless_floor"
      [] path = "gasless" /\ funds.address_balance < amount -> "address_balance_short"
      [] path = "sponsored" -> "not_sponsored"
      [] path = "coin-object" /\ funds.coin_balance < amount -> "coin_objects_short"
      [] OTHER -> "usable"

\* PaymentPath::parse_list fails on a word that is no path.
Parses(paths) ==
    \A k \in DOMAIN paths : paths[k] \in {"gasless", "sponsored", "coin-object"}

\* build_payment's loop: the first usable path, or none.
FirstUsable(paths, amount, funds) ==
    LET usable == SelectSeq(paths, LAMBDA path : Check(path, amount, funds) = "usable")
    IN  IF usable = <<>> THEN "none" ELSE usable[1]

\* DEFAULT_PAYMENT_PATHS
DefaultPaths == <<"gasless", "sponsored", "coin-object">>

NoPayment == [path |-> "none", amount |-> 0, nonce |-> 0, coin |-> NoCoin,
              at |-> 0, gas |-> 0]

\* Mutant: the nonce is derived from the amount alone.
NonceOfAmount(used, amount) == amount

\* nonce: 32 random bits, taken to be none that another transaction has.
Nonce(used, amount) == CHOOSE n \in (1..(Cardinality(used) + 1)) \ used : TRUE

\* build_gasless_payment: nothing is pinned, the expiration carries the nonce.
GaslessPayment(amount, nonce) ==
    [NoPayment EXCEPT !.path = "gasless", !.amount = amount, !.nonce = nonce]

\* pick_coin: a single coin that holds enough, the first the node lists.
PickCoin(w, amount) == {c \in Coins : w.coin[c] >= amount}

\* build_coin_object_payment: the coin and the gas coin, each at its version.
CoinPayments(w, amount) ==
    {[path |-> "coin-object", amount |-> amount, nonce |-> 0, coin |-> c,
      at |-> w.coin[c], gas |-> w.gas] : c \in {d \in PickCoin(w, amount) : w.gas > 0}}

-----------------------------------------------------------------------------
(* What the chain makes of it *)

\* Executable: the balance covers it, or its objects are at their versions.
Payable(w, p) ==
    CASE p.path = "gasless" -> w.address >= p.amount
      [] p.path = "coin-object" -> w.coin[p.coin] = p.at /\ w.gas = p.gas
      [] OTHER -> FALSE

Debited(w, p) ==
    IF p.path = "gasless" THEN [w EXCEPT !.address = @ - p.amount]
    ELSE [w EXCEPT !.coin[p.coin] = @ - p.amount, !.gas = @ - 1]
=============================================================================
