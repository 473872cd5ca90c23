------------------------------ MODULE MCConsole ------------------------------
(* Model values for the checks of Console. *)
EXTENDS Console, TLC

CONSTANTS v1, v2, home, c1

OneHome == (v1 :> home) @@ (v2 :> home)

\* The wheel is below the gasless floor, the others at it.
Prices == [t \in Targets |-> IF t = "spin" THEN 1 ELSE 2]

\* One gasless payment, and a coin with gas for one more.
Purse == [address |-> 2, coin |-> (c1 :> 2), gas |-> 1]

Lists == {<<"coin-object">>, <<"gas-less">>, DefaultPaths}
=============================================================================
