------------------------------ MODULE MCStartup ------------------------------
(* Configurations for Startup: every combination of a sound and an unsound  *)
(* choice per setting, one policy, and up to two routes in either order.    *)
EXTENDS Startup, TLC

CONSTANTS WalletA, WalletB, ZeroAddress

Free == [max |-> 2, window |-> 60]
Paid == [quota |-> 3, duration |-> 60]
NoOverride ==
    [payTo |-> Unset, amount |-> Unset, asset |-> Unset, free |-> Unset, paid |-> Unset]

Base(wallet, amount, chain, network, mode, policies, routes, hmac, rest) ==
    [terms |-> [payTo |-> wallet, amount |-> amount, asset |-> "usdc",
                free |-> Free, paid |-> Paid],
     chain |-> chain, network |-> <<"sui", network>>, mode |-> mode, store |-> "redis",
     policies |-> policies, routes |-> routes,
     hmac |-> hmac, rest |-> rest]

Overrides ==
    {NoOverride,
     [NoOverride EXCEPT !.payTo = WalletB, !.amount = 5],
     [NoOverride EXCEPT !.payTo = ZeroAddress],
     [NoOverride EXCEPT !.amount = NotANumber],
     [NoOverride EXCEPT !.free = [max |-> 0, window |-> 0]],
     [NoOverride EXCEPT !.paid = [quota |-> 0, duration |-> 60]]}

Api == <<"/", "api">>
Root == <<"/">>
Cheap == [NoOverride EXCEPT !.amount = 1]
Dear == [NoOverride EXCEPT !.amount = 6, !.payTo = WalletB]

RouteTables ==
    {<<>>}
      \cup {<<[prefix |-> x, over |-> o]>> : x \in {<<>>, Root}, o \in Overrides}
      \cup {<<[prefix |-> Root, over |-> Cheap], [prefix |-> Api, over |-> Dear]>>,
            <<[prefix |-> Api, over |-> Dear], [prefix |-> Root, over |-> Cheap]>>}

GRPC == <<"grpc">>
MCFiles ==
    {Base(w, 2, c, n, "sui-grpc", GRPC :> o, <<>>, "strong", TRUE) :
        w \in {WalletA, ZeroAddress}, c \in {"testnet", "Mainnet"},
        n \in {"testnet", "mainnet"}, o \in Overrides}
      \cup {Base(w, 2, "testnet", "testnet", "sui-grpc", GRPC :> NoOverride, r, "strong", TRUE) :
              w \in {WalletA, ZeroAddress}, r \in RouteTables}
      \cup {Base(WalletA, a, "testnet", "testnet", m, GRPC :> NoOverride, <<>>, k, b) :
              a \in {2, NotANumber}, m \in {"stub-accept-all", "sui-grpc"},
              k \in {"strong", "placeholder"}, b \in BOOLEAN}
      \cup {[Base(WalletA, 2, "testnet", "testnet", "sui-grpc", GRPC :> NoOverride, <<>>,
                  "strong", TRUE) EXCEPT !.store = "memory"]}

MCExports ==
    [payTo : {Unset, WalletA}, hmac : {Unset, "strong"},
     vars : [{<<"GRPC">>} -> {Unset, WalletB, ZeroAddress}]]

MCReports == {Unset, "  ", "testnet", " Testnet ", "mainnet"}
MCPaths == {<<"/">>, <<"/", "api">>, <<"/", "api", "v2">>, <<"x">>}
MCNames == {Unset, GRPC, <<"unknown">>}
MCUsable == {WalletA, WalletB}
=============================================================================
