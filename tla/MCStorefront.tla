---------------------------- MODULE MCStorefront ----------------------------
(* Two products behind one gateway, a cheap and a dear one with wallets of  *)
(* their own, told apart by policy name or by path prefix; the default price *)
(* is one that passes validation and is too large to be paid.                *)
EXTENDS Storefront, TLC

CONSTANTS WalletA, WalletB

NoOverride ==
    [payTo |-> Unset, amount |-> Unset, asset |-> Unset, free |-> Unset, paid |-> Unset]
Cheap == [NoOverride EXCEPT !.amount = 1, !.free = [max |-> 2, window |-> 60]]
Dear == [NoOverride EXCEPT !.amount = 5, !.payTo = WalletB,
                           !.paid = [quota |-> 1, duration |-> 60]]

Base(policies, routes) ==
    [terms |-> [payTo |-> WalletA, amount |-> 9, asset |-> "usdc",
                free |-> [max |-> 1, window |-> 60], paid |-> [quota |-> 2, duration |-> 60]],
     chain |-> "testnet", network |-> <<"sui", "testnet">>, mode |-> "sui-grpc", store |-> "redis",
     policies |-> policies, routes |-> routes,
     hmac |-> "strong", rest |-> TRUE]

Graphql == <<"graphql">>
Grpc == <<"grpc">>

Prefixes ==
    <<[prefix |-> <<"/", "g">>, over |-> Cheap], [prefix |-> <<"/", "s">>, over |-> Dear]>>

\* Envoy names the policy of most requests; one reaches a prefix without a name,
\* one with a name this configuration does not define.
Mixed == Base(Graphql :> Cheap @@ Grpc :> Dear, Prefixes)
MixedVisits ==
    {[path |-> <<"/", "g">>, policy |-> Graphql, client |-> "c1"],
     [path |-> <<"/", "s">>, policy |-> Grpc, client |-> Unset],
     [path |-> <<"/", "g">>, policy |-> Unset, client |-> "c1"],
     [path |-> <<"/", "s">>, policy |-> <<"renamed">>, client |-> "c1"],
     [path |-> <<"x">>, policy |-> <<"retired">>, client |-> Unset]}

\* The fallback "for gateways that cannot attach route metadata".
ByPrefix == Base([n \in {} |-> Cheap], Prefixes)
PrefixVisits ==
    {[path |-> <<"/", "g", "x">>, policy |-> Unset, client |-> "c1"],
     [path |-> <<"/", "s", "x">>, policy |-> Unset, client |-> "c1"]}

Usdc(to, n) == [to |-> to, coin |-> "usdc", amount |-> n]
CheapTerms == [payTo |-> WalletA, amount |-> 1, asset |-> "usdc"]
DearTerms == [payTo |-> WalletB, amount |-> 5, asset |-> "usdc"]

\* Honest, split over two credits, and one that accepts more than it pays: the
\* cheap price to the other wallet, and the dear one in another coin.
PayCheap == [accepted |-> CheapTerms, wellFormed |-> TRUE, credits |-> <<Usdc(WalletA, 1)>>]
PaySplit ==
    [accepted |-> DearTerms, wellFormed |-> TRUE,
     credits |-> <<Usdc(WalletB, 2), Usdc(WalletA, 1), Usdc(WalletB, 3)>>]
PayShort ==
    [accepted |-> DearTerms, wellFormed |-> TRUE,
     credits |-> <<Usdc(WalletA, 1), [to |-> WalletB, coin |-> "sui", amount |-> 5]>>]

\* The payee's own transaction, which takes 7 from its wallet: 9 modulo 2^w.
PayBack ==
    [accepted |-> [payTo |-> WalletA, amount |-> 9, asset |-> "usdc"],
     wellFormed |-> TRUE, credits |-> <<Usdc(WalletA, 0 - 7)>>]

HonestPayments == {PayCheap, PaySplit}
MCPayments == {PayCheap, PaySplit, PayShort, PayBack}
MCUsable == {WalletA, WalletB}
StreamSymmetry == Permutations(Streams)
=============================================================================
