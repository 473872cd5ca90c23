----------------------------- MODULE PolicyTable -----------------------------
(***************************************************************************)
(* The configuration (src/src/config.rs) as a value: how it is put         *)
(* together from the file and the environment, when it is refused, and     *)
(* which terms it yields for a request (Config::policy_for).               *)
(*                                                                         *)
(*   [terms    : the default payment and tier settings,                    *)
(*    network  : payment.network,  chain : sui_chain,                      *)
(*    mode     : verification_mode,  store : store.backend,                *)
(*    policies : policy name -> override,                                  *)
(*    routes   : sequence of [prefix, over],                               *)
(*    hmac     : the session key, "strong" or one hmac_key refuses,        *)
(*    rest     : whether the scheme, the discovery metadata and the store  *)
(*               settings pass their checks]                               *)
(*                                                                         *)
(* Policy names, path prefixes and paths are strings, here sequences of    *)
(* tokens.  An amount is the number its string parses to.                  *)
(***************************************************************************)
EXTENDS Integers, Sequences

CONSTANTS
    Usable,      \* addresses validate_pay_to accepts
    U128,        \* 2^128
    I128,        \* 2^127
    Unset        \* an Option that is None

ASSUME WidthAssumption == U128 \in Nat /\ I128 \in Nat /\ I128 <= U128

\* A string that does not parse as a number.
NotANumber == -1

ParsesAsU128(a) == a \in 0 .. U128 - 1
ParsesAsI128(a) == a \in 0 .. I128 - 1

-----------------------------------------------------------------------------
(* Validation *)

\* Mutant: an empty address counts as one that is not set.
ValidPayToOrEmpty(w) == w \in Usable \cup {"empty"}

\* validate_pay_to: 0x and 64 hex digits, not all zero.
ValidPayTo(w) == w \in Usable

\* hmac_key: not empty, not the published placeholder, hex, 32 bytes.
ValidKey(k) == k = "strong"

TermsValid(t) ==
    /\ ParsesAsU128(t.amount)
    /\ ValidPayTo(t.payTo)
    /\ t.free.window > 0
    /\ t.paid.duration > 0
    /\ t.paid.quota > 0

\* PaymentOverride::validate
OverrideValid(o) ==
    /\ o.payTo # Unset => ValidPayTo(o.payTo)
    /\ o.amount # Unset => ParsesAsU128(o.amount)
    /\ o.free # Unset => o.free.window > 0
    /\ o.paid # Unset => o.paid.duration > 0 /\ o.paid.quota > 0

\* The checks of the scheme, validate_discovery_metadata and the Redis URL.
RestValid(c) == c.rest

\* Config::validate
Valid(c) ==
    /\ RestValid(c)
    /\ ValidKey(c.hmac)
    /\ TermsValid(c.terms)
    /\ \A n \in DOMAIN c.policies : OverrideValid(c.policies[n])
    /\ \A i \in DOMAIN c.routes :
          c.routes[i].prefix # <<>> /\ OverrideValid(c.routes[i].over)

-----------------------------------------------------------------------------
(* Loading *)

\* pay_to_env_var: upper case, `-` mapped to `_`.
EnvVar(name) ==
    [i \in DOMAIN name |->
        CASE name[i] = "-" -> "_"
          [] name[i] = "grpc" -> "GRPC"
          [] name[i] = "graphql" -> "GRAPHQL"
          [] OTHER -> name[i]]

Or(option, default) == IF option = Unset THEN default ELSE option

\* Config::load: an environment variable that exists wins over the file.  There
\* are variables for the key, the default wallet and each named policy's wallet;
\* routes have none.
Load(file, env) ==
    LET wallet(n) ==
            IF EnvVar(n) \in DOMAIN env.vars THEN env.vars[EnvVar(n)] ELSE Unset
    IN  [file EXCEPT
            !.hmac = Or(env.hmac, file.hmac),
            !.terms.payTo = Or(env.payTo, file.terms.payTo),
            !.policies = [n \in DOMAIN file.policies |->
                [file.policies[n] EXCEPT
                    !.payTo = Or(wallet(n), file.policies[n].payTo)]]]

-----------------------------------------------------------------------------
(* Resolution *)

\* PaymentOverride::apply_to; the asset goes along, its decimals and the
\* description have no bearing on what a request is charged or given.
Apply(o, t) ==
    [payTo  |-> Or(o.payTo, t.payTo),
     amount |-> Or(o.amount, t.amount),
     asset  |-> Or(o.asset, t.asset),
     free   |-> Or(o.free, t.free),
     paid   |-> Or(o.paid, t.paid)]

StartsWith(path, prefix) ==
    /\ Len(prefix) <= Len(path)
    /\ \A i \in DOMAIN prefix : path[i] = prefix[i]

Matching(routes, path) == {i \in DOMAIN routes : StartsWith(path, routes[i].prefix)}

\* Mutant: the first route of the file that matches.
FirstMatch(routes, path) ==
    {i \in Matching(routes, path) : \A j \in Matching(routes, path) : i <= j}

\* max_by_key over the matching routes: the longest prefix and, as
\* Iterator::max_by_key does among equals, the last of them.
LongestMatch(routes, path) ==
    {i \in Matching(routes, path) :
        \A j \in Matching(routes, path) :
           \/ Len(routes[j].prefix) < Len(routes[i].prefix)
           \/ Len(routes[j].prefix) = Len(routes[i].prefix) /\ j <= i}

DEFAULT_POLICY_LABEL == <<"default">>

\* Config::policy_for.  `from` says which entry of the file was in force; two
\* entries may have the same label.
PolicyFor(c, path, policy) ==
    LET best == LongestMatch(c.routes, path)
    IN  IF policy \in DOMAIN c.policies
        THEN [label |-> policy, from |-> <<"policy", policy>>,
              terms |-> Apply(c.policies[policy], c.terms)]
        ELSE IF best # {}
        THEN LET route == c.routes[CHOOSE i \in best : TRUE]
             IN  [label |-> route.prefix, from |-> <<"route", route.prefix>>,
                  terms |-> Apply(route.over, c.terms)]
        ELSE [label |-> DEFAULT_POLICY_LABEL, from |-> <<"default", <<>>>>,
              terms |-> c.terms]
=============================================================================
