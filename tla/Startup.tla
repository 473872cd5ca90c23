------------------------------- MODULE Startup -------------------------------
(***************************************************************************)
(* Starting the service (src/src/main.rs, src/src/config.rs, check_chain   *)
(* of src/src/sui.rs): an operator edits the file and sets variables, the  *)
(* deployment hands them to the process, the process loads, validates, and *)
(* compares the fullnode's chain with the configured one, connects its     *)
(* store, then serves or refuses to.  The file is read once, at the start. *)
(***************************************************************************)
EXTENDS PolicyTable

CONSTANTS
    Files,         \* configuration files the operator may write
    Exports,       \* variables the operator may set
    Reports,       \* what GetServiceInfo may answer, Unset included
    Unreachable,   \* ... or that it fails
    Down,          \* nothing is being served
    Paths, Names   \* request paths and policy names the properties ask about

\* The empty string, as the value of a variable.
Empty == "empty"

\* validate_pay_to refuses the empty string.  The rest is what deserializing a
\* file and reading the environment always yield.
ASSUME StartupAssumption ==
    /\ Empty \notin Usable
    /\ \A f \in Files :
          /\ {"hmac", "terms", "policies", "routes"} \subseteq DOMAIN f
          /\ "payTo" \in DOMAIN f.terms
          /\ \A n \in DOMAIN f.policies : "payTo" \in DOMAIN f.policies[n]
          /\ f.routes \in Seq({f.routes[i] : i \in DOMAIN f.routes})
          /\ \A i \in DOMAIN f.routes : f.routes[i].prefix \in Seq(STRING)
    /\ \A e \in Exports : {"hmac", "payTo", "vars"} \subseteq DOMAIN e
    /\ Paths \subseteq Seq(STRING)

VARIABLES
    compose,       \* started by deploy/docker-compose.yml
    file,          \* the configuration file
    exports,       \* what the operator has set
    node,          \* the chain the fullnode reports (external)
    redis,         \* whether the Redis server can be reached (external)
    running,       \* the Config being served, or Down
    refused        \* the latest start was refused

vars == <<compose, file, exports, node, redis, running, refused>>

\* A string variable of the operator's that compose passes on with `:-`
\* exists in the container even when it is not set: it is then empty.
Environment(e) ==
    IF compose
    THEN [e EXCEPT !.vars = [v \in DOMAIN e.vars |-> Or(e.vars[v], Empty)]]
    ELSE e

\* ... and with `:?` it does not start the service without a key and a default
\* wallet.
Launches(e) == compose => e.payTo # Unset /\ e.hmac # Unset

Init ==
    /\ compose \in BOOLEAN
    /\ file \in Files
    /\ exports \in Exports
    /\ node \in Reports \cup {Unreachable}
    /\ redis \in BOOLEAN
    /\ running = Down
    /\ refused = FALSE

-----------------------------------------------------------------------------
(* check_chain *)

\* trim, and eq_ignore_ascii_case.
Folded(chain) ==
    CASE chain = " Testnet " -> "testnet"
      [] chain = "Mainnet" -> "mainnet"
      [] chain = "  " -> ""
      [] OTHER -> chain

NotReported(reported) == reported = Unset \/ Folded(reported) = ""

\* verify_chain is not an Err.  In stub mode there is no node to ask.
ChainAccepted(c, reported) ==
    \/ c.mode = "stub-accept-all"
    \/ NotReported(reported)
    \/ reported # Unreachable /\ Folded(reported) = Folded(c.chain)

\* The state store is connected up front.
StoreAccepted(c, reachable) == c.store = "redis" => reachable

Accepted(c) == Valid(c) /\ ChainAccepted(c, node) /\ StoreAccepted(c, redis)

-----------------------------------------------------------------------------
\* Mutant: the file is validated before the environment is applied.
StartUnvalidated ==
    /\ running = Down
    /\ Launches(exports)
    /\ Accepted(file)
    /\ running' = Load(file, Environment(exports))
    /\ refused' = FALSE
    /\ UNCHANGED <<compose, file, exports, node, redis>>

\* main up to the servers.
Start ==
    /\ running = Down
    /\ Launches(exports)
    /\ LET config == Load(file, Environment(exports))
       IN  Accepted(config) /\ running' = config
    /\ refused' = FALSE
    /\ UNCHANGED <<compose, file, exports, node, redis>>

\* main returns an error.
Refuse ==
    /\ running = Down
    /\ Launches(exports)
    /\ ~Accepted(Load(file, Environment(exports)))
    /\ refused' = TRUE
    /\ UNCHANGED <<compose, file, exports, node, redis, running>>

\* shutdown_signal, or a crash.
Stop ==
    /\ running # Down
    /\ running' = Down
    /\ UNCHANGED <<compose, file, exports, node, redis, refused>>

\* Between two starts the operator edits the file, sets a variable, or points
\* the service at another node; servers come and go.
EditFile ==
    /\ running = Down
    /\ file' \in Files
    /\ refused' = FALSE
    /\ UNCHANGED <<compose, exports, node, redis, running>>

Export ==
    /\ running = Down
    /\ exports' \in Exports
    /\ refused' = FALSE
    /\ UNCHANGED <<compose, file, node, redis, running>>

MoveNode ==
    /\ running = Down
    /\ node' \in Reports \cup {Unreachable}
    /\ redis' \in BOOLEAN
    /\ refused' = FALSE
    /\ UNCHANGED <<compose, file, exports, running>>

Next == Start \/ Refuse \/ Stop \/ EditFile \/ Export \/ MoveNode

Spec == Init /\ [][Next]_vars

-----------------------------------------------------------------------------
(* Properties *)

Resolved(path, policy) == PolicyFor(running, path, policy)

\* "Validate overrides with the same rules as the defaults, so a typo in a wallet
\* or price fails at boot rather than at payment time" (Config::validate):
\* whatever the file, the environment and the layers of overrides, no request
\* of a running service is ever resolved to a wallet, price or tier that
\* validation would refuse, nor are sessions signed with a key it would refuse.
RunningTermsUsable ==
    running # Down =>
       /\ ValidKey(running.hmac)
       /\ \A path \in Paths, policy \in Names : TermsValid(Resolved(path, policy).terms)

\* "a specific rule beats a general rule regardless of the order they appear in
\* the file" (RouteOverride), "so file order is irrelevant" (policy_for):
\* the file with its routes in the opposite order resolves every request alike.
FileOrderIrrelevant ==
    running # Down =>
       LET n == Len(running.routes)
           turned == [running EXCEPT !.routes = [i \in 1 .. n |-> running.routes[n + 1 - i]]]
       IN  \A path \in Paths, policy \in Names :
              Resolved(path, policy) = PolicyFor(turned, path, policy)

\* What the operator set the variable of a policy's wallet to.
Exported(n) == IF EnvVar(n) \in DOMAIN exports.vars THEN exports.vars[EnvVar(n)] ELSE Unset

\* "Environment wins over the file" (Config::load), "Unset inherits" (PaymentOverride):
\* a running service credits what is bought under a policy to the wallet the
\* operator chose for it, by its variable, in the file, or by leaving both to the
\* default wallet.  Compose makes a variable that is not set an empty one, which
\* wins over the file all the same: validation has to stop every such start, or
\* payments would be credited to nobody.
CreditsTheChosenWallet ==
    running # Down =>
       \A path \in Paths, n \in DOMAIN file.policies :
          Resolved(path, n).terms.payTo =
             Or(Exported(n), Or(file.policies[n].payTo, Or(exports.payTo, file.terms.payTo)))

\* "terms advertising sui:mainnet served by a testnet node means real service
\* sold for worthless testnet funds" (reported_chain).  Only sui_chain is compared
\* with the node, and payment.network with neither, so this is a promise the
\* start does not keep.
TermsMatchTheNode ==
    (/\ running # Down
     /\ running.mode = "sui-grpc"
     /\ node # Unreachable
     /\ ~NotReported(node))
       => running.network = <<"sui", Folded(node)>>
=============================================================================
