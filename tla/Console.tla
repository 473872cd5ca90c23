------------------------------- MODULE Console -------------------------------
(***************************************************************************)
(* The two programs that pay from one wallet: the demo console's `send`    *)
(* handler (src/src/bin/x402-demo.rs), many at a time, and the x402-pay    *)
(* command line (src/src/bin/x402-pay.rs), both through                    *)
(* src/src/payclient.rs.                                                   *)
(*                                                                         *)
(* Both reach the gateway through ext_proc, as envoy.yaml has it, which    *)
(* settles after the upstream served.  The gateway may serve or refuse any *)
(* request; what it may not do is Gateway's subject and is assumed here:   *)
(* it settles only a payment that can execute, and works on a payment for  *)
(* one request at a time.  Envoy may cut it off at any time with an answer *)
(* of its own, while the gateway's task goes on.                           *)
(*                                                                         *)
(* A visitor may close the page at any await: the handler's future is      *)
(* dropped, its lock with it, and a payment already at the gateway may     *)
(* still land.  Any answer may be lost.                                    *)
(***************************************************************************)
EXTENDS Wallet, Wire

CONSTANTS
    Visitors,        \* `send` handlers that can be under way
    Cli,             \* the x402-pay process
    Targets,         \* ids of TARGETS that can be asked for ...
    CliTargets,      \* ... and by x402-pay
    Ips,             \* source addresses
    IP,              \* visitor -> source address
    PRICE,           \* target -> amount its challenge names
    FUNDS,           \* the wallet at the start
    MAX_PLAYS,       \* max_plays
    PER_IP_HOURLY,   \* plays_per_ip_hourly
    PathLists,       \* --payment-paths values
    MaxHour,         \* bound: the last hour ...
    MaxRuns,         \* ... and the runs of x402-pay; a behaviour has room for
                     \* one of the two, to keep the instance small
    MaxLimbo,        \* bound: payments in limbo at a time
    Nobody

ASSUME ConsoleAssumption ==
    /\ Cli \notin Visitors
    /\ Nobody \notin Visitors \cup {Cli}
    /\ CliTargets \subseteq Targets
    /\ IP \in [Visitors -> Ips]
    /\ PRICE \in [Targets -> Nat \ {0}]
    /\ MAX_PLAYS \in Nat
    /\ PER_IP_HOURLY \in Nat
    /\ MaxHour \in Nat
    /\ MaxRuns \in Nat
    /\ MaxLimbo \in Nat
    /\ IsFiniteSet(Visitors)
    /\ {"address", "coin", "gas"} \subseteq DOMAIN FUNDS
    /\ FUNDS.gas \in Nat

Actors == Visitors \cup {Cli}

VARIABLES
    mode,          \* the gateway's: "sui" or "stub"
    wallet,        \* what the chain holds for the wallet
    landed,        \* <<payer, payment>>: executed on chain
    limbo,         \* <<payer, payment>>: broadcast, or left with the gateway,
                   \* and unknown to the payer
    act,           \* actor -> its exchange
    spent,         \* AppState.spent ...
    lock,          \* ... and who holds its mutex
    entry,         \* per_ip: address -> [hour, n]
    hour,          \* of the clock
    runs,          \* of x402-pay so far
    \* History, read by the properties only:
    unseen,        \* demo payments that landed and no handler read a receipt of
    admitted       \* address -> hour of the clock -> requests let past per_ip

vars == <<mode, wallet, landed, limbo, act, spent, lock, entry, hour, runs,
          unseen, admitted>>

chainVars == <<wallet, landed, limbo>>
demoVars == <<spent, entry, admitted>>

Quiet == [pc |-> "idle", target |-> Nobody, paths |-> <<>>,
          hour |-> 0, path |-> "none", pay |-> NoPayment,
          sent |-> "no", reply |-> NoAttempt]

Init ==
    /\ mode \in {"sui", "stub"}
    /\ wallet = FUNDS
    /\ landed = {}
    /\ limbo = {}
    /\ act = [a \in Actors |-> Quiet]
    /\ spent = 0
    /\ lock = Nobody
    /\ entry = [ip \in Ips |-> [hour |-> 0, n |-> 0]]
    /\ hour \in 0..MaxHour
    /\ runs \in 0..MaxRuns
    /\ hour = MaxHour \/ runs = MaxRuns
    /\ unseen = 0
    /\ admitted = [ip \in Ips |-> [h \in 0..MaxHour |-> 0]]

Go(a, pc) == act' = [act EXCEPT ![a].pc = pc]

\* The exchange is over, with a result or an error; a handler's lock goes with it.
Return(a) ==
    /\ act' = [act EXCEPT ![a] = Quiet]
    /\ lock' = IF lock = a THEN Nobody ELSE lock

-----------------------------------------------------------------------------
(* The first request, without a payment *)

\* POST /send
Click(v, t) ==
    /\ act[v].pc = "idle"
    /\ act' = [act EXCEPT ![v] = [Quiet EXCEPT !.pc = "first", !.target = t]]
    /\ UNCHANGED <<mode, chainVars, demoVars, lock, hour, runs, unseen>>

\* x402-pay URL.  Its other arguments are chosen where they are first read.
Run(t) ==
    /\ act[Cli].pc = "idle"
    /\ runs < MaxRuns
    /\ runs' = runs + 1
    /\ act' = [act EXCEPT ![Cli] = [Quiet EXCEPT !.pc = "first", !.target = t]]
    /\ UNCHANGED <<mode, chainVars, demoVars, lock, hour, unseen>>

\* A call fails before it has had any effect: the gateway or the fullnode is
\* not reached, the key does not load.
Fails(a) ==
    /\ act[a].pc \in {"first", "probe", "build", "send"}
    /\ Return(a)
    /\ UNCHANGED <<mode, chainVars, demoVars, hour, runs, unseen>>

\* What an upstream may answer: the wheel always 200, `broken` always 503.
Statuses(t) ==
    CASE t = "spin" -> {200}
      [] t = "fail" -> {503}
      [] OTHER -> {200, 204, 503}

\* Served from the free allowance (or a session, with the other meter),
\* challenged, or answered by Envoy.
FirstAnswers(a) ==
    {PassedThrough(s, "free") : s \in Statuses(act[a].target)}
      \cup {ImmediateDenial("none", "free"), EnvoyReply}

\* Anything but a 402 is printed, or shown, as the resource; only the status is
\* looked at again.
FirstAnswered(a) ==
    /\ act[a].pc = "first"
    /\ \E r \in FirstAnswers(a) :
          act' = [act EXCEPT ![a].reply = IF r.status = 402 THEN r ELSE NoAttempt,
                             ![a].pc = IF a = Cli THEN "read" ELSE "peek"]
    /\ UNCHANGED <<mode, chainVars, demoVars, lock, hour, runs, unseen>>

\* `plays_remaining` takes the mutex for a moment, also when nothing is owed.
Peek(v) ==
    /\ act[v].pc = "peek"
    /\ lock = Nobody
    /\ IF act[v].reply.status # 402 THEN Return(v)
       ELSE /\ act' = [act EXCEPT ![v].pc = "clock", ![v].reply = NoAttempt]
            /\ UNCHANGED lock
    /\ UNCHANGED <<mode, chainVars, demoVars, hour, runs, unseen>>

\* x402-pay: print and stop, or go on to pay if its paths parse.
Read ==
    /\ act[Cli].pc = "read"
    /\ \/ /\ act[Cli].reply.status # 402
          /\ Return(Cli)
       \/ /\ act[Cli].reply.status = 402
          /\ \E paths \in PathLists :
                IF ~Parses(paths) THEN Return(Cli)
                ELSE /\ act' = [act EXCEPT ![Cli].pc = "probe", ![Cli].paths = paths,
                                           ![Cli].reply = NoAttempt]
                     /\ UNCHANGED lock
    /\ UNCHANGED <<mode, chainVars, demoVars, hour, runs, unseen>>

-----------------------------------------------------------------------------
(* The demo's spend controls *)

ReadClock(v) ==
    /\ act[v].pc = "clock"
    /\ act' = [act EXCEPT ![v].pc = "entry", ![v].hour = hour]
    /\ UNCHANGED <<mode, chainVars, demoVars, lock, hour, runs, unseen>>

\* The entry as the handler finds it: another hour than its own starts afresh.
Current(e, h) == IF e.hour # h THEN [hour |-> h, n |-> 0] ELSE e

\* Mutant: the count is tested after it was raised.
HasPlaysLate(e) == e.n <= PER_IP_HOURLY

HasPlays(e) == e.n < PER_IP_HOURLY

Admit(v) ==
    /\ act[v].pc = "entry"
    /\ LET ip == IP[v]
           e == Current(entry[ip], act[v].hour)
       IN  /\ HasPlays(e)
           /\ entry' = [entry EXCEPT ![ip] = [e EXCEPT !.n = @ + 1]]
           /\ admitted' = [admitted EXCEPT ![ip][hour] = @ + 1]
    /\ Go(v, "lock")
    /\ UNCHANGED <<mode, chainVars, spent, lock, hour, runs, unseen>>

\* rate_limited
Limited(v) ==
    /\ act[v].pc = "entry"
    /\ LET ip == IP[v]
           e == Current(entry[ip], act[v].hour)
       IN  /\ ~HasPlays(e)
           /\ entry' = [entry EXCEPT ![ip] = e]
    /\ Return(v)
    /\ UNCHANGED <<mode, chainVars, spent, admitted, hour, runs, unseen>>

\* Mutant: the budget is tested and the guard dropped before paying.
TakeLockBriefly(v) ==
    /\ act[v].pc = "lock"
    /\ lock = Nobody
    /\ IF spent >= MAX_PLAYS THEN Return(v)
       ELSE Go(v, "probe") /\ UNCHANGED lock
    /\ UNCHANGED <<mode, chainVars, demoVars, hour, runs, unseen>>

\* The mutex is held from the budget check to the end of the payment.
TakeLock(v) ==
    /\ act[v].pc = "lock"
    /\ lock = Nobody
    /\ IF spent >= MAX_PLAYS THEN Return(v)
       ELSE Go(v, "probe") /\ lock' = v
    /\ UNCHANGED <<mode, chainVars, demoVars, hour, runs, unseen>>

-----------------------------------------------------------------------------
(* build_payment_header *)

Price(a) == PRICE[act[a].target]

Paths(a) == IF a = Cli THEN act[a].paths ELSE DefaultPaths

\* GetBalance, and the path chosen by what it says.
Probe(a) ==
    /\ act[a].pc = "probe"
    /\ LET funds == Funding(wallet)
           path == FirstUsable(Paths(a), Price(a), funds)
       IN  \/ /\ path = "none"
              /\ Return(a)
           \/ /\ path # "none"
              /\ act' = [act EXCEPT ![a].pc = "build", ![a].paths = <<>>,
                                    ![a].path = path]
              /\ UNCHANGED lock
    /\ UNCHANGED <<mode, chainVars, demoVars, hour, runs, unseen>>

\* Nonces of the transactions somebody still has, or the chain.
Used == {x[2].nonce : x \in landed \cup limbo} \cup {act[a].pay.nonce : a \in Actors}

\* Signed; --dry-run stops here.
Sign(a, p) ==
    \/ /\ act' = [act EXCEPT ![a].pay = p, ![a].pc = "send"]
       /\ UNCHANGED lock
    \/ a = Cli /\ Return(a)

BuildGasless(a) ==
    /\ act[a].pc = "build"
    /\ act[a].path = "gasless"
    /\ Sign(a, GaslessPayment(Price(a), Nonce(Used, Price(a))))
    /\ UNCHANGED <<mode, chainVars, demoVars, hour, runs, unseen>>

\* The coins are listed now; what `check` saw may have gone.
BuildCoinObject(a) ==
    /\ act[a].pc = "build"
    /\ act[a].path = "coin-object"
    /\ \E p \in CoinPayments(wallet, Price(a)) : Sign(a, p)
    /\ UNCHANGED <<mode, chainVars, demoVars, hour, runs, unseen>>

\* No single coin is large enough, there is no gas, or the node refuses: the
\* error is returned, no other path is tried.
CannotBuild(a) ==
    /\ act[a].pc = "build"
    /\ \/ act[a].path = "gasless"
       \/ act[a].path = "coin-object" /\ CoinPayments(wallet, Price(a)) = {}
    /\ Return(a)
    /\ UNCHANGED <<mode, chainVars, demoVars, hour, runs, unseen>>

-----------------------------------------------------------------------------
(* The second request, at the gateway (external) *)

Payer(a) == IF a = Cli THEN "cli" ELSE "demo"

Mine(a) == <<Payer(a), act[a].pay>>

Executes(a) ==
    /\ Payable(wallet, act[a].pay)
    /\ wallet' = Debited(wallet, act[a].pay)
    /\ landed' = landed \cup {Mine(a)}
    /\ UNCHANGED limbo

\* The broadcast's answer is lost: it may execute later.
MayExecute(a) ==
    /\ \/ UNCHANGED limbo
       \/ Cardinality(limbo) < MaxLimbo /\ limbo' = limbo \cup {Mine(a)}
    /\ UNCHANGED <<wallet, landed>>

\* The answer arrives, or the client sees only an error.
Answer(a, r, sent) ==
    \/ /\ act' = [act EXCEPT ![a].pc = "answer", ![a].reply = r, ![a].sent = sent]
       /\ UNCHANGED <<lock, unseen>>
    \/ /\ Return(a)
       /\ unseen' = IF a \in Visitors /\ landed' # landed THEN unseen + 1 ELSE unseen

\* Claimed already, refused by verification, or by the breaker.
Refused(a) ==
    /\ act[a].pc = "send"
    /\ UNCHANGED chainVars
    /\ \E r \in {ImmediateDenial("failed", "unknown"),
                 BreakerDenial(act[a].target = "grpc")} :
          Answer(a, r, "no")
    /\ UNCHANGED <<mode, demoVars, hour, runs>>

\* ext_proc verifies it and lets the request through.
Verified(a) ==
    /\ act[a].pc = "send"
    /\ mode = "stub" \/ Payable(wallet, act[a].pay)
    /\ \A b \in Actors : act[b].pc = "upstream" => act[b].pay # act[a].pay
    /\ Go(a, "upstream")
    /\ UNCHANGED <<mode, chainVars, demoVars, lock, hour, runs, unseen>>

\* Mutant: the wheel reads the budget before it spins.
UpstreamReadyLocking(a) == act[a].target = "spin" => lock = Nobody

\* The upstream can answer.  /spin and /boom are handlers of this process; the
\* wheel asks the gateway for its seed, and neither needs the mutex.
UpstreamReady(a) == TRUE

\* Not 2xx: discarded unsettled.
NotServed(a) ==
    /\ act[a].pc = "upstream"
    /\ UpstreamReady(a)
    /\ UNCHANGED chainVars
    /\ \E s \in {x \in Statuses(act[a].target) : ~IsSuccess(x)} :
          Answer(a, PassedThrough(s, "unknown"), "no")
    /\ UNCHANGED <<mode, demoVars, hour, runs>>

\* 2xx: settled, with a session unless the store failed; or not settled.
Served(a) ==
    /\ act[a].pc = "upstream"
    /\ UpstreamReady(a)
    /\ \E s \in {x \in Statuses(act[a].target) : IsSuccess(x)} :
          \/ /\ mode = "sui"
             /\ Executes(a)
             /\ \E token \in {"yes", "no"} :
                   Answer(a, AfterSettling(s, "settled", token), "yes")
          \/ /\ mode = "sui"
             /\ MayExecute(a)
             /\ Answer(a, AfterSettling(s, "failed", "no"), "yes")
          \/ /\ mode = "stub"
             /\ UNCHANGED chainVars
             /\ Answer(a, AfterSettling(s, "stub", "yes"), "no")
    /\ UNCHANGED <<mode, demoVars, hour, runs>>

\* Envoy gives up on ext_proc.  The task goes on all the same: in the request
\* phase its answer finds the stream closed and nothing is settled ...
CutWhileDeciding(a) ==
    /\ act[a].pc = "send"
    /\ UNCHANGED chainVars
    /\ Answer(a, EnvoyReply, "no")
    /\ UNCHANGED <<mode, demoVars, hour, runs>>

\* ... in the response phase it settles what the upstream served.
CutWhileSettling(a) ==
    /\ act[a].pc = "upstream"
    /\ UpstreamReady(a)
    /\ \/ /\ mode = "sui"
          /\ \E s \in Statuses(act[a].target) : IsSuccess(s)
          /\ MayExecute(a)
          /\ Answer(a, EnvoyReply, "yes")
       \/ /\ UNCHANGED chainVars
          /\ Answer(a, EnvoyReply, "no")
    /\ UNCHANGED <<mode, demoVars, hour, runs>>

-----------------------------------------------------------------------------
(* The result *)

\* The end of `send`: count what settled, show what the receipt says.
Finish(v) ==
    /\ act[v].pc = "answer"
    /\ LET settled == ReceiptSettled(act[v].reply.receipt)
       IN  /\ spent' = IF settled THEN spent + 1 ELSE spent
           /\ Return(v)
    /\ UNCHANGED <<mode, chainVars, entry, admitted, hour, runs, unseen>>

\* x402-pay exits 0 on a 200.
Exit ==
    /\ act[Cli].pc = "answer"
    /\ Return(Cli)
    /\ UNCHANGED <<mode, chainVars, demoVars, hour, runs, unseen>>

\* The visitor closes the page, or x402-pay is interrupted, at an await.  A
\* payment the gateway has may still be settled.
Leaves(a) ==
    /\ act[a].pc \in {"first", "peek", "lock", "probe", "build", "send",
                      "upstream", "answer"}
    /\ \/ act[a].pc = "upstream" /\ mode = "sui" /\ MayExecute(a)
       \/ UNCHANGED chainVars
    /\ unseen' = IF /\ a \in Visitors
                    /\ act[a].pc = "answer"
                    /\ act[a].reply.receipt = "settled"
                 THEN unseen + 1 ELSE unseen
    /\ Return(a)
    /\ UNCHANGED <<mode, demoVars, hour, runs>>

\* A payment in limbo executes after all ...
Lands(x) ==
    /\ Payable(wallet, x[2])
    /\ wallet' = Debited(wallet, x[2])
    /\ landed' = landed \cup {x}
    /\ limbo' = limbo \ {x}
    /\ unseen' = IF x[1] = "demo" THEN unseen + 1 ELSE unseen
    /\ UNCHANGED <<mode, act, demoVars, lock, hour, runs>>

\* ... or never will: it was not broadcast, or its epoch is over.
Lapses(x) ==
    /\ limbo' = limbo \ {x}
    /\ UNCHANGED <<mode, wallet, landed, act, demoVars, lock, hour, runs, unseen>>

NextHour ==
    /\ hour < MaxHour
    /\ hour' = hour + 1
    /\ UNCHANGED <<mode, chainVars, act, demoVars, lock, runs, unseen>>

-----------------------------------------------------------------------------
Pays(a) ==
    \/ Fails(a) \/ Probe(a) \/ BuildGasless(a) \/ BuildCoinObject(a) \/ CannotBuild(a)
    \/ Refused(a) \/ Verified(a) \/ NotServed(a) \/ Served(a)
    \/ CutWhileDeciding(a) \/ CutWhileSettling(a)

SendStep(v) ==
    \/ FirstAnswered(v) \/ Peek(v) \/ ReadClock(v) \/ Admit(v) \/ Limited(v)
    \/ TakeLock(v) \/ Pays(v) \/ Finish(v)

CliStep == FirstAnswered(Cli) \/ Read \/ Pays(Cli) \/ Exit

Next ==
    \/ \E v \in Visitors, t \in Targets : Click(v, t)
    \/ \E t \in CliTargets : Run(t)
    \/ \E v \in Visitors : SendStep(v)
    \/ CliStep
    \/ \E a \in Actors : Leaves(a)
    \/ \E x \in limbo : Lands(x) \/ Lapses(x)
    \/ NextHour

Spec == Init /\ [][Next]_vars

\* A request to the gateway is answered, fails or is cut off by Envoy's route
\* timeout, and tokio's mutex is handed over in the order it was asked for.  That
\* the fullnode answers `probe` and `build`, or fails them, is an assumption: the
\* client sets no timeout on those calls.
Fairness ==
    \A v \in Visitors :
       WF_vars(SendStep(v)) /\ SF_vars(Peek(v) \/ TakeLock(v))

FairSpec == Spec /\ Fairness

-----------------------------------------------------------------------------
(* Properties *)

ByDemo == {x \in landed : x[1] = "demo"}

\* "Hard ceiling on paid requests for the lifetime of this process" (max_plays):
\* the budget is tested and raised under one lock, so handlers cannot overrun
\* it together; only payments whose receipt no handler read come on top.
CeilingHolds == Cardinality(ByDemo) <= MAX_PLAYS + unseen

\* `spent` counts money: every payment the demo put on chain has been counted,
\* is about to be by the handler that has its receipt, or was never seen; and
\* nothing else is counted, neither refusals nor stub receipts.
SpentIsMoney ==
    Cardinality(ByDemo) =
       spent + unseen +
       Cardinality({v \in Visitors : act[v].pc = "answer"
                                     /\ act[v].reply.receipt = "settled"})

\* How many handlers of an address can be under way at once.
Handlers(ip) == Cardinality({v \in Visitors : IP[v] = ip})

\* "Paid requests allowed per source IP per hour": a handler reads the hour before
\* it takes the entry, so each one that read it before the hour turned can reset
\* the count of those that came after.  The allowance is not kept then, but what
\* is let through in an hour of the clock is bounded all the same: every handler
\* of the address can give away one request and one fresh allowance.
HourlyAllowance ==
    \A ip \in Ips : \A h \in 0..MaxHour :
       admitted[ip][h] <= Handlers(ip) * (PER_IP_HOURLY + 1)

InFlight(a) == act[a].pc \in {"send", "upstream"}

\* One wallet, many payers: no two exchanges are under way with the same
\* transaction, by the nonce of the gasless path and by the demo's lock.  (The
\* command line knows no lock: it may pin the coin the demo has just pinned.)
PaymentsDistinct ==
    \A a, b \in Actors :
       (InFlight(a) /\ InFlight(b) /\ act[a].pay = act[b].pay /\ a # b)
          => act[a].pay.path = "coin-object" /\ Cli \in {a, b}

\* What the clients conclude about money is true.  A receipt shown as settled, and
\* outside stub mode a session token, stand for a payment that is on chain.
\* "SKIPPED ... nothing was charged" (attempt_spans) is shown for a payment that
\* may still be charged only on an answer without any timing of the gateway's,
\* Envoy's own.  And an answer of the gateway's own, a refusal, whatever the
\* client makes of its status (the breaker's is a 200 on the gRPC paths), never
\* goes with money: nothing was sent, and a gasless payment, which is nobody
\* else's, is not on chain and not on its way.
ShownIsTrue ==
    \A a \in Actors :
       LET r == act[a].reply
       IN  act[a].pc = "answer" =>
              /\ ReceiptSettled(r.receipt) => Mine(a) \in landed
              /\ mode = "sui" /\ r.session = "yes" => Mine(a) \in landed
              /\ SettlementSpan(r) = "skip" => act[a].sent = "no" \/ r.timing = {}
              /\ r.by = "gateway" =>
                    /\ act[a].sent = "no"
                    /\ act[a].pay.path = "gasless" => Mine(a) \notin landed \cup limbo

\* Every /send returns (an idle handler is one that has), although all of them,
\* also those that owe nothing, queue for a mutex somebody holds across a whole
\* payment.
SendReturns ==
    \A v \in Visitors : []<>(act[v].pc = "idle")
=============================================================================
