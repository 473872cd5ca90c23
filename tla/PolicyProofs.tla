----------------------------- MODULE PolicyProofs -----------------------------
(***************************************************************************)
(* What validation at the start buys, for every configuration, environment *)
(* and request (Startup.tla, PolicyTable.tla).                             *)
(***************************************************************************)
EXTENDS Startup, TLAPS

\* Layering a valid override over valid terms gives valid terms (apply_to).
LEMMA ApplyKeepsValid ==
    ASSUME NEW o, NEW t, OverrideValid(o), TermsValid(t)
    PROVE  TermsValid(Apply(o, t))
<1>1. ParsesAsU128(Apply(o, t).amount)
  BY DEF OverrideValid, TermsValid, Apply, Or
<1>2. ValidPayTo(Apply(o, t).payTo)
  BY DEF OverrideValid, TermsValid, Apply, Or
<1>3. Apply(o, t).free.window > 0
  BY DEF OverrideValid, TermsValid, Apply, Or
<1>4. Apply(o, t).paid.duration > 0 /\ Apply(o, t).paid.quota > 0
  BY DEF OverrideValid, TermsValid, Apply, Or
<1> QED BY <1>1, <1>2, <1>3, <1>4 DEF TermsValid

\* Config::validate covers every way policy_for can go: by name, by the longest
\* prefix, or to the defaults.
THEOREM ValidResolves ==
    ASSUME NEW c, NEW path, NEW policy, Valid(c)
    PROVE  TermsValid(PolicyFor(c, path, policy).terms)
<1> DEFINE best == LongestMatch(c.routes, path)
           route == c.routes[CHOOSE i \in best : TRUE]
<1>1. CASE policy \in DOMAIN c.policies
  <2>1. OverrideValid(c.policies[policy]) /\ TermsValid(c.terms)
    BY <1>1 DEF Valid
  <2>2. PolicyFor(c, path, policy).terms = Apply(c.policies[policy], c.terms)
    BY <1>1 DEF PolicyFor
  <2> QED BY <2>1, <2>2, ApplyKeepsValid
<1>2. CASE policy \notin DOMAIN c.policies /\ best # {}
  <2>1. (CHOOSE i \in best : TRUE) \in DOMAIN c.routes
    BY <1>2 DEF LongestMatch, Matching
  <2>2. OverrideValid(route.over) /\ TermsValid(c.terms)
    BY <2>1 DEF Valid
  <2>3. PolicyFor(c, path, policy).terms = Apply(route.over, c.terms)
    BY <1>2 DEF PolicyFor
  <2> QED BY <2>2, <2>3, ApplyKeepsValid
<1>3. CASE policy \notin DOMAIN c.policies /\ best = {}
  <2>1. PolicyFor(c, path, policy).terms = c.terms
    BY <1>3 DEF PolicyFor
  <2> QED BY <2>1 DEF Valid
<1> QED BY <1>1, <1>2, <1>3

\* What is served has been validated.
ServesValid == running # Down => Valid(running)

\* ServesValid holds of every reachable state: only Start gives `running` a
\* configuration, and it has validated that very one.
LEMMA ServesValidAlways == Spec => []ServesValid
<1>1. Init => ServesValid
  BY DEF Init, ServesValid
<1>2. ServesValid /\ [Next]_vars => ServesValid'
  <2> SUFFICES ASSUME ServesValid, [Next]_vars PROVE ServesValid'
    OBVIOUS
  <2>1. CASE Start
    <3>1. Valid(Load(file, Environment(exports))) /\ running' = Load(file, Environment(exports))
      BY <2>1 DEF Start, Accepted
    <3> QED BY <3>1, Zenon DEF ServesValid
  <2>2. CASE Refuse \/ EditFile \/ Export \/ MoveNode
    <3>1. running' = running
      BY <2>2 DEF Refuse, EditFile, Export, MoveNode
    <3> QED BY <3>1, Zenon DEF ServesValid
  <2>3. CASE Stop
    BY <2>3 DEF Stop, ServesValid
  <2>4. CASE UNCHANGED vars
    <3>1. running' = running
      BY <2>4 DEF vars
    <3> QED BY <3>1, Zenon DEF ServesValid
  <2> QED BY <2>1, <2>2, <2>3, <2>4 DEF Next
<1> QED BY <1>1, <1>2, PTL DEF Spec

\* Startup's main property for every configuration file, environment, node and
\* request: no running service resolves a request to terms, or signs with a key,
\* that validation would have refused.
THEOREM RunningIsSound == Spec => []RunningTermsUsable
<1>1. ServesValid => RunningTermsUsable
  <2> SUFFICES ASSUME ServesValid, running # Down
               PROVE  /\ ValidKey(running.hmac)
                      /\ \A path \in Paths, policy \in Names :
                            TermsValid(Resolved(path, policy).terms)
    BY DEF RunningTermsUsable
  <2>1. Valid(running)
    BY DEF ServesValid
  <2>2. ASSUME NEW path \in Paths, NEW policy \in Names
        PROVE  TermsValid(Resolved(path, policy).terms)
    <3>1. TermsValid(PolicyFor(running, path, policy).terms)
      BY <2>1, ValidResolves
    <3> QED BY <3>1 DEF Resolved
  <2> QED BY <2>1, <2>2 DEF Valid
<1> QED BY <1>1, ServesValidAlways, PTL

-----------------------------------------------------------------------------
(* Who is credited *)

\* Between two starts file and variables stay what the operator can write.
Written == file \in Files /\ exports \in Exports

\* What is served is what the file and the environment of its start say.
ServesWhatItLoaded == running # Down => running = Load(file, Environment(exports))

\* Load, as far as the wallets go.
LEMMA LoadedWallets ==
    ASSUME NEW f \in Files, NEW e, NEW n \in DOMAIN f.policies
    PROVE  LET wallet == IF EnvVar(n) \in DOMAIN e.vars THEN e.vars[EnvVar(n)] ELSE Unset
           IN  /\ n \in DOMAIN Load(f, e).policies
               /\ Load(f, e).policies[n].payTo = Or(wallet, f.policies[n].payTo)
               /\ Load(f, e).terms.payTo = Or(e.payTo, f.terms.payTo)
<1> DEFINE wallet(x) == IF EnvVar(x) \in DOMAIN e.vars THEN e.vars[EnvVar(x)] ELSE Unset
           over == [x \in DOMAIN f.policies |->
                      [f.policies[x] EXCEPT !.payTo = Or(wallet(x), f.policies[x].payTo)]]
<1>1. Load(f, e) = [f EXCEPT !.hmac = Or(e.hmac, f.hmac),
                             !.terms.payTo = Or(e.payTo, f.terms.payTo),
                             !.policies = over]
  BY DEF Load
<1>2. over[n] = [f.policies[n] EXCEPT !.payTo = Or(wallet(n), f.policies[n].payTo)]
      /\ n \in DOMAIN over
  OBVIOUS
<1>3. over[n].payTo = Or(wallet(n), f.policies[n].payTo)
  <2>1. "payTo" \in DOMAIN f.policies[n]
    BY StartupAssumption
  <2> HIDE DEF over, wallet
  <2> QED BY <1>2, <2>1
<1> HIDE DEF over
<1>4. {"hmac", "terms", "policies"} \subseteq DOMAIN f /\ "payTo" \in DOMAIN f.terms
  BY StartupAssumption
<1>5. Load(f, e).policies = over /\ Load(f, e).terms.payTo = Or(e.payTo, f.terms.payTo)
  BY <1>1, <1>4
<1> QED BY <1>2, <1>3, <1>5

\* A valid configuration was not made from an empty variable: every wallet it
\* took from the environment is one the operator set.
LEMMA NothingWasEmpty ==
    ASSUME NEW f \in Files, NEW e \in Exports, NEW n \in DOMAIN f.policies,
           Valid(Load(f, Environment(e)))
    PROVE  LET wallet(x) == IF EnvVar(n) \in DOMAIN x.vars THEN x.vars[EnvVar(n)] ELSE Unset
           IN  /\ wallet(Environment(e)) = wallet(e)
               /\ Environment(e).payTo = e.payTo
<1>1. PICK g, v : g = Environment(e) /\ v = EnvVar(n)
  OBVIOUS
<1>2. CASE ~compose
  BY <1>1, <1>2 DEF Environment
<1>3. CASE compose
  <2>1. g = [e EXCEPT !.vars = [x \in DOMAIN e.vars |-> Or(e.vars[x], Empty)]]
    BY <1>1, <1>3 DEF Environment
  <2>2. g.payTo = e.payTo /\ g.vars = [x \in DOMAIN e.vars |-> Or(e.vars[x], Empty)]
    BY <2>1, StartupAssumption
  <2>3. CASE v \in DOMAIN e.vars /\ e.vars[v] = Unset /\ Empty # Unset
    <3>1. v \in DOMAIN g.vars /\ g.vars[v] = Empty
      BY <2>2, <2>3 DEF Or
    <3>2. PICK c : c = Load(f, g)
      OBVIOUS
    <3>3. n \in DOMAIN c.policies /\ c.policies[n].payTo = Or(Empty, f.policies[n].payTo)
      BY <1>1, <3>1, <3>2, LoadedWallets
    <3>4. c.policies[n].payTo = Empty
      BY <2>3, <3>3 DEF Or
    <3>5. OverrideValid(c.policies[n])
      BY <1>1, <3>2, <3>3 DEF Valid
    <3>6. Empty \in Usable
      BY <2>3, <3>4, <3>5 DEF OverrideValid, ValidPayTo
    <3> QED BY <3>6, StartupAssumption
  <2>4. CASE ~(v \in DOMAIN e.vars /\ e.vars[v] = Unset /\ Empty # Unset)
    <3>1. DOMAIN g.vars = DOMAIN e.vars /\ (v \in DOMAIN e.vars => g.vars[v] = e.vars[v])
      BY <2>2, <2>4 DEF Or
    <3> QED BY <1>1, <2>2, <3>1
  <2> QED BY <2>3, <2>4
<1> QED BY <1>2, <1>3

\* A service that runs credits the wallet the operator chose, for every file,
\* environment and request, under compose and without: an unset variable that
\* compose made an empty one stops the start.
THEOREM WalletIsTheChosenOne == Spec => []CreditsTheChosenWallet
<1>1. Init => Written /\ ServesWhatItLoaded
  BY DEF Init, Written, ServesWhatItLoaded
<1>2. Written /\ ServesWhatItLoaded /\ [Next]_vars => Written' /\ ServesWhatItLoaded'
  <2> SUFFICES ASSUME Written, ServesWhatItLoaded, [Next]_vars
               PROVE  Written' /\ ServesWhatItLoaded'
    OBVIOUS
  <2>1. CASE Start
    <3>1. /\ running' = Load(file, Environment(exports))
          /\ UNCHANGED <<compose, file, exports>>
      BY <2>1 DEF Start
    <3> QED BY <3>1, Zenon DEF Written, ServesWhatItLoaded, Environment
  <2>2. CASE Refuse \/ UNCHANGED vars
    <3>1. UNCHANGED <<compose, file, exports, running>>
      BY <2>2 DEF Refuse, vars
    <3> QED BY <3>1, Zenon DEF Written, ServesWhatItLoaded, Environment
  <2>3. CASE Stop \/ EditFile \/ Export \/ MoveNode
    <3>1. running' = Down /\ Written'
      BY <2>3 DEF Stop, EditFile, Export, MoveNode, Written
    <3> QED BY <3>1 DEF ServesWhatItLoaded
  <2> QED BY <2>1, <2>2, <2>3 DEF Next
<1>3. Written /\ ServesWhatItLoaded /\ ServesValid => CreditsTheChosenWallet
  <2> SUFFICES ASSUME Written, ServesWhatItLoaded, ServesValid, running # Down,
                      NEW path \in Paths, NEW n \in DOMAIN file.policies
               PROVE  Resolved(path, n).terms.payTo =
                         Or(Exported(n), Or(file.policies[n].payTo,
                                            Or(exports.payTo, file.terms.payTo)))
    BY DEF CreditsTheChosenWallet
  <2>1. PICK f \in Files, e \in Exports : f = file /\ e = exports
    BY DEF Written
  <2>2. PICK g, c, w : /\ g = Environment(e) /\ c = Load(f, g)
                       /\ w = IF EnvVar(n) \in DOMAIN g.vars THEN g.vars[EnvVar(n)] ELSE Unset
    OBVIOUS
  <2>3. running = c /\ Valid(c) /\ n \in DOMAIN f.policies
    BY <2>1, <2>2, Zenon DEF ServesWhatItLoaded, ServesValid
  <2>4. w = Exported(n) /\ g.payTo = exports.payTo
    BY <2>1, <2>2, <2>3, NothingWasEmpty DEF Exported
  <2>5. /\ n \in DOMAIN c.policies
        /\ c.policies[n].payTo = Or(w, f.policies[n].payTo)
        /\ c.terms.payTo = Or(g.payTo, f.terms.payTo)
    BY <2>2, <2>3, LoadedWallets
  <2>6. Resolved(path, n).terms.payTo = Or(c.policies[n].payTo, c.terms.payTo)
    BY <2>3, <2>5 DEF Resolved, PolicyFor, Apply
  <2> QED BY <2>1, <2>4, <2>5, <2>6 DEF Or
<1> QED BY <1>1, <1>2, <1>3, ServesValidAlways, PTL DEF Spec

-----------------------------------------------------------------------------
(* The order of the file *)

\* No prefix is listed twice.  (Where one is, max_by_key takes the last, and the
\* order does matter.)
PrefixesDistinct ==
    \A f \in Files : \A i, j \in DOMAIN f.routes :
       f.routes[i].prefix = f.routes[j].prefix => i = j

\* Two prefixes of one path that are equally long are equal.
LEMMA SamePrefix ==
    ASSUME NEW path, NEW p \in Seq(STRING), NEW q \in Seq(STRING),
           StartsWith(path, p), StartsWith(path, q), Len(p) = Len(q)
    PROVE  p = q
<1>1. DOMAIN p = 1 .. Len(p) /\ DOMAIN q = 1 .. Len(q)
  OBVIOUS
<1>2. \A i \in 1 .. Len(p) : p[i] = q[i]
  BY <1>1 DEF StartsWith
<1> QED BY <1>1, <1>2

RouteTable(routes) ==
    /\ routes \in Seq({routes[i] : i \in DOMAIN routes})
    /\ \A i \in DOMAIN routes : routes[i].prefix \in Seq(STRING)
    /\ \A i, j \in DOMAIN routes : routes[i].prefix = routes[j].prefix => i = j

Turned(routes) == [i \in 1 .. Len(routes) |-> routes[Len(routes) + 1 - i]]

\* policy_for's search, on a table and on the same table turned round.
LEMMA TurnedResolves ==
    ASSUME NEW routes, RouteTable(routes), NEW path,
           NEW turned, turned = Turned(routes),
           NEW best, best = LongestMatch(routes, path),
           NEW back, back = LongestMatch(turned, path)
    PROVE  /\ best = {} <=> back = {}
           /\ best # {} => routes[CHOOSE i \in best : TRUE] = turned[CHOOSE i \in back : TRUE]
<1> DEFINE M == Matching(routes, path)
           B == Matching(turned, path)
           n == Len(routes)
           m(i) == n + 1 - i
<1>0. /\ routes \in Seq({routes[i] : i \in DOMAIN routes})
      /\ \A i \in DOMAIN routes : routes[i].prefix \in Seq(STRING)
      /\ \A i, j \in DOMAIN routes : routes[i].prefix = routes[j].prefix => i = j
      /\ turned = [i \in 1 .. n |-> routes[m(i)]]
  BY DEF RouteTable, Turned
<1>1. n \in Nat /\ DOMAIN routes = 1 .. n /\ DOMAIN turned = 1 .. n
  BY <1>0
<1>2. \A i \in 1 .. n : m(i) \in 1 .. n /\ m(m(i)) = i /\ turned[i] = routes[m(i)]
  BY <1>0, <1>1
<1>3. /\ M = {i \in 1 .. n : StartsWith(path, routes[i].prefix)}
      /\ B = {i \in 1 .. n : StartsWith(path, turned[i].prefix)}
  BY <1>1 DEF Matching
<1>4. \A i \in 1 .. n : i \in B <=> m(i) \in M
  BY <1>2, <1>3
<1>5. \A i, j \in M : Len(routes[i].prefix) = Len(routes[j].prefix) => i = j
  <2> SUFFICES ASSUME NEW i \in M, NEW j \in M, Len(routes[i].prefix) = Len(routes[j].prefix)
               PROVE  i = j
    OBVIOUS
  <2>1. routes[i].prefix = routes[j].prefix
    BY <1>0, <1>1, <1>3, SamePrefix
  <2> QED BY <1>0, <1>1, <1>3, <2>1
<1>6. \A i \in 1 .. n : Len(routes[i].prefix) \in Nat
  BY <1>0, <1>1
<1>7. best = {i \in M : \A j \in M : i # j => Len(routes[j].prefix) < Len(routes[i].prefix)}
  <2>1. best = {i \in M : \A j \in M :
                  \/ Len(routes[j].prefix) < Len(routes[i].prefix)
                  \/ Len(routes[j].prefix) = Len(routes[i].prefix) /\ j <= i}
    BY DEF LongestMatch
  <2>2. M \subseteq 1 .. n
    BY <1>3
  <2> HIDE DEF M
  <2> SUFFICES ASSUME NEW i \in M, NEW j \in M
               PROVE  (\/ Len(routes[j].prefix) < Len(routes[i].prefix)
                       \/ Len(routes[j].prefix) = Len(routes[i].prefix) /\ j <= i)
                      <=> (i # j => Len(routes[j].prefix) < Len(routes[i].prefix))
    BY <2>1, Zenon
  <2>3. CASE i = j
    BY <1>1, <2>2, <2>3
  <2>4. CASE i # j
    BY <1>5, <2>4, Zenon
  <2> QED BY <2>3, <2>4
<1>8. back = {i \in B : \A j \in B : i # j => Len(turned[j].prefix) < Len(turned[i].prefix)}
  <2>1. back = {i \in B : \A j \in B :
                  \/ Len(turned[j].prefix) < Len(turned[i].prefix)
                  \/ Len(turned[j].prefix) = Len(turned[i].prefix) /\ j <= i}
    BY DEF LongestMatch
  <2>2. B \subseteq 1 .. n
    BY <1>3
  <2>3. \A i, j \in B : Len(turned[i].prefix) = Len(turned[j].prefix) => i = j
    <3> SUFFICES ASSUME NEW i \in B, NEW j \in B, Len(turned[i].prefix) = Len(turned[j].prefix)
                 PROVE  i = j
      OBVIOUS
    <3>1. m(i) \in M /\ m(j) \in M /\ turned[i] = routes[m(i)] /\ turned[j] = routes[m(j)]
      BY <1>2, <1>4, <2>2
    <3>2. m(i) = m(j)
      <4> HIDE DEF m, M, B
      <4> QED BY <1>5, <3>1
    <3> QED BY <1>2, <2>2, <3>2
  <2> HIDE DEF B
  <2> SUFFICES ASSUME NEW i \in B, NEW j \in B
               PROVE  (\/ Len(turned[j].prefix) < Len(turned[i].prefix)
                       \/ Len(turned[j].prefix) = Len(turned[i].prefix) /\ j <= i)
                      <=> (i # j => Len(turned[j].prefix) < Len(turned[i].prefix))
    BY <2>1, Zenon
  <2>4. CASE i = j
    BY <1>1, <2>2, <2>4
  <2>5. CASE i # j
    BY <2>3, <2>5, Zenon
  <2> QED BY <2>4, <2>5
<1>9. \A i \in 1 .. n : i \in back <=> m(i) \in best
  <2> HIDE DEF M, B
  <2> SUFFICES ASSUME NEW i \in 1 .. n PROVE i \in back <=> m(i) \in best
    OBVIOUS
  <2>0. M \subseteq 1 .. n /\ B \subseteq 1 .. n
    BY <1>3
  <2>1. ASSUME i \in back PROVE m(i) \in best
    <3>1. m(i) \in M
      BY <1>4, <1>8, <2>1
    <3>2. ASSUME NEW j \in M, j # m(i)
          PROVE  Len(routes[j].prefix) < Len(routes[m(i)].prefix)
      <4>1. j \in 1 .. n /\ m(j) \in B /\ m(j) # i
        BY <1>2, <1>4, <2>0, <3>2
      <4>2. Len(turned[m(j)].prefix) < Len(turned[i].prefix)
        BY <1>8, <2>1, <4>1
      <4>3. turned[m(j)] = routes[j] /\ turned[i] = routes[m(i)]
        BY <1>2, <4>1
      <4> QED BY <4>2, <4>3
    <3> QED BY <1>7, <3>1, <3>2
  <2>2. ASSUME m(i) \in best PROVE i \in back
    <3>1. i \in B
      BY <1>4, <1>7, <2>2
    <3>2. ASSUME NEW j \in B, j # i
          PROVE  Len(turned[j].prefix) < Len(turned[i].prefix)
      <4>1. j \in 1 .. n /\ m(j) \in M /\ m(j) # m(i)
        BY <1>2, <1>4, <2>0, <3>2
      <4>2. Len(routes[m(j)].prefix) < Len(routes[m(i)].prefix)
        BY <1>7, <2>2, <4>1
      <4>3. turned[j] = routes[m(j)] /\ turned[i] = routes[m(i)]
        BY <1>2, <4>1
      <4> QED BY <4>2, <4>3
    <3> QED BY <1>8, <3>1, <3>2
  <2> QED BY <2>1, <2>2
<1>10. best \subseteq 1 .. n /\ back \subseteq 1 .. n
  BY <1>3, <1>7, <1>8
<1>11. \A i, j \in best : i = j
  <2> SUFFICES ASSUME NEW i \in best, NEW j \in best, i # j PROVE FALSE
    OBVIOUS
  <2>1. PICK x \in Nat, y \in Nat : x = Len(routes[i].prefix) /\ y = Len(routes[j].prefix)
    BY <1>6, <1>10
  <2>2. x < y /\ y < x
    BY <1>7, <2>1, Zenon
  <2> QED BY <2>2
<1> HIDE DEF M, B
<1>12. best = {} <=> back = {}
  <2>1. \A i \in best : m(i) \in back
    BY <1>2, <1>9, <1>10
  <2>2. \A i \in back : m(i) \in best
    BY <1>9, <1>10
  <2> HIDE DEF m
  <2> QED BY <2>1, <2>2
<1>13. ASSUME best # {}
       PROVE  routes[CHOOSE i \in best : TRUE] = turned[CHOOSE i \in back : TRUE]
  <2>1. PICK a \in best : a = CHOOSE i \in best : TRUE
    BY <1>13
  <2>2. PICK b \in back : b = CHOOSE i \in back : TRUE
    BY <1>12, <1>13
  <2>3. m(b) \in best /\ turned[b] = routes[m(b)]
    BY <1>2, <1>9, <1>10
  <2>4. m(b) = a
    BY <1>11, <2>3
  <2> QED BY <2>1, <2>2, <2>3, <2>4
<1> QED BY <1>12, <1>13

\* What is served has a file's routes.
ServesAFile ==
    running # Down => \E f \in Files : running.routes = f.routes /\ DOMAIN running = DOMAIN f

\* "file order is irrelevant" (policy_for), for every file without a repeated
\* prefix, every environment and every request.
THEOREM OrderIsIrrelevant == PrefixesDistinct => (Spec => []FileOrderIrrelevant)
<1> SUFFICES ASSUME PrefixesDistinct PROVE Spec => []FileOrderIrrelevant
  OBVIOUS
<1>1. Init => Written /\ ServesAFile
  BY DEF Init, Written, ServesAFile
<1>2. Written /\ ServesAFile /\ [Next]_vars => Written' /\ ServesAFile'
  <2> SUFFICES ASSUME Written, ServesAFile, [Next]_vars
               PROVE  Written' /\ ServesAFile'
    OBVIOUS
  <2>1. CASE Start
    <3>1. /\ running' = Load(file, Environment(exports))
          /\ UNCHANGED <<file, exports>>
      BY <2>1 DEF Start
    <3>2. PICK c : c = Load(file, Environment(exports))
      OBVIOUS
    <3>3. c.routes = file.routes /\ DOMAIN c = DOMAIN file
      BY <3>2, StartupAssumption DEF Written, Load
    <3> QED BY <3>1, <3>2, <3>3, Zenon DEF Written, ServesAFile
  <2>2. CASE Refuse \/ EditFile \/ Export \/ MoveNode \/ UNCHANGED vars
    <3>1. running' = running /\ Written'
      BY <2>2 DEF Refuse, EditFile, Export, MoveNode, vars, Written
    <3> QED BY <3>1, Zenon DEF ServesAFile
  <2>3. CASE Stop
    BY <2>3 DEF Stop, Written, ServesAFile
  <2> QED BY <2>1, <2>2, <2>3 DEF Next
<1>3. ServesAFile => FileOrderIrrelevant
  <2> SUFFICES ASSUME ServesAFile, running # Down, NEW path \in Paths, NEW policy \in Names
               PROVE  LET n == Len(running.routes)
                          turned == [running EXCEPT !.routes =
                                        [i \in 1 .. n |-> running.routes[n + 1 - i]]]
                      IN  Resolved(path, policy) = PolicyFor(turned, path, policy)
    BY DEF FileOrderIrrelevant
  <2>1. PICK f \in Files : running.routes = f.routes /\ DOMAIN running = DOMAIN f
    BY DEF ServesAFile
  <2>2. PICK routes : routes = f.routes
    OBVIOUS
  <2>3. RouteTable(routes)
    <3>1. RouteTable(f.routes)
      BY StartupAssumption DEF PrefixesDistinct, RouteTable
    <3> QED BY <2>2, <3>1
  <2>4. {"terms", "policies", "routes"} \subseteq DOMAIN running
    BY <2>1, StartupAssumption
  <2> DEFINE n == Len(running.routes)
             back == [i \in 1 .. n |-> running.routes[n + 1 - i]]
             t == [running EXCEPT !.routes = back]
  <2>5. PICK turned : turned = Turned(routes)
    OBVIOUS
  <2>6. back = turned
    BY <2>1, <2>2, <2>5 DEF Turned
  <2>7. t.routes = turned /\ t.policies = running.policies /\ t.terms = running.terms
    BY <2>4, <2>6
  <2>8. PICK a, b : a = LongestMatch(routes, path) /\ b = LongestMatch(turned, path)
    OBVIOUS
  <2>9. /\ a = {} <=> b = {}
        /\ a # {} => routes[CHOOSE i \in a : TRUE] = turned[CHOOSE i \in b : TRUE]
    BY <2>3, <2>5, <2>8, TurnedResolves
  <2>10. running.routes = routes
    BY <2>1, <2>2
  <2> HIDE DEF t
  <2>11. PolicyFor(running, path, policy) = PolicyFor(t, path, policy)
    <3>1. LongestMatch(running.routes, path) = a /\ LongestMatch(t.routes, path) = b
      BY <2>7, <2>8, <2>10, Zenon
    <3>2. CASE policy \in DOMAIN running.policies
      BY <2>7, <3>2 DEF PolicyFor
    <3>3. CASE policy \notin DOMAIN running.policies /\ a = {}
      BY <2>7, <2>9, <3>1, <3>3 DEF PolicyFor
    <3>4. CASE policy \notin DOMAIN running.policies /\ a # {}
      <4>1. PICK r : r = routes[CHOOSE i \in a : TRUE]
        OBVIOUS
      <4>2. b # {} /\ t.routes[CHOOSE i \in b : TRUE] = r /\ running.routes[CHOOSE i \in a : TRUE] = r
        BY <2>7, <2>9, <2>10, <3>4, <4>1, Zenon
      <4>3. PolicyFor(running, path, policy)
              = [label |-> r.prefix, from |-> <<"route", r.prefix>>,
                 terms |-> Apply(r.over, running.terms)]
        BY <3>1, <3>4, <4>2, Zenon DEF PolicyFor
      <4>4. PolicyFor(t, path, policy)
              = [label |-> r.prefix, from |-> <<"route", r.prefix>>,
                 terms |-> Apply(r.over, t.terms)]
        <5>1. policy \notin DOMAIN t.policies
          BY <2>7, <3>4, Zenon
        <5> QED BY <3>1, <4>2, <5>1, Zenon DEF PolicyFor
      <4> QED BY <2>7, <4>3, <4>4, Zenon
    <3> QED BY <3>2, <3>3, <3>4
  <2> QED BY <2>11 DEF Resolved, t
<1> QED BY <1>1, <1>2, <1>3, PTL DEF Spec
=============================================================================
