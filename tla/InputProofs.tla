------------------------------ MODULE InputProofs ------------------------------
(***************************************************************************)
(* What the server makes of its inputs, for inputs of any size:            *)
(*   - the routes: a registration never takes a request from the handler   *)
(*     that answers it, except an exact route from a wildcard;             *)
(*   - the address lists: a connection is accepted exactly when the lists  *)
(*     ask for it, whatever the width of an address;                       *)
(*   - the text messages of a WebSocket: an accepted message is well       *)
(*     formed UTF-8 and whole;                                             *)
(*   - the documents of a request: a handler is run on the document the    *)
(*     client sent, and answers in a form the client accepts;              *)
(*   - the descriptions of an McpService: what a client can list is sound  *)
(*     in all its nodes, but for the resources that are taken unseen.      *)
(***************************************************************************)
EXTENDS Router, AccessControl, TextMessages, RequestData, McpCatalog,
        WellFoundedInduction, FiniteSetTheorems, TLAPS

-----------------------------------------------------------------------------
(* The routes *)

Less == {ss \in Nat \X Nat : ss[1] < ss[2]}

LEMMA LessWellFounded == IsWellFoundedOn(Less, Nat)
BY NatLessThanWellFounded DEF OpToRel, Less

(* Where the loops find something, they find the first one. *)
LEMMA LeastNatural ==
    ASSUME NEW S, S \subseteq Nat, S # {}
    PROVE  \E m \in S : \A j \in S : m <= j
<1>1. PICK m \in S : \A y \in S : ~(<<y, m>> \in Less)
  BY LessWellFounded, WFMin
<1>2. ASSUME NEW y \in S PROVE m <= y
  <2>1. ~(<<y, m>> \in Less)
    BY <1>1
  <2>3. y \in Nat /\ m \in Nat
    OBVIOUS
  <2>2. ~(y < m)
    BY <2>1, <2>3 DEF Less
  <2> QED
    BY <2>2, <2>3
<1> QED
  BY <1>2

LEMMA FirstOfLeast ==
    ASSUME NEW S, S \subseteq Nat, S # {}
    PROVE  FirstOf(S) \in S /\ \A j \in S : FirstOf(S) <= j
BY LeastNatural DEF FirstOf

(* A later match changes nothing when there is one, and is the first if    *)
(* there was none.                                                         *)
LEMMA FirstOfGrows ==
    ASSUME NEW n \in Nat, NEW S, NEW T, S \subseteq 1..n, S \subseteq T, T \subseteq S \cup {n + 1}
    PROVE  /\ S # {} => FirstOf(T) = FirstOf(S)
           /\ S = {} => FirstOf(T) = IF T = {} THEN 0 ELSE n + 1
<1>1. S \subseteq Nat /\ T \subseteq Nat
  OBVIOUS
<1>2. CASE S # {}
  <2>1. /\ FirstOf(S) \in S /\ \A j \in S : FirstOf(S) <= j
        /\ FirstOf(T) \in T /\ \A j \in T : FirstOf(T) <= j
    BY <1>1, <1>2, FirstOfLeast
  <2> DEFINE a == FirstOf(S)
             b == FirstOf(T)
  <2>2. /\ a \in S /\ a \in T /\ b \in T
        /\ \A j \in S : a <= j
        /\ \A j \in T : b <= j
    BY <2>1
  <2> HIDE DEF a, b
  <2>3. a \in 1..n /\ b \in Nat /\ b <= a
    BY <1>1, <2>2
  <2>4. b # n + 1
    BY <2>3
  <2>5. b \in S
    BY <2>2, <2>4
  <2>6. a <= b
    BY <2>2, <2>5
  <2>7. a = b
    BY <2>3, <2>6
  <2> QED
    BY <1>2, <2>7 DEF a, b
<1>3. CASE S = {} /\ T # {}
  BY <1>1, <1>3, FirstOfLeast
<1>4. CASE S = {} /\ T = {}
  BY <1>4 DEF FirstOf
<1> QED
  BY <1>2, <1>3, <1>4

-----------------------------------------------------------------------------
Route == [method : Verbs, path : RoutePaths]
RoutesTyped == routes \in Seq(Route) /\ ws_routes \in Seq(RoutePaths)

(* A route that is appended can only add itself to the matches. *)
LEMMA MatchesGrow ==
    ASSUME NEW rs \in Seq(Route), NEW r \in Route, NEW method, NEW path
    PROVE  LET new == Append(rs, r)
               n == Len(rs)
           IN  /\ Exact(rs, method, path) \subseteq 1..n
               /\ Exact(rs, method, path) \subseteq Exact(new, method, path)
               /\ Exact(new, method, path) \subseteq Exact(rs, method, path) \cup {n + 1}
               /\ Wildcard(rs, method, path) \subseteq 1..n
               /\ Wildcard(rs, method, path) \subseteq Wildcard(new, method, path)
               /\ Wildcard(new, method, path) \subseteq Wildcard(rs, method, path) \cup {n + 1}
<1> DEFINE new == Append(rs, r)
           n == Len(rs)
<1>1. /\ n \in Nat /\ DOMAIN rs = 1..n /\ DOMAIN new = 1..(n + 1)
      /\ \A i \in 1..n : new[i] = rs[i]
  OBVIOUS
<1> HIDE DEF new, n
<1>2. /\ Exact(rs, method, path) \subseteq 1..n
      /\ Exact(rs, method, path) \subseteq Exact(new, method, path)
      /\ Exact(new, method, path) \subseteq Exact(rs, method, path) \cup {n + 1}
  BY <1>1 DEF Exact
<1>3. /\ Wildcard(rs, method, path) \subseteq 1..n
      /\ Wildcard(rs, method, path) \subseteq Wildcard(new, method, path)
      /\ Wildcard(new, method, path) \subseteq Wildcard(rs, method, path) \cup {n + 1}
  BY <1>1 DEF Wildcard
<1> QED
  BY <1>2, <1>3 DEF new, n

(* The answers to one request before and after a registration *)
LEMMA HttpRegistration ==
    ASSUME RoutesTyped, NEW r \in Route, routes' = Append(routes, r),
           NEW method, NEW target
    PROVE  HttpAnswerKept(method, target)
<1> DEFINE path == PathOnly(target)
           n == Len(routes)
           E == Exact(routes, method, path)
           F == Exact(routes', method, path)
           W == Wildcard(routes, method, path)
           X == Wildcard(routes', method, path)
           old == findHandler(routes, method, target)
           new == findHandler(routes', method, target)
<1>1. /\ n \in Nat
      /\ E \subseteq 1..n /\ E \subseteq F /\ F \subseteq E \cup {n + 1}
      /\ W \subseteq 1..n /\ W \subseteq X /\ X \subseteq W \cup {n + 1}
  BY MatchesGrow DEF RoutesTyped
<1>2. /\ DOMAIN routes = 1..n /\ Len(routes') = n + 1
      /\ n + 1 \notin 1..n
  BY DEF RoutesTyped
<1>3. /\ old = IF E # {} THEN FirstOf(E) ELSE FirstOf(W)
      /\ new = IF F # {} THEN FirstOf(F) ELSE FirstOf(X)
  BY DEF findHandler
<1>4. /\ \A i \in E : routes[i].method = method /\ routes[i].path = path
      /\ \A i \in 1..n : routes[i].method = method /\ routes[i].path = path => i \in E
      /\ \A i \in F : routes'[i].path = path
  BY <1>2 DEF Exact
<1>5. \A i \in W : routes[i].method = method /\ IsWildcard(routes[i].path)
  <2> SUFFICES ASSUME NEW i \in W
               PROVE  routes[i].method = method /\ IsWildcard(routes[i].path)
    OBVIOUS
  <2>1. /\ routes[i].method = method
        /\ Len(routes[i].path) > 0
        /\ routes[i].path[Len(routes[i].path)] = Star
    BY DEF Wildcard
  <2>2. routes[i].path # <<>>
    BY <2>1
  <2> QED
    BY <2>1, <2>2 DEF IsWildcard
<1> HIDE DEF path, n, E, F, W, X, old, new
<1>6. CASE E # {}
  <2>1. F # {} /\ FirstOf(F) = FirstOf(E)
    BY <1>1, <1>6, FirstOfGrows
  <2>2. new = old
    BY <1>3, <1>6, <2>1
  <2> QED
    BY <2>2 DEF HttpAnswerKept, old, new
<1>7. CASE E = {} /\ F = {}
  <2>1. CASE W # {}
    <3>1. new = old
      BY <1>1, <1>3, <1>7, <2>1, FirstOfGrows
    <3> QED
      BY <3>1 DEF HttpAnswerKept, old, new
  <2>2. CASE W = {}
    <3>1. old = 0
      BY <1>3, <1>7, <2>2 DEF FirstOf
    <3>2. new = 0 \/ new = n + 1
      BY <1>1, <1>3, <1>7, <2>2, FirstOfGrows
    <3> QED
      BY <1>2, <3>1, <3>2 DEF HttpAnswerKept, old, new, n
  <2> QED
    BY <2>1, <2>2
<1>8. CASE E = {} /\ F # {}
  <2>1. new = n + 1 /\ n + 1 \in F
    BY <1>1, <1>3, <1>8, FirstOfGrows
  <2>2. routes'[new].path = path
    BY <1>4, <2>1
  <2>3. CASE W = {}
    <3>1. old = 0
      BY <1>3, <1>8, <2>3 DEF FirstOf
    <3> QED
      BY <1>2, <2>1, <3>1 DEF HttpAnswerKept, old, new, n
  <2>4. CASE W # {}
    <3>1. old = FirstOf(W) /\ W \subseteq Nat
      BY <1>1, <1>3, <1>8
    <3>2. old \in W
      BY <2>4, <3>1, FirstOfLeast
    <3>3. routes[old].path # path
      BY <1>1, <1>4, <1>5, <1>8, <3>2
    <3>4. old \in 1..n /\ IsWildcard(routes[old].path)
      BY <1>1, <1>5, <3>2
    <3> QED
      BY <1>2, <2>1, <2>2, <3>3, <3>4 DEF HttpAnswerKept, old, new, n, path
  <2> QED
    BY <2>3, <2>4
<1> QED
  BY <1>6, <1>7, <1>8

LEMMA WsRegistration ==
    ASSUME RoutesTyped, NEW p \in RoutePaths, ws_routes' = Append(ws_routes, p), NEW path
    PROVE  WsAnswerKept(path)
<1> DEFINE n == Len(ws_routes)
           S == {i \in DOMAIN ws_routes : ws_routes[i] = path}
           T == {i \in DOMAIN ws_routes' : ws_routes'[i] = path}
<1>1. /\ n \in Nat /\ Len(ws_routes') = n + 1
      /\ S \subseteq 1..n /\ S \subseteq T /\ T \subseteq S \cup {n + 1}
  BY DEF RoutesTyped
<1>2. findWsHandler(ws_routes, path) = FirstOf(S) /\ findWsHandler(ws_routes', path) = FirstOf(T)
  BY DEF findWsHandler
<1> HIDE DEF n, S, T
<1>3. CASE S # {}
  BY <1>1, <1>2, <1>3, FirstOfGrows DEF WsAnswerKept
<1>4. CASE S = {}
  <2>1. FirstOf(S) = 0
    BY <1>4 DEF FirstOf
  <2>2. FirstOf(T) = 0 \/ FirstOf(T) = n + 1
    BY <1>1, <1>4, FirstOfGrows
  <2> QED
    BY <1>1, <1>2, <2>1, <2>2 DEF WsAnswerKept
<1> QED
  BY <1>3, <1>4

-----------------------------------------------------------------------------
LEMMA TypedInit == RouterInit => RoutesTyped
BY DEF RouterInit, RoutesTyped

LEMMA TypedNext == RoutesTyped /\ [RouterNext]_routerVars => RoutesTyped'
<1> SUFFICES ASSUME RoutesTyped, [RouterNext]_routerVars PROVE RoutesTyped'
  OBVIOUS
<1>1. ASSUME NEW method \in Verbs, NEW path \in RoutePaths, registerHttpHandle(method, path)
      PROVE  RoutesTyped'
  BY <1>1 DEF RoutesTyped, registerHttpHandle, Route
<1>2. ASSUME NEW path \in RoutePaths, registerWsHandle(path) PROVE RoutesTyped'
  BY <1>2 DEF RoutesTyped, registerWsHandle
<1>3. CASE UNCHANGED routerVars
  BY <1>3 DEF RoutesTyped, routerVars
<1> QED
  BY <1>1, <1>2, <1>3 DEF RouterNext

LEMMA RegistrationKeepsAnswers ==
    RoutesTyped /\ [RouterNext]_routerVars
        => [/\ \A method \in Verbs, target \in Targets : HttpAnswerKept(method, target)
            /\ \A target \in Targets : WsAnswerKept(PathOnly(target))]_routerVars
<1> DEFINE AllKept == /\ \A method \in Verbs, target \in Targets : HttpAnswerKept(method, target)
                   /\ \A target \in Targets : WsAnswerKept(PathOnly(target))
<1> SUFFICES ASSUME RoutesTyped, RouterNext PROVE AllKept
  OBVIOUS
<1>1. ASSUME NEW m \in Verbs, NEW path \in RoutePaths, registerHttpHandle(m, path)
      PROVE  AllKept
  <2>1. ASSUME NEW method \in Verbs, NEW target \in Targets
        PROVE  HttpAnswerKept(method, target)
    <3>1. [method |-> m, path |-> path] \in Route
      BY DEF Route
    <3> QED
      BY <1>1, <3>1, HttpRegistration DEF registerHttpHandle
  <2>2. ASSUME NEW target \in Targets PROVE WsAnswerKept(PathOnly(target))
    BY <1>1 DEF registerHttpHandle, WsAnswerKept
  <2> QED
    BY <2>1, <2>2
<1>2. ASSUME NEW path \in RoutePaths, registerWsHandle(path)
      PROVE  AllKept
  <2>1. ASSUME NEW target \in Targets PROVE WsAnswerKept(PathOnly(target))
    BY <1>2, WsRegistration DEF registerWsHandle
  <2>2. ASSUME NEW method \in Verbs, NEW target \in Targets
        PROVE  HttpAnswerKept(method, target)
    BY <1>2 DEF registerWsHandle, HttpAnswerKept
  <2> QED
    BY <2>1, <2>2
<1> QED
  BY <1>1, <1>2 DEF RouterNext

(* Whatever routes an application registers, in whatever order, a request  *)
(* keeps the handler that answers it, unless an exact route takes it from  *)
(* a wildcard.                                                             *)
THEOREM RegistrationsKeepAnswers == RouterSpec => AnswersKept
<1>1. RouterSpec => []RoutesTyped
  BY TypedInit, TypedNext, PTL DEF RouterSpec
<1> QED
  BY <1>1, RegistrationKeepsAnswers, PTL DEF RouterSpec, AnswersKept

-----------------------------------------------------------------------------
(* The address lists *)

(* Shifting the full mask leaves the bits of the prefix. *)
LEMMA MasksOfPrefixes ==
    ASSUME NEW p \in 1..Width
    PROVE  Masks(p) = {Leading(p)} /\ Leading(p) # {} /\ Leading(p) \in Values
<1>0. Width \in Nat /\ p \in Nat /\ p >= 1 /\ p <= Width
  BY AccessAssumption
<1>1. Leading(p) # {} /\ Leading(p) \in Values
  <2>1. Width - 1 \in Leading(p)
    BY <1>0 DEF Leading
  <2>2. Leading(p) \subseteq Bits
    BY <1>0 DEF Leading, Bits
  <2> QED
    BY <2>1, <2>2 DEF Values
<1>2. CASE p = Width
  <2>1. Leading(p) = Bits
    BY <1>0, <1>2 DEF Leading, Bits
  <2> QED
    BY <1>1, <1>2, <2>1 DEF Masks, AllOnes
<1>3. CASE p # Width
  <2> DEFINE k == Width - p
             shifted == {b + k : b \in Bits} \cap Bits
  <2>1. k \in Nat /\ k < Width
    BY <1>0
  <2>2. shifted = k..(Width - 1)
    <3>1. ASSUME NEW i \in shifted PROVE i \in k..(Width - 1)
      BY <1>0, <2>1 DEF Bits
    <3>2. ASSUME NEW i \in k..(Width - 1) PROVE i \in shifted
      <4>1. i - k \in Bits /\ i = (i - k) + k /\ i \in Bits
        BY <1>0, <2>1 DEF Bits
      <4> QED
        BY <4>1
    <3> QED
      BY <3>1, <3>2
  <2>3. Masks(p) = {shifted}
    BY <1>3, <2>1 DEF Masks, ShiftedMask, AllOnes
  <2> QED
    BY <1>1, <2>2, <2>3 DEF Leading
<1> QED
  BY <1>2, <1>3

(* Masking compares the leading bits. *)
LEMMA MaskingCompares ==
    ASSUME NEW a, NEW b, NEW p
    PROVE  /\ isIpInNetwork(a, b \cap Leading(p), Leading(p)) <=> SamePrefix(a, b, p)
           /\ b \subseteq Leading(p) =>
                 (isIpInNetwork(a, b, Leading(p)) <=> SamePrefix(a, b, p))
BY DEF isIpInNetwork, SamePrefix

(* What an entry says of a client, in terms of the bits they share *)
InSubnet(subnet, ip) ==
    /\ ip \notin Texts \cup {{}}
    /\ \E p \in PrefixLengths(subnet) : SamePrefix(ip, NetworkOf(subnet), p)

LEMMA CidrDecides ==
    ASSUME NEW subnet, Meaningful(subnet), subnet.cidr # NoConfig, NEW ip
    PROVE  isIpInSubnet(subnet, ip) = {InSubnet(subnet, ip)}
<1> DEFINE c == subnet.cidr
           p == c.prefix
           in == isIpInNetwork(ip, c.network \cap Leading(p), Leading(p))
<1>1. c.network \notin Texts \cup {{}} /\ p \in 1..Width /\ PrefixLengths(subnet) = {p}
  BY DEF Meaningful, NetworkOf, PrefixLengths
<1>2. /\ ipToUint32(c.network) # {} /\ p \in 0..Width
      /\ Masks(p) = {Leading(p)}
  BY <1>1, MasksOfPrefixes, AccessAssumption DEF ipToUint32
<1>3. parseCidr(c) = {[network |-> c.network \cap Leading(p), mask |-> Leading(p)]}
  BY <1>2 DEF parseCidr
<1>4. isIpInSubnet(subnet, ip) = isIpInCidr(ip, c)
  BY DEF isIpInSubnet
<1>5. CASE ip \in Texts \cup {{}}
  <2>1. ipToUint32(ip) = {}
    BY <1>5 DEF ipToUint32
  <2>2. isIpInCidr(ip, c) = {FALSE}
    BY <2>1, Zenon DEF isIpInCidr
  <2>3. InSubnet(subnet, ip) = FALSE
    BY <1>5, Zenon DEF InSubnet
  <2> QED
    BY <1>4, <2>2, <2>3, Zenon
<1>6. CASE ip \notin Texts \cup {{}}
  <2>1. ipToUint32(ip) # {} /\ parseCidr(c) # {}
    BY <1>3, <1>6 DEF ipToUint32
  <2>2. isIpInCidr(ip, c) = {isIpInNetwork(ip, n.network, n.mask) : n \in parseCidr(c)}
    BY <2>1, Zenon DEF isIpInCidr
  <2>3. isIpInCidr(ip, c) = {in}
    <3> DEFINE n0 == [network |-> c.network \cap Leading(p), mask |-> Leading(p)]
    <3>1. n0.network = c.network \cap Leading(p) /\ n0.mask = Leading(p)
      OBVIOUS
    <3> HIDE DEF n0
    <3>2. {isIpInNetwork(ip, n.network, n.mask) : n \in {n0}}
             = {isIpInNetwork(ip, n0.network, n0.mask)}
      BY Zenon
    <3> QED
      BY <1>3, <2>2, <3>1, <3>2, Zenon DEF n0
  <2>4. in <=> SamePrefix(ip, c.network, p)
    BY MaskingCompares, Zenon
  <2>5. InSubnet(subnet, ip) <=> SamePrefix(ip, c.network, p)
    BY <1>1, <1>6, Zenon DEF InSubnet, NetworkOf
  <2>6. in = InSubnet(subnet, ip)
    BY <2>4, <2>5, Zenon DEF isIpInNetwork, InSubnet
  <2> QED
    BY <1>4, <2>3, <2>6, Zenon
<1> QED
  BY <1>5, <1>6

LEMMA DottedDecides ==
    ASSUME NEW subnet, Meaningful(subnet), ~(subnet.cidr # NoConfig), NEW ip
    PROVE  isIpInSubnet(subnet, ip) = {InSubnet(subnet, ip)}
<1> DEFINE values == {ipToUint32(ip), ipToUint32(subnet.network), ipToUint32(subnet.mask)}
           answer == {} \notin values /\ isIpInNetwork(ip, subnet.network, subnet.mask)
<1>1. PICK p \in 1..Width : subnet.mask = Leading(p) /\ subnet.network \subseteq Leading(p)
  BY DEF Meaningful, PrefixLengths
<1>2. subnet.network \notin Texts \cup {{}}
  BY DEF Meaningful, NetworkOf
<1>3. Leading(p) # {} /\ Leading(p) \notin Texts
  BY MasksOfPrefixes, TextsAssumption
<1>4. {} \notin values <=> ip \notin Texts \cup {{}}
  BY <1>1, <1>2, <1>3 DEF ipToUint32
<1>5. \A q \in PrefixLengths(subnet) : Leading(q) = Leading(p)
  BY <1>1 DEF PrefixLengths
<1>6. p \in PrefixLengths(subnet)
  BY <1>1 DEF PrefixLengths
<1>7. (\E q \in PrefixLengths(subnet) : SamePrefix(ip, subnet.network, q))
         <=> SamePrefix(ip, subnet.network, p)
  BY <1>5, <1>6, Zenon DEF SamePrefix
<1>8. isIpInNetwork(ip, subnet.network, subnet.mask) <=> SamePrefix(ip, subnet.network, p)
  BY <1>1, MaskingCompares
<1>9. InSubnet(subnet, ip) <=>
         ip \notin Texts \cup {{}} /\ SamePrefix(ip, subnet.network, p)
  BY <1>7, Zenon DEF InSubnet, NetworkOf
<1>10. answer = InSubnet(subnet, ip)
  BY <1>4, <1>8, <1>9, Zenon DEF InSubnet
<1>11. isIpInSubnet(subnet, ip) = {answer}
  BY Zenon DEF isIpInSubnet
<1> QED
  BY <1>10, <1>11, Zenon

(* An allow list lets listed clients in, a deny list the others. *)
LEMMA StrictModeDecides ==
    ASSUME NEW listed \in BOOLEAN, NEW strict \in BOOLEAN
    PROVE  {IF in THEN strict ELSE ~strict : in \in {listed}} = {listed = strict}
<1>1. CASE listed = TRUE
  <2>1. (IF listed THEN strict ELSE ~strict) = (listed = strict)
    BY <1>1, Zenon
  <2> QED
    BY <2>1, Zenon
<1>2. CASE listed = FALSE
  <2>1. (IF listed THEN strict ELSE ~strict) = (listed = strict)
    BY <1>2, Zenon
  <2> QED
    BY <2>1, Zenon
<1> QED
  BY <1>1, <1>2, Zenon

AccessTyped == {m_access_control.enabled, m_access_control.strict_mode} \subseteq BOOLEAN

LEMMA ListDecides ==
    ASSUME AccessTyped
    PROVE  ListsDecide
<1> DEFINE c == m_access_control
<1> SUFFICES ASSUME c.enabled, \A s \in c.allowed_subnets : Meaningful(s), NEW ip \in Addresses
             PROVE  isIpAllowed(ip) = {Listed(ip) = c.strict_mode}
  BY Zenon DEF ListsDecide
<1>0. c.strict_mode \in BOOLEAN
  BY DEF AccessTyped
<1> DEFINE in(s) == InSubnet(s, ip)
           subnets == \E s \in c.allowed_subnets : in(s)
<1>1. \A s \in c.allowed_subnets : in(s) \in BOOLEAN /\ isIpInSubnet(s, ip) = {in(s)}
  <2> TAKE s \in c.allowed_subnets
  <2>1. in(s) \in BOOLEAN
    BY Zenon DEF InSubnet
  <2>2. CASE s.cidr # NoConfig
    BY <2>1, <2>2, CidrDecides, Zenon
  <2>3. CASE ~(s.cidr # NoConfig)
    BY <2>1, <2>3, DottedDecides, Zenon
  <2> QED
    BY <2>2, <2>3, Zenon
<1> DEFINE inSubnets == {\E s \in c.allowed_subnets : f[s] :
                            f \in {g \in [c.allowed_subnets -> BOOLEAN] :
                                      \A s \in c.allowed_subnets : g[s] \in isIpInSubnet(s, ip)}}
<1>2. inSubnets = {subnets}
  <2> DEFINE S == c.allowed_subnets
             F == {g \in [S -> BOOLEAN] : \A s \in S : g[s] \in isIpInSubnet(s, ip)}
             h == [s \in S |-> in(s)]
  <2>1. h \in F
    <3>1. h \in [S -> BOOLEAN]
      BY <1>1, Zenon
    <3>2. \A s \in S : h[s] \in isIpInSubnet(s, ip)
      BY <1>1, Zenon
    <3> QED
      BY <3>1, <3>2, Zenon
  <2>2. \A f \in F : \A s \in S : f[s] = in(s)
    BY <1>1, Zenon
  <2> HIDE DEF F, h
  <2>3. \A f \in F : (\E s \in S : f[s]) <=> subnets
    BY <2>2, Zenon
  <2>4. \A f \in F : (\E s \in S : f[s]) = subnets
    BY <2>3, Zenon
  <2>5. {\E s \in S : f[s] : f \in F} = {subnets}
    BY <2>1, <2>4, Zenon
  <2> QED
    BY <2>5, Zenon DEF F
<1>3. Listed(ip) <=> ip \in c.allowed_ips \/ subnets
  <2>1. \A s : \A p \in PrefixLengths(s) : p \in 1..Width
    BY Zenon DEF PrefixLengths
  <2> QED
    BY <2>1, Zenon DEF Listed, InSubnet
<1>4. isIpAllowed(ip) =
         IF ip \in c.allowed_ips THEN {c.strict_mode}
         ELSE {IF b THEN c.strict_mode ELSE ~c.strict_mode : b \in inSubnets}
  BY Zenon DEF isIpAllowed
<1>5. subnets \in BOOLEAN
  BY Zenon
<1> HIDE DEF inSubnets, subnets, in
<1>6. CASE ip \in c.allowed_ips
  <2>1. Listed(ip) = TRUE
    BY <1>3, <1>6, Zenon DEF Listed
  <2>2. (TRUE = c.strict_mode) = c.strict_mode
    BY <1>0, Zenon
  <2> QED
    BY <1>4, <1>6, <2>1, <2>2, Zenon
<1>7. CASE ip \notin c.allowed_ips
  <2>1. Listed(ip) = subnets
    BY <1>3, <1>5, <1>7, Zenon DEF Listed
  <2>2. isIpAllowed(ip) = {IF b THEN c.strict_mode ELSE ~c.strict_mode : b \in {subnets}}
    BY <1>2, <1>4, <1>7, Zenon
  <2>3. isIpAllowed(ip) = {subnets = c.strict_mode}
    BY <1>0, <1>5, <2>2, StrictModeDecides, Zenon
  <2> QED
    BY <2>1, <2>3, Zenon
<1> QED
  BY <1>6, <1>7

LEMMA StepAccess == AccessTyped /\ [AccessNext]_m_access_control => AccessTyped'
<1> SUFFICES ASSUME AccessTyped, [AccessNext]_m_access_control PROVE AccessTyped'
  OBVIOUS
<1>1. CASE UNCHANGED m_access_control
  BY <1>1, Zenon DEF AccessTyped
<1>2. CASE allowAllIPs
  BY <1>2 DEF allowAllIPs, setAccessControl, AccessTyped
<1>3. ASSUME NEW cidrs, allowSubnets(cidrs) \/ denySubnets(cidrs)
      PROVE  AccessTyped'
  <2>1. /\ m_access_control'.enabled = TRUE
        /\ m_access_control'.strict_mode = TRUE \/ m_access_control'.strict_mode = FALSE
    BY <1>3 DEF allowSubnets, denySubnets, setAccessControl
  <2> QED
    BY <2>1, Zenon DEF AccessTyped
<1>4. ASSUME NEW ips, allowIPs(ips) \/ denyIPs(ips)
      PROVE  AccessTyped'
  <2>1. /\ m_access_control'.enabled = TRUE
        /\ m_access_control'.strict_mode = TRUE \/ m_access_control'.strict_mode = FALSE
    BY <1>4 DEF allowIPs, denyIPs, setAccessControl
  <2> QED
    BY <2>1, Zenon DEF AccessTyped
<1>5. ASSUME NEW config \in Configs, setAccessControl(config)
      PROVE  AccessTyped'
  BY <1>5, ConfigsAssumption, Zenon DEF setAccessControl, AccessTyped
<1> QED
  BY <1>1, <1>2, <1>3, <1>4, <1>5, Zenon DEF AccessNext

(* However the lists are set, with entries in either notation that mean    *)
(* something, an allow list admits the clients listed or in a listed       *)
(* subnet and a deny list the others: for addresses of any width.          *)
THEOREM ListsDecideClients == AccessSpec => []ListsDecide
<1>1. AccessInit => AccessTyped
  BY DEF AccessInit, AccessTyped
<1>2. AccessTyped => ListsDecide
  BY ListDecides
<1> QED
  BY <1>1, <1>2, StepAccess, PTL DEF AccessSpec

-----------------------------------------------------------------------------
(* Induction over the naturals, as sets *)
LEMMA SetInduction ==
    ASSUME NEW S, 0 \in S, \A n \in Nat : n \in S => n + 1 \in S
    PROVE  \A n \in Nat : n \in S
<1> DEFINE T == {n \in Nat : n \notin S}
<1> SUFFICES ASSUME T # {} PROVE FALSE
  OBVIOUS
<1>1. PICK b \in T : \A j \in T : b <= j
  BY LeastNatural
<1>2. b \in Nat /\ b # 0 /\ b - 1 \in Nat
  OBVIOUS
<1>3. b - 1 \in T
  <2>1. b - 1 \notin S
    <3>1. (b - 1) + 1 = b
      BY <1>2
    <3> QED
      BY <1>2, <3>1
  <2> QED
    BY <1>2, <2>1
<1> QED
  BY <1>1, <1>2, <1>3

-----------------------------------------------------------------------------
(* Text messages *)

Byte == 0..255
Messages == Seq(Byte)

LEMMA BytesOf ==
    ASSUME NEW m \in Messages
    PROVE  Len(m) \in Nat /\ DOMAIN m = 1..Len(m) /\ \A i \in 1..Len(m) : m[i] \in Byte
BY DEF Messages

LEMMA LengthOf ==
    \A c \in Byte :
        /\ SeqLen(c) \in 0..4
        /\ SeqLen(c) = 1 <=> c \in 0..127
        /\ SeqLen(c) = 2 <=> c \in 192..223
        /\ SeqLen(c) = 3 <=> c \in 224..239
        /\ SeqLen(c) = 4 <=> c \in 240..247
        /\ IsContinuation(c) <=> c \in Cont
<1> TAKE c \in Byte
<1>1. c \in 0..255
  BY DEF Byte
<1>2. /\ SeqLen(c) = IF c < 128 THEN 1 ELSE IF c \in 192..223 THEN 2
                      ELSE IF c \in 224..239 THEN 3 ELSE IF c \in 240..247 THEN 4 ELSE 0
      /\ IsContinuation(c) <=> c \in Cont
  BY <1>1 DEF SeqLen, IsContinuation, Cont
<1> QED
  BY <1>1, <1>2

(* The value of a sequence of four bytes is in range just if its first     *)
(* bytes are. *)
Value(a, b, c, d) == (a % 8) * 262144 + (b % 64) * 4096 + (c % 64) * 64 + (d % 64)

LEMMA CodepointOf ==
    \A m, i : Codepoint4(m, i) = Value(m[i], m[i + 1], m[i + 2], m[i + 3])
BY SMT DEF Codepoint4, Value

LEMMA ValuesInRange ==
    ASSUME NEW a \in 240..247, NEW b \in Cont, NEW c \in Cont, NEW d \in Cont
    PROVE  /\ InRange(Value(a, b, c, d)) =>
                 /\ a \in 240..244
                 /\ a = 244 => b <= 143
                 /\ a = 240 /\ b = 141 => c <= 159
           /\ a <= 244 /\ (a = 240 => b >= 144) /\ (a = 244 => b <= 143)
                 => InRange(Value(a, b, c, d))
BY SMT DEF InRange, Value, Cont

(* What the loop says of the rest of a message from a position on, given   *)
(* what it says further on *)
Verdict(m, f, i) == i <= Len(m) => ValidSequence(m, i) /\ f[i + SeqLen(m[i])]
Positions(m) == 1..(Len(m) + 4)
Verdicts(m) == CHOOSE f : f = [i \in Positions(m) |-> Verdict(m, f, i)]

LEMMA ValidTextIsFirstVerdict ==
    ASSUME NEW m
    PROVE  ValidText(m) = Verdicts(m)[1]
BY DEF ValidText, Verdicts, Verdict, Positions

(* The loop only looks ahead. *)
LEMMA LooksAhead ==
    ASSUME NEW m \in Messages, NEW i \in 1..Len(m), ValidSequence(m, i)
    PROVE  /\ SeqLen(m[i]) \in 1..4
           /\ i + SeqLen(m[i]) \in Positions(m)
           /\ i + SeqLen(m[i]) <= Len(m) + 1
           /\ i < i + SeqLen(m[i])
<1>1. m[i] \in Byte /\ Len(m) \in Nat
  BY BytesOf
<1>2. SeqLen(m[i]) \in 0..4 /\ SeqLen(m[i]) > 0 /\ i + SeqLen(m[i]) <= Len(m) + 1
  BY <1>1, LengthOf DEF ValidSequence
<1> QED
  BY <1>1, <1>2 DEF Positions

LEMMA VerdictsExist ==
    ASSUME NEW m \in Messages
    PROVE  \E f \in [Positions(m) -> BOOLEAN] : f = [i \in Positions(m) |-> Verdict(m, f, i)]
<1> DEFINE L == Len(m)
           D == Positions(m)
           From(n) == \E f \in [D -> BOOLEAN] :
                         \A i \in D : i > L - n => (f[i] <=> Verdict(m, f, i))
           S == {n \in Nat : From(n)}
<1>0. L \in Nat /\ D = 1..(L + 4)
  BY DEF Messages, Positions
<1>1. 0 \in S
  <2> DEFINE f == [i \in D |-> TRUE]
  <2>1. f \in [D -> BOOLEAN] /\ \A i \in D : f[i]
    BY Zenon
  <2>2. \A i \in D : i > L - 0 => ~(i <= Len(m))
    BY <1>0
  <2> HIDE DEF f, D
  <2>3. \A i \in D : i > L - 0 => (f[i] <=> Verdict(m, f, i))
    BY <2>1, <2>2, Zenon DEF Verdict
  <2>4. From(0)
    BY <2>1, <2>3, Zenon
  <2> QED
    BY <2>4, Zenon
<1>2. ASSUME NEW n \in Nat, n \in S PROVE n + 1 \in S
  <2>1. PICK f \in [D -> BOOLEAN] : \A i \in D : i > L - n => (f[i] <=> Verdict(m, f, i))
    BY <1>2, Zenon
  <2> DEFINE k == L - n
             g == [i \in D |-> IF i = k THEN Verdict(m, f, k) ELSE f[i]]
  <2>2. g \in [D -> BOOLEAN]
    <3>1. Verdict(m, f, k) \in BOOLEAN
      BY Zenon DEF Verdict
    <3>2. \A i \in D : f[i] \in BOOLEAN
      BY Zenon
    <3> QED
      BY <3>1, <3>2, Zenon
  <2>3. ASSUME NEW i \in D, i > L - (n + 1)
        PROVE  g[i] <=> Verdict(m, g, i)
    <3>1. i \in Nat /\ i >= k
      BY <1>0, <2>3
    <3>2. g[i] <=> Verdict(m, f, i)
      <4>1. CASE i = k
        <5>1. g[i] = Verdict(m, f, k)
          BY <4>1, Zenon
        <5> QED
          BY <4>1, <5>1, Zenon
      <4>2. CASE i # k
        <5>1. i > L - n
          BY <1>0, <3>1, <4>2
        <5>2. g[i] = f[i]
          BY <4>2, Zenon
        <5> QED
          BY <2>1, <5>1, <5>2, Zenon
      <4> QED
        BY <4>1, <4>2
    <3>3. ASSUME i <= Len(m), ValidSequence(m, i)
          PROVE  g[i + SeqLen(m[i])] = f[i + SeqLen(m[i])]
      <4>1. i \in 1..Len(m)
        BY <1>0, <3>1, <3>3
      <4>2. i + SeqLen(m[i]) \in D /\ i < i + SeqLen(m[i]) /\ SeqLen(m[i]) \in 1..4
        BY <3>3, <4>1, LooksAhead
      <4>3. i + SeqLen(m[i]) # k
        BY <1>0, <3>1, <4>2
      <4> QED
        BY <4>2, <4>3, Zenon
    <3>4. Verdict(m, g, i) <=> Verdict(m, f, i)
      BY <3>3, Zenon DEF Verdict
    <3> QED
      BY <3>2, <3>4, Zenon
  <2> HIDE DEF g, D
  <2>4. From(n + 1)
    BY <2>2, <2>3, Zenon
  <2>5. n + 1 \in Nat
    OBVIOUS
  <2> QED
    BY <2>4, <2>5, Zenon
<1>3. L \in S
  <2> HIDE DEF S
  <2> QED
    BY <1>0, <1>1, <1>2, SetInduction
<1>4. PICK f \in [D -> BOOLEAN] : \A i \in D : i > L - L => (f[i] <=> Verdict(m, f, i))
  BY <1>3, Zenon
<1>5. \A i \in D : i > L - L
  BY <1>0
<1>6. \A i \in D : f[i] = Verdict(m, f, i)
  <2> TAKE i \in D
  <2>1. f[i] \in BOOLEAN /\ (f[i] <=> Verdict(m, f, i))
    BY <1>4, <1>5, Zenon
  <2>2. CASE f[i] = TRUE
    <3>1. Verdict(m, f, i) = TRUE
      BY <2>1, <2>2, Zenon DEF Verdict
    <3> QED
      BY <2>2, <3>1, Zenon
  <2>3. CASE f[i] = FALSE
    <3>1. Verdict(m, f, i) = FALSE
      BY <2>1, <2>3, Zenon DEF Verdict
    <3> QED
      BY <2>3, <3>1, Zenon
  <2> QED
    BY <2>1, <2>2, <2>3, Zenon
<1> HIDE DEF D
<1>7. f = [i \in D |-> Verdict(m, f, i)]
  BY <1>6, Zenon
<1> QED
  BY <1>7, Zenon DEF D

LEMMA VerdictsUnfold ==
    ASSUME NEW m \in Messages
    PROVE  \A i \in Positions(m) : Verdicts(m)[i] <=> Verdict(m, Verdicts(m), i)
<1>1. Verdicts(m) = [i \in Positions(m) |-> Verdict(m, Verdicts(m), i)]
  BY VerdictsExist, Zenon DEF Verdicts
<1> DEFINE v == Verdicts(m)
<1> HIDE DEF v
<1>2. v = [i \in Positions(m) |-> Verdict(m, v, i)]
  BY <1>1, Zenon DEF v
<1>3. \A i \in Positions(m) : v[i] = Verdict(m, v, i)
  BY <1>2, Zenon
<1> QED
  BY <1>3, Zenon DEF v

-----------------------------------------------------------------------------
(* A row of a table fits the bytes from a position on, one by one. *)
Fits(m, s, row) == \A j \in DOMAIN row : m[s + j - 1] \in row[j]

LEMMA RowOfOne ==
    ASSUME NEW m, NEW s \in Nat, NEW A
    PROVE  Len(<<A>>) = 1 /\ (Fits(m, s, <<A>>) <=> m[s] \in A)
<1> DEFINE row == <<A>>
<1>1. DOMAIN row = {1} /\ row[1] = A /\ Len(row) = 1
  <2>1. 1..1 = {1}
    OBVIOUS
  <2> QED
    BY <2>1
<1> HIDE DEF row
<1>2. Fits(m, s, row) <=> m[s + 1 - 1] \in row[1]
  BY <1>1, Zenon DEF Fits
<1>3. s + 1 - 1 = s
  OBVIOUS
<1> QED
  BY <1>1, <1>2, <1>3 DEF row

LEMMA RowOfTwo ==
    ASSUME NEW m, NEW s \in Nat, NEW A, NEW B
    PROVE  /\ Len(<<A, B>>) = 2
           /\ Fits(m, s, <<A, B>>) <=> m[s] \in A /\ m[s + 1] \in B
<1> DEFINE row == <<A, B>>
<1>1. DOMAIN row = {1, 2} /\ row[1] = A /\ row[2] = B /\ Len(row) = 2
  <2>1. 1..2 = {1, 2}
    OBVIOUS
  <2> QED
    BY <2>1
<1> HIDE DEF row
<1>2. Fits(m, s, row) <=> m[s + 1 - 1] \in row[1] /\ m[s + 2 - 1] \in row[2]
  BY <1>1, Zenon DEF Fits
<1>3. s + 1 - 1 = s /\ s + 2 - 1 = s + 1
  OBVIOUS
<1> QED
  BY <1>1, <1>2, <1>3 DEF row

LEMMA RowOfThree ==
    ASSUME NEW m, NEW s \in Nat, NEW A, NEW B, NEW C
    PROVE  /\ Len(<<A, B, C>>) = 3
           /\ Fits(m, s, <<A, B, C>>) <=> m[s] \in A /\ m[s + 1] \in B /\ m[s + 2] \in C
<1> DEFINE row == <<A, B, C>>
<1>1. DOMAIN row = {1, 2, 3} /\ row[1] = A /\ row[2] = B /\ row[3] = C /\ Len(row) = 3
  <2>1. 1..3 = {1, 2, 3}
    OBVIOUS
  <2> QED
    BY <2>1
<1> HIDE DEF row
<1>2. Fits(m, s, row) <=> /\ m[s + 1 - 1] \in row[1] /\ m[s + 2 - 1] \in row[2]
                          /\ m[s + 3 - 1] \in row[3]
  BY <1>1, Zenon DEF Fits
<1>3. s + 1 - 1 = s /\ s + 2 - 1 = s + 1 /\ s + 3 - 1 = s + 2
  OBVIOUS
<1> QED
  BY <1>1, <1>2, <1>3 DEF row

LEMMA RowOfFour ==
    ASSUME NEW m, NEW s \in Nat, NEW A, NEW B, NEW C, NEW D
    PROVE  /\ Len(<<A, B, C, D>>) = 4
           /\ Fits(m, s, <<A, B, C, D>>) <=>
                 m[s] \in A /\ m[s + 1] \in B /\ m[s + 2] \in C /\ m[s + 3] \in D
<1> DEFINE row == <<A, B, C, D>>
<1>1. /\ DOMAIN row = {1, 2, 3, 4}
      /\ row[1] = A /\ row[2] = B /\ row[3] = C /\ row[4] = D /\ Len(row) = 4
  <2>1. 1..4 = {1, 2, 3, 4}
    OBVIOUS
  <2> QED
    BY <2>1
<1> HIDE DEF row
<1>2. Fits(m, s, row) <=> /\ m[s + 1 - 1] \in row[1] /\ m[s + 2 - 1] \in row[2]
                          /\ m[s + 3 - 1] \in row[3] /\ m[s + 4 - 1] \in row[4]
  BY <1>1, Zenon DEF Fits
<1>3. s + 1 - 1 = s /\ s + 2 - 1 = s + 1 /\ s + 3 - 1 = s + 2 /\ s + 4 - 1 = s + 3
  OBVIOUS
<1> QED
  BY <1>1, <1>2, <1>3 DEF row

LEMMA OneFitsARow ==
    ASSUME NEW table, NEW m, NEW s \in Nat, NEW last \in Nat, s <= last
    PROVE  IsOne(table, m, s, last) =>
              \E row \in table, n \in Nat : Len(row) = n /\ last = s + n - 1 /\ Fits(m, s, row)
<1> SUFFICES ASSUME IsOne(table, m, s, last)
             PROVE  \E row \in table, n \in Nat :
                       Len(row) = n /\ last = s + n - 1 /\ Fits(m, s, row)
  OBVIOUS
<1>1. PICK row \in table : Len(row) = last - s + 1 /\ Fits(m, s, row)
  BY Zenon DEF IsOne, Fits
<1>2. PICK n \in Nat : n = last - s + 1 /\ last = s + n - 1
  <2>1. last - s + 1 \in Nat /\ last = s + (last - s + 1) - 1
    OBVIOUS
  <2> QED
    BY <2>1, Zenon
<1> QED
  BY <1>1, <1>2, Zenon

LEMMA ARowIsOne ==
    ASSUME NEW table, NEW m, NEW s \in Nat, NEW n \in Nat, NEW row \in table,
           Len(row) = n, Fits(m, s, row)
    PROVE  IsOne(table, m, s, s + n - 1)
<1>1. (s + n - 1) - s + 1 = n
  OBVIOUS
<1> QED
  BY <1>1, Zenon DEF IsOne, Fits

(* The bytes of one character of UTF-8 *)
Starts3(a, b) == \/ a = 224 /\ b \in 160..191
                 \/ a \in (225..236) \cup (238..239) /\ b \in Cont
                 \/ a = 237 /\ b \in 128..159
Starts4(a, b) == \/ a = 240 /\ b \in 144..191
                 \/ a \in 241..243 /\ b \in Cont
                 \/ a = 244 /\ b \in 128..143

LEMMA Utf8Rows ==
    \A row \in Utf8 :
       \/ row = <<0..127>> \/ row = <<194..223, Cont>>
       \/ row = <<{224}, 160..191, Cont>>
       \/ row = <<(225..236) \cup (238..239), Cont, Cont>>
       \/ row = <<{237}, 128..159, Cont>>
       \/ row = <<{240}, 144..191, Cont, Cont>>
       \/ row = <<241..243, Cont, Cont, Cont>>
       \/ row = <<{244}, 128..143, Cont, Cont>>
BY SMT DEF Utf8

LEMMA Utf8Bytes ==
    ASSUME NEW m, NEW s \in Nat, NEW last \in Nat, s <= last, IsOne(Utf8, m, s, last)
    PROVE  \/ last = s /\ m[s] \in 0..127
           \/ last = s + 1 /\ m[s] \in 194..223 /\ m[s + 1] \in Cont
           \/ last = s + 2 /\ Starts3(m[s], m[s + 1]) /\ m[s + 2] \in Cont
           \/ last = s + 3 /\ Starts4(m[s], m[s + 1]) /\ m[s + 2] \in Cont /\ m[s + 3] \in Cont
<1>1. PICK row \in Utf8, n \in Nat : Len(row) = n /\ last = s + n - 1 /\ Fits(m, s, row)
  BY OneFitsARow, Zenon
<1>2. /\ n = 1 => last = s
      /\ n = 2 => last = s + 1
      /\ n = 3 => last = s + 2
      /\ n = 4 => last = s + 3
  <2>1. n \in Nat /\ last = s + n - 1
    BY <1>1
  <2> QED
    BY <2>1
<1>3. CASE row = <<0..127>>
  <2>1. Len(row) = 1 /\ m[s] \in 0..127
    BY <1>1, <1>3, RowOfOne
  <2> QED
    BY <1>1, <1>2, <2>1
<1>4. CASE row = <<194..223, Cont>>
  <2>1. Len(row) = 2 /\ m[s] \in 194..223 /\ m[s + 1] \in Cont
    BY <1>1, <1>4, RowOfTwo
  <2> QED
    BY <1>1, <1>2, <2>1
<1>7. /\ \A a \in {224}, b \in 160..191 : Starts3(a, b)
      /\ \A a \in (225..236) \cup (238..239), b \in Cont : Starts3(a, b)
      /\ \A a \in {237}, b \in 128..159 : Starts3(a, b)
      /\ \A a \in {240}, b \in 144..191 : Starts4(a, b)
      /\ \A a \in 241..243, b \in Cont : Starts4(a, b)
      /\ \A a \in {244}, b \in 128..143 : Starts4(a, b)
  BY DEF Starts3, Starts4
<1>8. CASE row = <<{224}, 160..191, Cont>>
  <2>1. /\ Len(row) = 3 /\ m[s] \in {224} /\ m[s + 1] \in 160..191
        /\ m[s + 2] \in Cont
    BY <1>1, <1>8, RowOfThree
  <2> QED
    BY <1>1, <1>2, <1>7, <2>1
<1>9. CASE row = <<(225..236) \cup (238..239), Cont, Cont>>
  <2>1. /\ Len(row) = 3 /\ m[s] \in (225..236) \cup (238..239) /\ m[s + 1] \in Cont
        /\ m[s + 2] \in Cont
    BY <1>1, <1>9, RowOfThree
  <2> QED
    BY <1>1, <1>2, <1>7, <2>1
<1>10. CASE row = <<{237}, 128..159, Cont>>
  <2>1. /\ Len(row) = 3 /\ m[s] \in {237} /\ m[s + 1] \in 128..159
        /\ m[s + 2] \in Cont
    BY <1>1, <1>10, RowOfThree
  <2> QED
    BY <1>1, <1>2, <1>7, <2>1
<1>11. CASE row = <<{240}, 144..191, Cont, Cont>>
  <2>1. /\ Len(row) = 4 /\ m[s] \in {240} /\ m[s + 1] \in 144..191
        /\ m[s + 2] \in Cont /\ m[s + 3] \in Cont
    BY <1>1, <1>11, RowOfFour
  <2> QED
    BY <1>1, <1>2, <1>7, <2>1
<1>12. CASE row = <<241..243, Cont, Cont, Cont>>
  <2>1. /\ Len(row) = 4 /\ m[s] \in 241..243 /\ m[s + 1] \in Cont
        /\ m[s + 2] \in Cont /\ m[s + 3] \in Cont
    BY <1>1, <1>12, RowOfFour
  <2> QED
    BY <1>1, <1>2, <1>7, <2>1
<1>13. CASE row = <<{244}, 128..143, Cont, Cont>>
  <2>1. /\ Len(row) = 4 /\ m[s] \in {244} /\ m[s + 1] \in 128..143
        /\ m[s + 2] \in Cont /\ m[s + 3] \in Cont
    BY <1>1, <1>13, RowOfFour
  <2> QED
    BY <1>1, <1>2, <1>7, <2>1
<1> QED
  BY <1>1, <1>3, <1>4, <1>8, <1>9, <1>10, <1>11, <1>12, <1>13, Utf8Rows

(* Every character of UTF-8 passes. *)
LEMMA Utf8Passes ==
    ASSUME NEW m \in Messages, NEW s \in 1..Len(m), NEW last \in s..Len(m),
           IsOne(Utf8, m, s, last)
    PROVE  ValidSequence(m, s) /\ s + SeqLen(m[s]) = last + 1
<1>1. Len(m) \in Nat /\ \A i \in 1..Len(m) : m[i] \in Byte
  BY BytesOf
<1>2. s \in Nat /\ last \in Nat /\ s <= last /\ last <= Len(m)
  BY <1>1
<1>3. m[s] \in Byte
  BY <1>1
<1>4. CASE last = s /\ m[s] \in 0..127
  <2>1. SeqLen(m[s]) = 1
    BY <1>3, <1>4, LengthOf
  <2> QED
    BY <1>2, <1>4, <2>1 DEF ValidSequence
<1>5. CASE last = s + 1 /\ m[s] \in 194..223 /\ m[s + 1] \in Cont
  <2>1. PICK a \in 194..223 : m[s] = a
    BY <1>5
  <2>2. a \in Byte /\ a \in 192..223 /\ a >= 194
    BY DEF Byte
  <2>3. SeqLen(a) = 2
    BY <2>2, LengthOf
  <2>4. s + 1 \in 1..Len(m)
    BY <1>1, <1>2, <1>5
  <2>5. IsContinuation(m[s + 1])
    BY <1>1, <1>5, <2>4, LengthOf
  <2> QED
    BY <1>2, <1>5, <2>1, <2>2, <2>3, <2>5 DEF ValidSequence
<1>6. CASE last = s + 2 /\ Starts3(m[s], m[s + 1]) /\ m[s + 2] \in Cont
  <2>1. s + 1 \in 1..Len(m) /\ s + 2 \in 1..Len(m)
    BY <1>1, <1>2, <1>6
  <2>2. PICK a \in Byte, b \in Byte : m[s] = a /\ m[s + 1] = b
    BY <1>1, <2>1
  <2>3. Starts3(a, b)
    BY <1>6, <2>2
  <2>4. a \in 224..239 /\ b \in Cont
    BY <2>3 DEF Starts3, Cont
  <2>5. SeqLen(a) = 3 /\ IsContinuation(b)
    BY <2>2, <2>4, LengthOf
  <2>6. IsContinuation(m[s + 2])
    BY <1>1, <1>6, <2>1, LengthOf
  <2> QED
    BY <1>2, <1>6, <2>2, <2>5, <2>6 DEF ValidSequence
<1>7. CASE /\ last = s + 3 /\ Starts4(m[s], m[s + 1])
           /\ m[s + 2] \in Cont /\ m[s + 3] \in Cont
  <2>1. s + 1 \in 1..Len(m) /\ s + 2 \in 1..Len(m) /\ s + 3 \in 1..Len(m)
    BY <1>1, <1>2, <1>7
  <2>2. PICK a \in Byte, b \in Byte, c \in Byte, d \in Byte :
           m[s] = a /\ m[s + 1] = b /\ m[s + 2] = c /\ m[s + 3] = d
    BY <1>1, <2>1
  <2>3. Starts4(a, b) /\ c \in Cont /\ d \in Cont
    BY <1>7, <2>2
  <2>4. /\ a \in 240..247 /\ b \in Cont /\ a <= 244
        /\ a = 240 => b >= 144
        /\ a = 244 => b <= 143
    BY <2>3 DEF Starts4, Cont
  <2>5. SeqLen(a) = 4 /\ IsContinuation(b) /\ IsContinuation(c) /\ IsContinuation(d)
    BY <2>2, <2>3, <2>4, LengthOf
  <2>6. InRange(Value(a, b, c, d))
    BY <2>3, <2>4, ValuesInRange
  <2>7. Codepoint4(m, s) = Value(a, b, c, d)
    BY <2>2, CodepointOf, Zenon
  <2>8. \A j \in 1..3 : IsContinuation(m[s + j])
    <3>1. \A j \in 1..3 : j = 1 \/ j = 2 \/ j = 3
      OBVIOUS
    <3> QED
      BY <2>2, <2>5, <3>1, Zenon
  <2>9. InRange(Codepoint4(m, s))
    BY <2>6, <2>7, Zenon
  <2>10. SeqLen(m[s]) = 4
    BY <2>2, <2>5, Zenon
  <2>11. s + 4 <= Len(m) + 1 /\ s + 4 = last + 1
    BY <1>1, <1>2, <1>7
  <2>12. 4 > 0 /\ 4 - 1 = 3 /\ 4 # 2
    OBVIOUS
  <2> QED
    BY <2>8, <2>9, <2>10, <2>11, <2>12, Zenon DEF ValidSequence
<1> QED
  BY <1>2, <1>4, <1>5, <1>6, <1>7, Utf8Bytes

Only(x) == {x}
Between(x, y) == x..y
Most == (225..236) \cup (238..239)
Every == Utf8 \cup Loose

(* And what passes is a character, a longer form or a surrogate. *)
LEMMA PassesLoosely ==
    ASSUME NEW m \in Messages, NEW s \in 1..Len(m), ValidSequence(m, s)
    PROVE  IsOne(Utf8 \cup Loose, m, s, s + SeqLen(m[s]) - 1)
<1> DEFINE n == SeqLen(m[s])
           One == IsOne(Utf8 \cup Loose, m, s, s + n - 1)
<1>1. Len(m) \in Nat /\ s \in Nat /\ m[s] \in Byte /\ \A i \in 1..Len(m) : m[i] \in Byte
  BY BytesOf
<1>2. n \in 1..4 /\ n \in Nat /\ s + n <= Len(m) + 1
  BY LooksAhead
<1>3. \A j \in 1..(n - 1) : m[s + j] \in Cont
  <2> TAKE j \in 1..(n - 1)
  <2>1. IsContinuation(m[s + j])
    BY DEF ValidSequence
  <2>2. s + j \in 1..Len(m)
    BY <1>1, <1>2
  <2> QED
    BY <1>1, <2>1, <2>2, LengthOf
<1>4. \A row \in Every : Len(row) = n /\ Fits(m, s, row) => One
  BY <1>1, <1>2, ARowIsOne, Zenon DEF Every
<1> SUFFICES One
  OBVIOUS
<1> HIDE DEF One
<1>5. CASE n = 1
  <2>1. m[s] \in 0..127
    BY <1>1, <1>5, LengthOf
  <2> DEFINE row == <<0..127>>
  <2>2. row \in Every
    BY SMT DEF Utf8, Loose, Every
  <2>3. Len(row) = 1 /\ (Fits(m, s, row) <=> m[s] \in 0..127)
    BY <1>1, RowOfOne
  <2> HIDE DEF row
  <2> QED
    <3>1. Len(row) = n /\ Fits(m, s, row)
      BY <1>5, <2>1, <2>3
    <3> QED
      BY <1>4, <2>2, <3>1, Zenon
<1>6. CASE n = 2
  <2>1. PICK a \in Byte : m[s] = a
    BY <1>1
  <2>2. a \in 192..223 /\ a >= 194
    BY <1>6, <2>1, LengthOf DEF ValidSequence
  <2>3. a \in 194..223
    BY <2>2
  <2>4. m[s + 1] \in Cont
    BY <1>3, <1>6
  <2> DEFINE row == <<194..223, Cont>>
  <2>5. row \in Every
    BY SMT DEF Utf8, Loose, Every
  <2>6. /\ Len(row) = 2
        /\ Fits(m, s, row) <=> m[s] \in 194..223 /\ m[s + 1] \in Cont
    BY <1>1, RowOfTwo
  <2> HIDE DEF row
  <2> QED
    <3>1. Len(row) = n /\ Fits(m, s, row)
      BY <1>6, <2>1, <2>3, <2>4, <2>6
    <3> QED
      BY <1>4, <2>5, <3>1, Zenon
<1>7. CASE n = 3
  <2>1. PICK a \in Byte : m[s] = a
    BY <1>1
  <2>2. PICK b \in Cont : m[s + 1] = b
    BY <1>3, <1>7
  <2>3. m[s + 2] \in Cont
    BY <1>3, <1>7
  <2>4. a \in 224..239
    BY <1>7, <2>1, LengthOf
  <2> DEFINE Three(A, B) == <<A, B, Cont>>
  <2>5. ASSUME NEW A, NEW B, Three(A, B) \in Every, a \in A, b \in B
        PROVE  One
    BY <1>1, <1>4, <1>7, <2>1, <2>2, <2>3, <2>5, RowOfThree
  <2>6. /\ Three(Only(224), Between(160, 191)) \in Every
        /\ Three(Only(224), Between(128, 159)) \in Every
        /\ Three(Most, Cont) \in Every
        /\ Three(Only(237), Between(128, 159)) \in Every
        /\ Three(Only(237), Between(160, 191)) \in Every
    BY SMT DEF Utf8, Loose, Every, Only, Between, Most
  <2> HIDE DEF Three
  <2>7. \/ a \in Only(224) /\ (b \in Between(160, 191) \/ b \in Between(128, 159))
        \/ a \in Most
        \/ a \in Only(237) /\ (b \in Between(128, 159) \/ b \in Between(160, 191))
    BY <2>4 DEF Cont, Only, Between, Most
  <2> QED
    BY <2>2, <2>5, <2>6, <2>7, SMT
<1>8. CASE n = 4
  <2>1. PICK a \in Byte : m[s] = a
    BY <1>1
  <2>2. PICK b \in Cont : m[s + 1] = b
    BY <1>3, <1>8
  <2>3. PICK c \in Cont : m[s + 2] = c
    BY <1>3, <1>8
  <2>4. PICK d \in Cont : m[s + 3] = d
    BY <1>3, <1>8
  <2>5. a \in 240..247
    BY <1>8, <2>1, LengthOf
  <2>6. InRange(Codepoint4(m, s))
    BY <1>8, Zenon DEF ValidSequence
  <2>7. Codepoint4(m, s) = Value(a, b, c, d)
    BY <2>1, <2>2, <2>3, <2>4, CodepointOf, Zenon
  <2>8. InRange(Value(a, b, c, d))
    BY <2>6, <2>7, Zenon
  <2>9. /\ a \in 240..244
        /\ a = 244 => b <= 143
        /\ a = 240 /\ b = 141 => c <= 159
    BY <2>5, <2>8, ValuesInRange
  <2> DEFINE Four(A, B, C) == <<A, B, C, Cont>>
  <2>10. ASSUME NEW A, NEW B, NEW C, Four(A, B, C) \in Every,
                a \in A, b \in B, c \in C
         PROVE  One
    BY <1>1, <1>4, <1>8, <2>1, <2>2, <2>3, <2>4, <2>10, RowOfFour
  <2>11. /\ Four(Only(240), Between(144, 191), Cont) \in Every
         /\ Four(Only(240), Between(128, 140), Cont) \in Every
         /\ Four(Only(240), Only(141), Between(128, 159)) \in Every
         /\ Four(Only(240), Between(142, 143), Cont) \in Every
         /\ Four(Between(241, 243), Cont, Cont) \in Every
         /\ Four(Only(244), Between(128, 143), Cont) \in Every
    BY SMT DEF Utf8, Loose, Every, Only, Between, Most
  <2> HIDE DEF Four
  <2>12. \/ a \in Only(240) /\ (b \in Between(144, 191) \/ b \in Between(128, 140) \/ b \in Between(142, 143))
         \/ a \in Only(240) /\ b \in Only(141) /\ c \in Between(128, 159)
         \/ a \in Between(241, 243)
         \/ a \in Only(244) /\ b \in Between(128, 143)
    BY <2>9 DEF Cont, Only, Between, Most
  <2> QED
    BY <2>2, <2>3, <2>10, <2>11, <2>12
<1>9. n = 1 \/ n = 2 \/ n = 3 \/ n = 4
  BY <1>2
<1> QED
  BY <1>5, <1>6, <1>7, <1>8, <1>9

(* A message in UTF-8 passes to its end. *)
LEMMA Utf8IsValid ==
    ASSUME NEW m \in Messages, Len(m) > 0, MadeOf(Utf8, m)
    PROVE  ValidText(m)
<1> DEFINE L == Len(m)
           V == Verdicts(m)
<1>1. L \in Nat /\ L > 0
  BY BytesOf
<1>2. PICK cuts \in SUBSET (2..Len(m)) :
         \A s \in {1} \cup cuts :
            \E last \in s..Len(m) :
                /\ IsOne(Utf8, m, s, last)
                /\ (last + 1 \in cuts \/ last = Len(m))
                /\ \A t \in cuts : ~(s < t /\ t <= last)
  BY Zenon DEF MadeOf
<1> DEFINE starts == {1} \cup cuts
           S == {k \in Nat : \A s \in starts : s > L - k => V[s]}
<1>3. starts \subseteq 1..L
  BY <1>1
<1>4. \A i \in Positions(m) : V[i] <=> Verdict(m, V, i)
  BY VerdictsUnfold, Zenon
<1> HIDE DEF V, starts
<1>5. 0 \in S
  <2>1. \A s \in starts : ~(s > L - 0)
    BY <1>1, <1>3
  <2> QED
    BY <2>1
<1>6. ASSUME NEW k \in Nat, k \in S PROVE k + 1 \in S
  <2>1. ASSUME NEW s \in starts, s > L - (k + 1) PROVE V[s]
    <3>1. PICK last \in s..L :
             IsOne(Utf8, m, s, last) /\ (last + 1 \in cuts \/ last = L)
      BY <1>2, Zenon DEF starts
    <3>2. s \in 1..L /\ s \in Nat /\ last \in Nat /\ last >= s /\ last <= L
      BY <1>1, <1>3
    <3>3. ValidSequence(m, s) /\ s + SeqLen(m[s]) = last + 1
      BY <3>1, <3>2, Utf8Passes
    <3>4. V[last + 1]
      <4>1. CASE last = L
        <5>1. last + 1 \in Positions(m) /\ ~(last + 1 <= Len(m))
          BY <1>1, <4>1 DEF Positions
        <5> QED
          BY <1>4, <5>1, Zenon DEF Verdict
      <4>2. CASE last + 1 \in cuts
        <5>1. last + 1 \in starts /\ last + 1 > L - k
          BY <1>1, <2>1, <3>2, <4>2 DEF starts
        <5>2. \A t \in starts : t > L - k => V[t]
          BY <1>6, Zenon
        <5> QED
          BY <5>1, <5>2, Zenon
      <4> QED
        BY <3>1, <4>1, <4>2
    <3>5. s \in Positions(m)
      BY <1>1, <3>2 DEF Positions
    <3> QED
      BY <1>4, <3>3, <3>4, <3>5, Zenon DEF Verdict
  <2>2. k + 1 \in Nat
    OBVIOUS
  <2> QED
    BY <2>1, <2>2, Zenon
<1>7. L \in S
  <2> HIDE DEF S
  <2> QED
    BY <1>1, <1>5, <1>6, SetInduction
<1>8. V[1]
  <2>1. \A s \in starts : s > L - L => V[s]
    BY <1>7, Zenon
  <2>2. 1 \in starts /\ 1 > L - L
    BY <1>1 DEF starts
  <2> QED
    BY <2>1, <2>2, Zenon
<1> QED
  BY <1>8, ValidTextIsFirstVerdict, Zenon DEF V

(* The rest of a message, from a position on, cut into characters *)
CutFrom(table, m, i) ==
    \E cuts \in SUBSET ((i + 1)..Len(m)) :
        \A s \in {i} \cup cuts :
            \E last \in s..Len(m) :
                /\ IsOne(table, m, s, last)
                /\ (last + 1 \in cuts \/ last = Len(m))
                /\ \A t \in cuts : ~(s < t /\ t <= last)

LEMMA MadeOfIsCutFromOne ==
    ASSUME NEW table, NEW m
    PROVE  CutFrom(table, m, 1) => MadeOf(table, m)
<1>1. 1 + 1 = 2
  OBVIOUS
<1> QED
  BY <1>1, Zenon DEF CutFrom, MadeOf

(* One character in front of a rest that is cut *)
LEMMA CutBefore ==
    ASSUME NEW table, NEW m, Len(m) \in Nat, NEW i \in 1..Len(m), NEW last \in i..Len(m),
           IsOne(table, m, i, last),
           last = Len(m) \/ CutFrom(table, m, last + 1)
    PROVE  CutFrom(table, m, i)
<1>1. CASE last = Len(m)
  <2>1. {} \in SUBSET ((i + 1)..Len(m))
    OBVIOUS
  <2>2. \A s \in {i} \cup {} :
            \E l \in s..Len(m) :
                /\ IsOne(table, m, s, l)
                /\ (l + 1 \in {} \/ l = Len(m))
                /\ \A t \in {} : ~(s < t /\ t <= l)
    BY <1>1, Zenon
  <2> QED
    BY <2>1, <2>2, Zenon DEF CutFrom
<1>2. CASE last # Len(m) /\ CutFrom(table, m, last + 1)
  <2> DEFINE next == last + 1
  <2>1. PICK rest \in SUBSET ((next + 1)..Len(m)) :
           \A s \in {next} \cup rest :
              \E l \in s..Len(m) :
                  /\ IsOne(table, m, s, l)
                  /\ (l + 1 \in rest \/ l = Len(m))
                  /\ \A t \in rest : ~(s < t /\ t <= l)
    BY <1>2, Zenon DEF CutFrom
  <2> DEFINE cuts == {next} \cup rest
  <2>2. /\ i \in Nat /\ last \in Nat /\ i <= last /\ next \in Nat /\ next <= Len(m)
        /\ next = last + 1 /\ i < next
    BY <1>2
  <2>3. \A t \in rest : t \in Nat /\ t > next /\ t <= Len(m)
    BY <2>2
  <2>4. cuts \in SUBSET ((i + 1)..Len(m))
    BY <2>2, <2>3
  <2>5. \A t \in cuts : ~(i < t /\ t <= last)
    BY <2>2, <2>3
  <2>6. \E l \in i..Len(m) :
            /\ IsOne(table, m, i, l)
            /\ (l + 1 \in cuts \/ l = Len(m))
            /\ \A t \in cuts : ~(i < t /\ t <= l)
    <3>1. last + 1 \in cuts
      OBVIOUS
    <3> HIDE DEF cuts
    <3> QED
      BY <2>5, <3>1, Zenon
  <2>7. ASSUME NEW s \in cuts
        PROVE  \E l \in s..Len(m) :
                  /\ IsOne(table, m, s, l)
                  /\ (l + 1 \in cuts \/ l = Len(m))
                  /\ \A t \in cuts : ~(s < t /\ t <= l)
    <3>1. PICK l \in s..Len(m) :
             /\ IsOne(table, m, s, l)
             /\ (l + 1 \in rest \/ l = Len(m))
             /\ \A t \in rest : ~(s < t /\ t <= l)
      BY <2>1, Zenon
    <3>2. ~(s < next)
      BY <2>2, <2>3
    <3>3. \A t \in cuts : ~(s < t /\ t <= l)
      BY <3>1, <3>2, Zenon
    <3>4. l + 1 \in cuts \/ l = Len(m)
      BY <3>1, Zenon
    <3> HIDE DEF cuts
    <3> QED
      BY <3>1, <3>3, <3>4, Zenon
  <2> HIDE DEF cuts
  <2>8. \A s \in {i} \cup cuts :
           \E l \in s..Len(m) :
                  /\ IsOne(table, m, s, l)
                  /\ (l + 1 \in cuts \/ l = Len(m))
                  /\ \A t \in cuts : ~(s < t /\ t <= l)
    <3> TAKE s \in {i} \cup cuts
    <3>1. CASE s = i
      BY <2>6, <3>1, Zenon
    <3>2. CASE s \in cuts
      BY <2>7, <3>2, Zenon
    <3> QED
      BY <3>1, <3>2, Zenon
  <2> QED
    BY <2>4, <2>8, Zenon DEF CutFrom
<1> QED
  BY <1>1, <1>2, Zenon

(* What passes to its end is cut into characters, longer forms and         *)
(* surrogates. *)
LEMMA ValidIsMadeLoosely ==
    ASSUME NEW m \in Messages, Len(m) > 0, ValidText(m)
    PROVE  MadeOf(Utf8 \cup Loose, m)
<1> DEFINE L == Len(m)
           V == Verdicts(m)
           table == Utf8 \cup Loose
           S == {k \in Nat : \A i \in 1..L : i > L - k /\ V[i] => CutFrom(table, m, i)}
<1>1. L \in Nat /\ L > 0
  BY BytesOf
<1>2. \A i \in Positions(m) : V[i] <=> Verdict(m, V, i)
  BY VerdictsUnfold, Zenon
<1>3. V[1]
  BY ValidTextIsFirstVerdict, Zenon
<1>4. \A s \in 1..Len(m) :
         ValidSequence(m, s) => IsOne(table, m, s, s + SeqLen(m[s]) - 1)
  BY PassesLoosely, Zenon
<1> HIDE DEF V, table
<1>5. 0 \in S
  <2>1. \A i \in 1..L : ~(i > L - 0)
    BY <1>1
  <2> QED
    BY <2>1, Zenon
<1>6. ASSUME NEW k \in Nat, k \in S PROVE k + 1 \in S
  <2>1. ASSUME NEW i \in 1..L, i > L - (k + 1), V[i] PROVE CutFrom(table, m, i)
    <3>1. i \in Nat /\ i <= Len(m) /\ i \in Positions(m)
      BY <1>1 DEF Positions
    <3>2. ValidSequence(m, i) /\ V[i + SeqLen(m[i])]
      BY <1>2, <2>1, <3>1, Zenon DEF Verdict
    <3>3. /\ SeqLen(m[i]) \in 1..4 /\ i + SeqLen(m[i]) <= Len(m) + 1
      BY <3>2, LooksAhead
    <3> DEFINE last == i + SeqLen(m[i]) - 1
    <3>4. last \in i..L /\ last + 1 = i + SeqLen(m[i]) /\ last \in Nat
      BY <1>1, <3>1, <3>3
    <3>5. IsOne(table, m, i, last)
      BY <1>4, <3>2, Zenon
    <3> HIDE DEF last
    <3>6. last = L \/ CutFrom(table, m, last + 1)
      <4>1. ASSUME last # L PROVE CutFrom(table, m, last + 1)
        <5>1. last + 1 \in 1..L /\ last + 1 > L - k
          BY <1>1, <2>1, <3>1, <3>4, <4>1
        <5>2. V[last + 1]
          BY <3>2, <3>4, Zenon
        <5>3. \A j \in 1..L : j > L - k /\ V[j] => CutFrom(table, m, j)
          BY <1>6, Zenon
        <5> QED
          BY <5>1, <5>2, <5>3, Zenon
      <4> QED
        BY <4>1, Zenon
    <3> QED
      BY <1>1, <3>4, <3>5, <3>6, CutBefore, Zenon
  <2>2. k + 1 \in Nat
    OBVIOUS
  <2> QED
    BY <2>1, <2>2, Zenon
<1>7. L \in S
  <2> HIDE DEF S
  <2> QED
    BY <1>1, <1>5, <1>6, SetInduction
<1>8. CutFrom(table, m, 1)
  <2>1. \A i \in 1..L : i > L - L /\ V[i] => CutFrom(table, m, i)
    BY <1>7, Zenon
  <2>2. 1 \in 1..L /\ 1 > L - L
    BY <1>1
  <2> QED
    BY <1>3, <2>1, <2>2, Zenon
<1> QED
  BY <1>8, MadeOfIsCutFromOne, Zenon DEF table

-----------------------------------------------------------------------------
(* What the handler gets, over the steps of a message *)
TextInv ==
    /\ message \in Seq(Bytes)
    /\ is_text \in BOOLEAN
    /\ accepted <=> validateWebSocketMessage(message, is_text)

LEMMA TextInvHolds == MessageSpec => []TextInv
<1>1. MessageInit => TextInv
  <2> SUFFICES ASSUME MessageInit PROVE TextInv
    OBVIOUS
  <2>1. message = <<>> /\ is_text = TRUE /\ accepted = FALSE
    BY DEF MessageInit
  <2>2. ~validateWebSocketMessage(message, is_text)
    BY <2>1, Zenon DEF validateWebSocketMessage
  <2>3. message \in Seq(Bytes)
    BY <2>1
  <2> QED
    BY <2>1, <2>2, <2>3, Zenon DEF TextInv
<1>2. TextInv /\ [MessageNext]_messageVars => TextInv'
  <2> SUFFICES ASSUME TextInv, [MessageNext]_messageVars PROVE TextInv'
    OBVIOUS
  <2>1. ASSUME NEW c \in Bytes, SendByte(c) PROVE TextInv'
    <3>1. message' = Append(message, c) /\ is_text' = is_text
      BY <2>1, Zenon DEF SendByte
    <3>2. accepted' <=> validateWebSocketMessage(message', is_text')
      BY <2>1, <3>1, Zenon DEF SendByte
    <3>3. message' \in Seq(Bytes)
      BY <3>1 DEF TextInv
    <3> QED
      BY <3>1, <3>2, <3>3, Zenon DEF TextInv
  <2>2. CASE SendBinary
    <3>1. message = <<>> /\ message' = message /\ is_text' = FALSE /\ accepted' = accepted
      BY <2>2, Zenon DEF SendBinary
    <3>2. ~accepted /\ ~validateWebSocketMessage(message', is_text')
      BY <3>1, Zenon DEF TextInv, validateWebSocketMessage
    <3> QED
      BY <3>1, <3>2, Zenon DEF TextInv
  <2>3. CASE UNCHANGED messageVars
    BY <2>3, Zenon DEF TextInv, messageVars
  <2> QED
    BY <2>1, <2>2, <2>3, Zenon DEF MessageNext
<1> QED
  BY <1>1, <1>2, PTL DEF MessageSpec

LEMMA Printable ==
    ASSUME NEW m \in Messages
    PROVE  (\A i \in DOMAIN m : ~IsControl(m[i])) <=>
           (\A i \in DOMAIN m : m[i] \in (32..126) \cup (128..255) \cup {9, 10, 13})
<1>1. \A c \in Byte : ~IsControl(c) <=> c \in (32..126) \cup (128..255) \cup {9, 10, 13}
  BY DEF Byte, IsControl
<1> DEFINE ok == (32..126) \cup (128..255) \cup {9, 10, 13}
<1>2. \A i \in DOMAIN m : m[i] \in Byte
  BY BytesOf
<1>3. \A c \in Byte : ~IsControl(c) <=> c \in ok
  BY <1>1
<1> HIDE DEF ok
<1>4. (\A i \in DOMAIN m : ~IsControl(m[i])) <=> (\A i \in DOMAIN m : m[i] \in ok)
  BY <1>2, <1>3, Zenon
<1> QED
  BY <1>4 DEF ok

(* For every alphabet of bytes and every two limits: each message in UTF-8 *)
(* without control characters, and each binary one, that is not too long   *)
(* reaches the handler of a WebSocketConnection, and none does that is not *)
(* in UTF-8 up to the listed longer forms and surrogates                   *)
(* (WebSocketConnection::validateWebSocketMessage). *)
THEOREM HandlersGetText == MessageSpec => []TextAccepted
<1>1. TextInv => TextAccepted
  <2> SUFFICES ASSUME TextInv PROVE TextAccepted
    OBVIOUS
  <2> DEFINE L == Len(message)
             printable == \A i \in DOMAIN message :
                             message[i] \in (32..126) \cup (128..255) \cup {9, 10, 13}
             size == L \in 1..MAX_FRAME_SIZE /\ L <= MAX_MESSAGE_SIZE
  <2>1. message \in Messages /\ L \in Nat
    <3>1. Bytes \subseteq Byte
      BY BytesAssumption DEF Byte
    <3>2. message \in Seq(Bytes)
      BY DEF TextInv
    <3>3. message \in [1..Len(message) -> Byte] /\ Len(message) \in Nat
      BY <3>1, <3>2
    <3>4. message \in Seq(Byte)
      BY <3>3
    <3> QED
      BY <3>3, <3>4 DEF Messages
  <2>2. size <=> (message # <<>> /\ L <= MAX_FRAME_SIZE /\ L <= MAX_MESSAGE_SIZE)
    <3>1. message = <<>> <=> L = 0
      BY DEF TextInv
    <3> QED
      BY <2>1, <3>1, SizesAssumption
  <2>3. printable <=> \A i \in DOMAIN message : ~IsControl(message[i])
    BY <2>1, Printable, Zenon
  <2>4. size => L > 0
    BY <2>1
  <2>5. size /\ MadeOf(Utf8, message) => ValidText(message)
    BY <2>1, <2>4, Utf8IsValid, Zenon
  <2>6. size /\ ValidText(message) => MadeOf(Utf8 \cup Loose, message)
    BY <2>1, <2>4, ValidIsMadeLoosely, Zenon
  <2>7. accepted <=> size /\ (is_text => ValidText(message) /\ printable)
    <3> HIDE DEF size, printable
    <3> QED
      BY <2>2, <2>3, Zenon DEF TextInv, validateWebSocketMessage
  <2>8. TextAccepted <=>
          /\ size /\ (~is_text \/ (MadeOf(Utf8, message) /\ printable)) => accepted
          /\ accepted => size /\ (~is_text \/ (MadeOf(Utf8 \cup Loose, message) /\ printable))
    BY DEF TextAccepted
  <2> HIDE DEF size, printable
  <2> QED
    BY <2>5, <2>6, <2>7, <2>8, Zenon
<1>2. QED
  BY <1>1, TextInvHolds, PTL

-----------------------------------------------------------------------------
(* Documents *)
Doc(r) == IF r.body = NoBody THEN "null" ELSE r.body.doc

(* What a described request may get for an answer *)
Answered(doc, sent) ==
    /\ sent.body.doc = doc
    /\ sent.headers["Content-Type"] = sent.body.format
    /\ \/ MediaType(sent.body.format) \in getReqHeader("Accept")
       \/ /\ sent.body.format = "json"
          /\ getReqHeader("Accept") \subseteq {"application/json", "text/html"}
    /\ sent.body.compressed <=> "Content-Encoding" \in DOMAIN sent.headers
    /\ sent.body.compressed => "gzip" \in getReqHeader("Accept-Encoding")

DocInv ==
    /\ stage \in {"idle", "before_run", "refused", "run", "after_run", "done", "failed", "error"}
    /\ stage # "idle" => request \in Requests
    /\ stage \in {"after_run", "done"} => params = getQueryParams(request.target)
    /\ Describes(request) =>
          /\ stage # "refused"
          /\ stage \in {"run", "after_run", "done"} => req = Doc(request)
          /\ stage = "done" =>
                Answered(req, response) /\ response.body.compressed \in BOOLEAN

LEMMA FormatsRead ==
    ASSUME NEW format \in Formats,
           \/ getReqHeader("Content-Type") = {MediaType(format)}
           \/ format = "json" /\ getReqHeader("Content-Type") = {}
    PROVE  ContentFormat = format
<1> DEFINE type == getReqHeader("Content-Type")
<1>1. /\ format = "json" => MediaType(format) = "application/json"
      /\ format = "msgpack" => MediaType(format) = "application/msgpack"
      /\ format = "cbor" => MediaType(format) = "application/cbor"
  BY DEF MediaType
<1>2. format = "json" \/ format = "msgpack" \/ format = "cbor"
  BY DEF Formats
<1> HIDE DEF type
<1>3. ContentFormat = CASE "application/json" \in type -> "json"
      [] "application/json" \notin type /\ "application/msgpack" \in type -> "msgpack"
      [] type \cap {"application/json", "application/msgpack"} = {}
         /\ "application/cbor" \in type -> "cbor"
      [] OTHER -> "json"
  BY DEF ContentFormat, type
<1>4. CASE format = "json" /\ type = {}
  BY <1>3, <1>4
<1>5. CASE format = "json" /\ type = {"application/json"}
  BY <1>3, <1>5
<1>6. CASE format = "msgpack" /\ type = {"application/msgpack"}
  BY <1>3, <1>6
<1>7. CASE format = "cbor" /\ type = {"application/cbor"}
  BY <1>3, <1>7
<1> QED
  BY <1>1, <1>2, <1>4, <1>5, <1>6, <1>7 DEF type

(* The document of a described request is found, whatever its body. *)
LEMMA DocumentsFound ==
    ASSUME request \in Requests, Describes(request),
           NEW data \in getReqData
    PROVE  /\ (IF data = NoBody THEN {"null"} ELSE Parse(ContentFormat, data)) = {Doc(request)}
           /\ Doc(request) # "invalid"
<1> DEFINE b == request.body
           encoding == getReqHeader("Content-Encoding")
<1>1. b # NoBody => b \in Bodies /\ b.doc # "invalid" /\ b.format \in Formats
  BY RequestsAssumption
<1>2. encoding = {"gzip"} <=> b # NoBody /\ b.compressed
  BY DEF Describes, getReqHeader
<1>3. b # NoBody => \/ getReqHeader("Content-Type") = {MediaType(b.format)}
                    \/ b.format = "json" /\ getReqHeader("Content-Type") = {}
  BY DEF Describes, getReqHeader
<1>4. b # NoBody => ContentFormat = b.format
  BY <1>1, <1>3, FormatsRead
<1>5. CASE b = NoBody
  <2>1. data = NoBody
    BY <1>2, <1>5 DEF getReqData
  <2> QED
    BY <1>5, <2>1 DEF Doc
<1>6. CASE b # NoBody /\ ~b.compressed
  <2>1. data = b
    BY <1>2, <1>6 DEF getReqData
  <2>2. Parse(ContentFormat, data) = {b.doc}
    BY <1>4, <1>6, <2>1 DEF Parse
  <2> QED
    BY <1>1, <1>6, <2>1, <2>2 DEF Doc
<1>7. CASE b # NoBody /\ b.compressed
  <2>1. data = [b EXCEPT !.compressed = FALSE]
    BY <1>2, <1>7 DEF getReqData
  <2>2. /\ data \in Bodies /\ data.format = b.format /\ data.doc = b.doc
        /\ data.compressed = FALSE
    BY <1>1, <1>7, <2>1 DEF Bodies
  <2>3. data # NoBody
    BY <2>2, NoBodyAssumption
  <2>4. Parse(ContentFormat, data) = {b.doc}
    BY <1>4, <1>7, <2>2 DEF Parse
  <2> QED
    BY <1>1, <1>7, <2>3, <2>4 DEF Doc
<1> QED
  BY <1>5, <1>6, <1>7

LEMMA RepliesAccepted ==
    ASSUME request \in Requests
    PROVE  \/ MediaType(ReplyFormat) \in getReqHeader("Accept")
           \/ /\ ReplyFormat = "json"
              /\ getReqHeader("Accept") \subseteq {"application/json", "text/html"}
<1> DEFINE accept == getReqHeader("Accept")
<1>1. accept \subseteq {"application/json", "application/msgpack", "application/cbor", "text/html"}
  BY RequestsAssumption DEF getReqHeader
<1>2. ReplyFormat = CASE "application/msgpack" \in accept -> "msgpack"
      [] "application/msgpack" \notin accept /\ "application/cbor" \in accept -> "cbor"
      [] OTHER -> "json"
  BY DEF ReplyFormat
<1>3. MediaType("msgpack") = "application/msgpack" /\ MediaType("cbor") = "application/cbor"
  BY DEF MediaType
<1> HIDE DEF accept
<1>4. CASE "application/msgpack" \in accept
  <2>1. ReplyFormat = "msgpack"
    BY <1>2, <1>4
  <2> QED
    BY <1>3, <1>4, <2>1 DEF accept
<1>5. CASE "application/msgpack" \notin accept /\ "application/cbor" \in accept
  <2>1. ReplyFormat = "cbor"
    BY <1>2, <1>5
  <2> QED
    BY <1>3, <1>5, <2>1 DEF accept
<1>6. CASE "application/msgpack" \notin accept /\ "application/cbor" \notin accept
  <2>1. ReplyFormat = "json"
    BY <1>2, <1>6
  <2> QED
    BY <1>1, <1>6, <2>1 DEF accept
<1> QED
  BY <1>4, <1>5, <1>6

LEMMA DocInvHolds == DataSpec => []DocInv
<1>1. DataInit => DocInv
  BY DEF DataInit, DocInv
<1>2. DocInv /\ [DataNext]_dataVars => DocInv'
  <2> SUFFICES ASSUME DocInv, [DataNext]_dataVars PROVE DocInv'
    OBVIOUS
  <2>1. ASSUME NEW r \in Requests, Receive(r) PROVE DocInv'
    BY <2>1 DEF DocInv, Receive
  <2>2. CASE before_run
    <3>1. /\ stage = "before_run" /\ request' = request /\ request \in Requests
          /\ stage' = IF req' = "invalid" THEN "refused" ELSE "run"
      BY <2>2 DEF before_run, DocInv
    <3>2. PICK data \in getReqData :
             req' \in IF data = NoBody THEN {"null"} ELSE Parse(ContentFormat, data)
      BY <2>2, Zenon DEF before_run
    <3>3. Describes(request) => req' = Doc(request) /\ req' # "invalid"
      BY <3>1, <3>2, DocumentsFound
    <3>4. Describes(request)' <=> Describes(request)
      BY <3>1 DEF Describes
    <3>5. Doc(request)' = Doc(request)
      BY <3>1, Zenon DEF Doc
    <3> QED
      BY <3>1, <3>3, <3>4, <3>5 DEF DocInv
  <2>3. CASE run
    <3>1. /\ stage = "run" /\ stage' = "after_run" /\ request' = request /\ req' = req
          /\ params' = getQueryParams(request.target)
      BY <2>3, Zenon DEF run
    <3>2. (Describes(request)' <=> Describes(request)) /\ Doc(request)' = Doc(request)
      BY <3>1, Zenon DEF Describes, Doc
    <3>3. params' = getQueryParams(request.target)'
      BY <3>1, Zenon
    <3> QED
      BY <3>1, <3>2, <3>3 DEF DocInv
  <2>4. CASE after_run
    <3>1. /\ stage = "after_run" /\ request' = request /\ req' = req
          /\ params' = params
      BY <2>4, Zenon DEF after_run
    <3>2. (Describes(request)' <=> Describes(request)) /\ Doc(request)' = Doc(request)
      BY <3>1, Zenon DEF Describes, Doc
    <3> DEFINE zips == "gzip" \in getReqHeader("Accept-Encoding")
               names(z) == {"Content-Type"} \cup (IF z THEN {"Content-Encoding"} ELSE {})
    <3>3. CASE stage' = "failed"
      BY <3>1, <3>2, <3>3 DEF DocInv
    <3>4. CASE stage' # "failed"
      <4>1. /\ stage' = "done"
            /\ \E long \in BOOLEAN :
                 LET zipped == ReplyFormat = "json" /\ long /\ zips IN
                 response' =
                    [headers |-> [name \in names(zipped) |->
                                     IF name = "Content-Type" THEN ReplyFormat ELSE "gzip"],
                     body |-> [doc |-> req, format |-> ReplyFormat, compressed |-> zipped]]
        BY <2>4, <3>4, Zenon DEF after_run
      <4>2. PICK long \in BOOLEAN :
               LET zipped == ReplyFormat = "json" /\ long /\ zips IN
               response' =
                  [headers |-> [name \in names(zipped) |->
                                   IF name = "Content-Type" THEN ReplyFormat ELSE "gzip"],
                   body |-> [doc |-> req, format |-> ReplyFormat, compressed |-> zipped]]
        BY <4>1, Zenon
      <4> DEFINE zipped == ReplyFormat = "json" /\ long /\ zips
                 headers == [name \in names(zipped) |->
                                IF name = "Content-Type" THEN ReplyFormat ELSE "gzip"]
      <4>3. zipped \in BOOLEAN /\ (zipped => zips)
        OBVIOUS
      <4>4. response' = [headers |-> headers,
                         body |-> [doc |-> req, format |-> ReplyFormat, compressed |-> zipped]]
        BY <4>2, Zenon
      <4> HIDE DEF zipped
      <4>5. headers["Content-Type"] = ReplyFormat /\ DOMAIN headers = names(zipped)
        OBVIOUS
      <4>6. zipped <=> "Content-Encoding" \in names(zipped)
        OBVIOUS
      <4> HIDE DEF headers, names
      <4>7. /\ response'.headers = headers /\ response'.body.doc = req
            /\ response'.body.format = ReplyFormat /\ response'.body.compressed = zipped
        BY <4>4
      <4>8. /\ getReqHeader("Accept")' = getReqHeader("Accept")
            /\ getReqHeader("Accept-Encoding")' = getReqHeader("Accept-Encoding")
        BY <3>1, Zenon DEF getReqHeader
      <4>9. request \in Requests
        BY <3>1 DEF DocInv
      <4>10. Answered(req, response)' /\ response'.body.compressed \in BOOLEAN
        BY <3>1, <4>3, <4>5, <4>6, <4>7, <4>8, <4>9, RepliesAccepted DEF Answered
      <4> QED
        BY <3>1, <3>2, <4>1, <4>10 DEF DocInv
    <3> QED
      BY <3>3, <3>4
  <2>6. CASE processError
    <3>1. /\ stage \in {"refused", "failed"} /\ stage' = "error"
          /\ request' = request /\ req' = req /\ params' = params
      BY <2>6, Zenon DEF processError
    <3>2. (Describes(request)' <=> Describes(request)) /\ Doc(request)' = Doc(request)
      BY <3>1, Zenon DEF Describes, Doc
    <3> QED
      BY <3>1, <3>2 DEF DocInv
  <2>5. CASE UNCHANGED dataVars
    <3>1. /\ stage' = stage /\ request' = request /\ req' = req /\ params' = params
          /\ response' = response
      BY <2>5, Zenon DEF dataVars
    <3>2. /\ Describes(request)' <=> Describes(request)
          /\ Doc(request)' = Doc(request)
          /\ Answered(req, response)' <=> Answered(req, response)
      BY <3>1, Zenon DEF Describes, Doc, Answered, getReqHeader
    <3> QED
      BY <3>1, <3>2 DEF DocInv
  <2> QED
    BY <2>1, <2>2, <2>3, <2>4, <2>5, <2>6 DEF DataNext
<1> QED
  BY <1>1, <1>2, PTL DEF DataSpec

LEMMA DocumentsAreExchanged == DocInv => DocumentsExchanged
<1> SUFFICES ASSUME DocInv, Describes(request) PROVE DocumentsExchanged
  BY Zenon DEF DocumentsExchanged
<1>1. /\ stage # "refused"
      /\ stage \in {"run", "after_run", "done"} => req = Doc(request)
      /\ stage = "done" => Answered(req, response) /\ response.body.compressed \in BOOLEAN
  BY Zenon DEF DocInv
<1>2. stage = "done" => Answered(Doc(request), response) /\ response.body.compressed \in BOOLEAN
  <2>1. stage = "done" => stage \in {"run", "after_run", "done"}
    OBVIOUS
  <2> QED
    BY <1>1, <2>1, Zenon
<1>3. stage = "done" =>
         response.body.compressed = ("Content-Encoding" \in DOMAIN response.headers)
  BY <1>2 DEF Answered
<1>4. \A x : getReqHeader(x) = IF x \in DOMAIN request.headers THEN request.headers[x] ELSE {}
  BY Zenon DEF getReqHeader
<1> QED
  BY <1>1, <1>2, <1>3, <1>4, Zenon DEF DocumentsExchanged, Doc, Answered

-----------------------------------------------------------------------------
(* Queries *)

Queries == Seq(STRING)

LEMMA QueryOf ==
    ASSUME NEW q \in Queries
    PROVE  Len(q) \in Nat /\ DOMAIN q = 1..Len(q)
BY DEF Queries

LEMMA LeastIs ==
    ASSUME NEW S, S \subseteq Int, NEW x \in S, \A y \in S : x <= y
    PROVE  Min(S) = x
<1>1. Min(S) \in S /\ \A y \in S : Min(S) <= y
  BY Zenon DEF Min
<1>2. Min(S) \in Int /\ x \in Int /\ Min(S) <= x /\ x <= Min(S)
  BY <1>1
<1> QED
  BY <1>2

LEMMA LeastExists ==
    ASSUME NEW S, S \subseteq Nat, S # {}
    PROVE  Min(S) \in S /\ \A y \in S : Min(S) <= y
<1>1. \E x \in S : \A y \in S : x <= y
  BY LeastNatural
<1> QED
  BY <1>1, Zenon DEF Min

LEMMA GreatestExists ==
    ASSUME NEW S, NEW n \in Nat, S \subseteq 0..n, S # {}
    PROVE  \E x \in S : \A y \in S : y <= x
<1> DEFINE T == {m \in Nat : \A y \in S : y <= m}
<1>1. n \in T
  OBVIOUS
<1>2. PICK b \in T : \A m \in T : b <= m
  <2>1. T \subseteq Nat /\ T # {}
    BY <1>1
  <2> HIDE DEF T
  <2> QED
    BY <2>1, LeastNatural
<1>3. b \in S
  <2> SUFFICES ASSUME b \notin S PROVE FALSE
    OBVIOUS
  <2>1. \A y \in S : y <= b - 1
    OBVIOUS
  <2>2. b - 1 \in Nat
    <3>1. PICK y \in S : TRUE
      OBVIOUS
    <3> QED
      BY <2>1, <3>1
  <2>3. b - 1 \in T
    BY <2>1, <2>2
  <2> QED
    BY <1>2, <2>3
<1> QED
  BY <1>2, <1>3

LEMMA QueriesAreStrings ==
    ASSUME NEW target \in Seq(STRING)
    PROVE  Query(target) \in Queries
<1> DEFINE I == {i \in 1..Len(target) : target[i] = "?"}
           i == IF I # {} THEN Min(I) ELSE 0
<1>1. Query(target) = IF i = 0 THEN <<>> ELSE SubSeq(target, i + 1, Len(target))
  BY DEF Query, SelectInSeq
<1>2. CASE I = {}
  <2>1. i = 0
    BY <1>2
  <2> HIDE DEF i
  <2>2. Query(target) = <<>>
    BY <1>1, <2>1, Zenon
  <2> QED
    BY <2>2 DEF Queries
<1>3. CASE I # {}
  <2>1. i \in 1..Len(target)
    <3>1. I \subseteq Nat
      OBVIOUS
    <3>2. Min(I) \in I
      BY <1>3, <3>1, LeastExists
    <3> QED
      BY <1>3, <3>2
  <2> HIDE DEF i
  <2>2. SubSeq(target, i + 1, Len(target)) \in Seq(STRING)
    BY <2>1
  <2>3. i # 0
    BY <2>1
  <2> QED
    BY <1>1, <2>2, <2>3, Zenon DEF Queries
<1> QED
  BY <1>2, <1>3

-----------------------------------------------------------------------------
(* The parts of a query *)
NoAnd(q, first, last) == \A j \in first..last : q[j] # "&"
NoSign(q, first, last) == \A j \in first..last : q[j] # "="

(* A position at which a part ends *)
Ends(q, last) == last = Len(q) \/ q[last + 1] = "&"

LEMMA StartsAre ==
    ASSUME NEW q \in Queries
    PROVE  /\ Starts(q) \subseteq 1..(Len(q) + 1) /\ 1 \in Starts(q)
           /\ \A j \in 1..Len(q) : q[j] = "&" => j + 1 \in Starts(q)
           /\ \A s \in Starts(q) : s = 1 \/ (s - 1 \in 1..Len(q) /\ q[s - 1] = "&")
<1>1. Len(q) \in Nat /\ DOMAIN q = 1..Len(q)
  BY QueryOf
<1>2. Starts(q) = {1} \cup {i + 1 : i \in {j \in 1..Len(q) : q[j] = "&"}}
  BY <1>1 DEF Starts
<1> QED
  BY <1>1, <1>2

(* No part starts before the one at hand ends. *)
LEMMA NextStarts ==
    ASSUME NEW q \in Queries, NEW start \in Starts(q), NEW last \in Nat, NoAnd(q, start, last)
    PROVE  \A t \in Starts(q) : t > start => t > last + 1
<1> TAKE t \in Starts(q)
<1> SUFFICES ASSUME t > start PROVE t > last + 1
  OBVIOUS
<1>1. Len(q) \in Nat /\ start \in 1..(Len(q) + 1) /\ t \in 1..(Len(q) + 1)
  BY QueryOf, StartsAre
<1>2. t - 1 \in 1..Len(q) /\ q[t - 1] = "&"
  BY <1>1, StartsAre
<1>3. ~(t - 1 \in start..last)
  BY <1>2 DEF NoAnd
<1> QED
  BY <1>1, <1>3

LEMMA PartEnds ==
    ASSUME NEW q \in Queries, NEW start \in 1..(Len(q) + 1)
    PROVE  \E last \in (start - 1)..Len(q) : NoAnd(q, start, last) /\ Ends(q, last)
<1> DEFINE ends == {i \in start..Len(q) : q[i] = "&"}
<1>1. Len(q) \in Nat
  BY QueryOf
<1>2. CASE ends = {}
  <2>1. NoAnd(q, start, Len(q)) /\ Len(q) \in (start - 1)..Len(q)
    BY <1>1, <1>2 DEF NoAnd
  <2> QED
    BY <2>1 DEF Ends
<1>3. CASE ends # {}
  <2>1. ends \subseteq Nat
    BY <1>1
  <2> DEFINE e == Min(ends)
  <2>2. e \in ends /\ \A y \in ends : e <= y
    BY <1>3, <2>1, LeastExists
  <2>3. e - 1 \in (start - 1)..Len(q) /\ e - 1 + 1 = e /\ q[e] = "&"
    BY <1>1, <2>2
  <2>4. NoAnd(q, start, e - 1)
    BY <1>1, <2>2 DEF NoAnd
  <2> QED
    BY <2>3, <2>4 DEF Ends
<1> QED
  BY <1>2, <1>3

LEMMA PartIs ==
    ASSUME NEW q \in Queries, NEW start \in 1..(Len(q) + 1), NEW last \in (start - 1)..Len(q),
           NoAnd(q, start, last), Ends(q, last)
    PROVE  Part(q, start) = SubSeq(q, start, last)
<1> DEFINE ends == {i \in start..Len(q) : q[i] = "&"}
<1>1. Len(q) \in Nat /\ last \in Int
  BY QueryOf
<1>2. Part(q, start) = SubSeq(q, start, IF ends = {} THEN Len(q) ELSE Min(ends) - 1)
  BY DEF Part
<1>3. CASE last = Len(q)
  <2>1. ends = {}
    BY <1>1, <1>3 DEF NoAnd
  <2> QED
    BY <1>2, <1>3, <2>1
<1>4. CASE last # Len(q)
  <2>1. last + 1 \in ends /\ ends \subseteq Int
    BY <1>1, <1>4 DEF Ends
  <2>2. \A y \in ends : last + 1 <= y
    BY <1>1 DEF NoAnd
  <2>3. Min(ends) = last + 1
    BY <2>1, <2>2, LeastIs
  <2>4. ends # {} /\ last + 1 - 1 = last
    BY <1>1, <2>1
  <2> HIDE DEF ends
  <2>5. (IF ends = {} THEN Len(q) ELSE Min(ends) - 1) = last
    BY <2>3, <2>4
  <2>6. Part(q, start) = SubSeq(q, start, IF ends = {} THEN Len(q) ELSE Min(ends) - 1)
    BY <1>2 DEF ends
  <2> QED
    BY <2>5, <2>6, Zenon
<1> QED
  BY <1>3, <1>4

LEMMA SubSeqIs ==
    ASSUME NEW q \in Queries, NEW first \in 1..(Len(q) + 1), NEW last \in (first - 1)..Len(q)
    PROVE  /\ SubSeq(q, first, last) \in Queries
           /\ Len(SubSeq(q, first, last)) = last - first + 1
           /\ \A i \in 1..(last - first + 1) : SubSeq(q, first, last)[i] = q[first + i - 1]
           /\ SubSeq(q, first, last) = Text(q, first, last - first + 1)
BY DEF Queries, Text

LEMMA TextIsEmpty ==
    ASSUME NEW q, NEW first, NEW len \in Nat
    PROVE  Text(q, first, len) = <<>> <=> len = 0
BY DEF Text

(* The name and the value of a part without '=' *)
LEMMA BareNames ==
    ASSUME NEW q \in Queries, NEW start \in 1..(Len(q) + 1), NEW last \in (start - 1)..Len(q),
           NoSign(q, start, last)
    PROVE  /\ Name(SubSeq(q, start, last)) = Text(q, start, last - start + 1)
           /\ ValueOf(SubSeq(q, start, last)) = <<>>
<1> DEFINE p == SubSeq(q, start, last)
<1>1. /\ p \in Queries /\ Len(p) = last - start + 1
      /\ \A i \in 1..(last - start + 1) : p[i] = q[start + i - 1]
      /\ p = Text(q, start, last - start + 1)
  BY SubSeqIs
<1>2. Len(q) \in Nat /\ DOMAIN p = 1..Len(p)
  BY <1>1, QueryOf
<1> HIDE DEF p
<1>3. Signs(p) = {}
  <2>1. \A i \in DOMAIN p : p[i] # "="
    <3> TAKE i \in DOMAIN p
    <3>1. p[i] = q[start + i - 1] /\ start + i - 1 \in start..last
      BY <1>1, <1>2
    <3> QED
      BY <3>1 DEF NoSign
  <2> QED
    BY <2>1 DEF Signs
<1> QED
  BY <1>1, <1>3 DEF Name, ValueOf, p

(* And those of a part with one: it is cut at its first. *)
LEMMA CutNames ==
    ASSUME NEW q \in Queries, NEW start \in 1..(Len(q) + 1), NEW last \in (start - 1)..Len(q),
           NEW e \in start..last, q[e] = "=", NoSign(q, start, e - 1)
    PROVE  /\ Name(SubSeq(q, start, last)) = Text(q, start, e - start)
           /\ ValueOf(SubSeq(q, start, last)) = Text(q, e + 1, last - e)
<1> DEFINE p == SubSeq(q, start, last)
           x == e - start + 1
<1>1. /\ p \in Queries /\ Len(p) = last - start + 1
      /\ \A i \in 1..(last - start + 1) : p[i] = q[start + i - 1]
  BY SubSeqIs
<1>2. Len(q) \in Nat /\ DOMAIN p = 1..Len(p) /\ e \in Nat /\ x \in 1..Len(p)
  BY <1>1, QueryOf
<1> HIDE DEF p
<1>3. Signs(p) # {} /\ Min(Signs(p)) = x
  <2>1. p[x] = "="
    <3>1. start + x - 1 = e
      BY <1>2
    <3> QED
      BY <1>1, <1>2, <3>1
  <2>2. x \in Signs(p) /\ Signs(p) \subseteq Int
    BY <1>2, <2>1 DEF Signs
  <2>3. \A y \in Signs(p) : x <= y
    <3> TAKE y \in Signs(p)
    <3>1. y \in 1..Len(p) /\ p[y] = "="
      BY <1>2 DEF Signs
    <3>2. q[start + y - 1] = "="
      BY <1>1, <3>1
    <3>3. ~(start + y - 1 \in start..(e - 1))
      BY <3>2 DEF NoSign
    <3> QED
      BY <1>2, <3>1, <3>3
  <2> QED
    BY <2>2, <2>3, LeastIs
<1>4. Name(p) = SubSeq(p, 1, x - 1) /\ ValueOf(p) = SubSeq(p, x + 1, Len(p))
  BY <1>3 DEF Name, ValueOf
<1>5. SubSeq(p, 1, x - 1) = Text(p, 1, e - start)
  <2>1. x - 1 \in (1 - 1)..Len(p) /\ (x - 1) - 1 + 1 = e - start /\ 1 \in 1..(Len(p) + 1)
    BY <1>2
  <2>2. SubSeq(p, 1, x - 1) = Text(p, 1, (x - 1) - 1 + 1)
    BY <1>1, <2>1, SubSeqIs, Zenon
  <2> QED
    BY <2>1, <2>2, Zenon
<1>6. SubSeq(p, x + 1, Len(p)) = Text(p, x + 1, last - e)
  <2>1. /\ x + 1 \in 1..(Len(p) + 1) /\ Len(p) \in (x + 1 - 1)..Len(p)
        /\ Len(p) - (x + 1) + 1 = last - e
    BY <1>1, <1>2
  <2> DEFINE from == x + 1
             to == Len(p)
  <2>2. p \in Queries /\ from \in 1..(Len(p) + 1) /\ to \in (from - 1)..Len(p)
    BY <1>1, <2>1
  <2> HIDE DEF from, to
  <2>3. SubSeq(p, from, to) = Text(p, from, to - from + 1)
    BY <2>2, SubSeqIs, Zenon
  <2>4. SubSeq(p, x + 1, Len(p)) = Text(p, x + 1, Len(p) - (x + 1) + 1)
    BY <2>3 DEF from, to
  <2> QED
    BY <2>1, <2>4, Zenon
<1>7. Text(p, 1, e - start) = Text(q, start, e - start)
  <2>1. \A i \in 1..(e - start) :
           /\ 1 + i - 1 \in 1..(last - start + 1) /\ 1 + i - 1 <= Len(p)
           /\ start + (1 + i - 1) - 1 = start + i - 1 /\ start + i - 1 <= Len(q)
    BY <1>1, <1>2
  <2> QED
    BY <1>1, <2>1 DEF Text
<1>8. Text(p, x + 1, last - e) = Text(q, e + 1, last - e)
  <2>1. \A i \in 1..(last - e) :
           /\ x + 1 + i - 1 \in 1..(last - start + 1) /\ x + 1 + i - 1 <= Len(p)
           /\ start + (x + 1 + i - 1) - 1 = e + 1 + i - 1 /\ e + 1 + i - 1 <= Len(q)
    BY <1>1, <1>2
  <2> QED
    BY <1>1, <2>1 DEF Text
<1> QED
  BY <1>4, <1>5, <1>6, <1>7, <1>8 DEF p

-----------------------------------------------------------------------------
(* The scan of a query, against its parts *)
NameAt(q, s) == Name(Part(q, s))
ValueAt(q, s) == ValueOf(Part(q, s))
Named(q) == {s \in Starts(q) : NameAt(q, s) # <<>>}
Bare(q) == {s \in Named(q) : ValueAt(q, s) = <<>>}
Good(q) == Named(q) \ Bare(q)
Excess(q) == {s \in Good(q) : Cardinality({t \in Good(q) : t <= s}) > MAX_QUERY_PARAMS}
KeyAt(q, s) == url_unescape(NameAt(q, s))
Before(S, b) == {t \in S : t < b}

Fields == {"state", "key", "key_len", "value", "value_len", "count", "found", "status"}

(* What the scan knows of the part it is in, after the first last characters *)
Within(q, s, last, start) ==
    /\ start \in Starts(q) /\ start <= last + 1 /\ NoAnd(q, start, last)
    /\ s.key = start
    /\ \/ /\ s.state = "key" /\ NoSign(q, start, last)
          /\ s.key_len = last - start + 1 /\ s.value_len = 0
       \/ /\ s.state = "value"
          /\ \E e \in start..last :
                /\ q[e] = "=" /\ NoSign(q, start, e - 1)
                /\ s.key_len = e - start /\ s.value = e + 1 /\ s.value_len = last - e

(* What it has collected from the parts that start before a position *)
Collected(q, s, b) ==
    /\ s.count = Cardinality(Before(Good(q), b)) /\ s.count <= MAX_QUERY_PARAMS
    /\ Before(Bare(q), b) = {}
    /\ s.found = [k \in DOMAIN s.found |-> s.found[k]]
    /\ DOMAIN s.found = {KeyAt(q, t) : t \in Before(Named(q), b)}
    /\ \A t \in Before(Named(q), b) :
          (\A u \in Before(Named(q), b) : KeyAt(q, u) = KeyAt(q, t) => u <= t)
             => s.found[KeyAt(q, t)] = url_unescape(ValueAt(q, t))

(* Why it has stopped *)
Stopped(q, s) ==
    \E t \in Bare(q) \cup Excess(q) :
        /\ \A u \in Bare(q) \cup Excess(q) : t <= u
        /\ s.status = IF t \in Bare(q) THEN "BIZ_BASE_INVALID_URL"
                      ELSE "BIZ_BASE_TOO_MANY_QUERY_PARAMS"

Scanned(q, s, last) ==
    /\ DOMAIN s = Fields
    /\ s.status = "ok" => \E start \in Starts(q) : Within(q, s, last, start) /\ Collected(q, s, start)
    /\ s.status # "ok" => Stopped(q, s)

LEMMA GoodAreFinite ==
    ASSUME NEW q \in Queries, NEW b
    PROVE  /\ Good(q) \subseteq 1..(Len(q) + 1) /\ IsFiniteSet(Good(q))
           /\ IsFiniteSet(Before(Good(q), b))
           /\ Cardinality(Before(Good(q), b)) \in Nat
<1>1. Good(q) \subseteq 1..(Len(q) + 1) /\ Len(q) \in Nat
  BY StartsAre, QueryOf DEF Good, Named
<1>2. IsFiniteSet(1..(Len(q) + 1))
  BY <1>1, FS_Interval
<1>3. IsFiniteSet(Good(q))
  BY <1>1, <1>2, FS_Subset
<1>4. Before(Good(q), b) \in SUBSET Good(q)
  BY DEF Before
<1>5. IsFiniteSet(Before(Good(q), b))
  BY <1>3, <1>4, FS_Subset
<1> QED
  BY <1>1, <1>3, <1>5, FS_CardinalityType

(* The part at hand is the one that the scan has measured. *)
LEMMA PartRead ==
    ASSUME NEW q \in Queries, NEW last \in 0..Len(q), NEW s, NEW start,
           Within(q, s, last, start), Ends(q, last)
    PROVE  /\ NameAt(q, start) = Text(q, s.key, s.key_len)
           /\ s.key_len = 0 <=> NameAt(q, start) = <<>>
           /\ s.value_len = 0 <=> ValueAt(q, start) = <<>>
           /\ s.value_len # 0 => ValueAt(q, start) = Text(q, s.value, s.value_len)
<1>1. /\ Len(q) \in Nat /\ start \in 1..(Len(q) + 1) /\ last \in (start - 1)..Len(q)
      /\ NoAnd(q, start, last) /\ s.key = start
  BY QueryOf, StartsAre DEF Within
<1>2. Part(q, start) = SubSeq(q, start, last)
  BY <1>1, PartIs
<1>3. CASE /\ NoSign(q, start, last)
           /\ s.key_len = last - start + 1 /\ s.value_len = 0
  <2>1. NameAt(q, start) = Text(q, start, last - start + 1) /\ ValueAt(q, start) = <<>>
    BY <1>1, <1>2, <1>3, BareNames DEF NameAt, ValueAt
  <2>2. s.key_len \in Nat
    BY <1>1, <1>3
  <2> QED
    BY <1>1, <1>3, <2>1, <2>2, TextIsEmpty
<1>4. CASE \E e \in start..last :
              /\ q[e] = "=" /\ NoSign(q, start, e - 1)
              /\ s.key_len = e - start /\ s.value = e + 1 /\ s.value_len = last - e
  <2>1. PICK e \in start..last :
              /\ q[e] = "=" /\ NoSign(q, start, e - 1)
              /\ s.key_len = e - start /\ s.value = e + 1 /\ s.value_len = last - e
    BY <1>4
  <2>2. NameAt(q, start) = Text(q, start, e - start) /\ ValueAt(q, start) = Text(q, e + 1, last - e)
    BY <1>1, <1>2, <2>1, CutNames DEF NameAt, ValueAt
  <2>3. s.key_len \in Nat /\ s.value_len \in Nat
    BY <1>1, <2>1
  <2> QED
    BY <1>1, <2>1, <2>2, <2>3, TextIsEmpty
<1> QED
  BY <1>3, <1>4 DEF Within

LEMMA CountUp ==
    ASSUME NEW q \in Queries, NEW start \in Good(q)
    PROVE  Cardinality({t \in Good(q) : t <= start}) = Cardinality(Before(Good(q), start)) + 1
<1>1. Good(q) \subseteq 1..(Len(q) + 1)
  BY GoodAreFinite
<1>2. {t \in Good(q) : t <= start} = Before(Good(q), start) \cup {start}
  BY <1>1 DEF Before
<1>3. start \notin Before(Good(q), start) /\ IsFiniteSet(Before(Good(q), start))
  <2>1. start \in Int
    BY <1>1, QueryOf
  <2>2. start \notin Before(Good(q), start)
    BY <2>1 DEF Before
  <2> QED
    BY <2>2, GoodAreFinite, Zenon
<1> QED
  BY <1>2, <1>3, FS_AddElement

(* Nothing before the part at hand is an error. *)
LEMMA NoErrorBefore ==
    ASSUME NEW q \in Queries, NEW s, NEW b \in Nat, Collected(q, s, b)
    PROVE  \A u \in Bare(q) \cup Excess(q) : b <= u
<1>1. Good(q) \subseteq 1..(Len(q) + 1) /\ Len(q) \in Nat /\ Starts(q) \subseteq 1..(Len(q) + 1)
  BY GoodAreFinite, QueryOf, StartsAre
<1>2. ASSUME NEW u \in Bare(q) PROVE b <= u
  <2>1. u \in Nat /\ u \notin Before(Bare(q), b)
    BY <1>1 DEF Collected, Bare, Named
  <2> QED
    BY <2>1 DEF Before
<1>3. ASSUME NEW u \in Excess(q), u < b PROVE FALSE
  <2> DEFINE T == {t \in Good(q) : t <= u}
             B == Before(Good(q), b)
  <2>1. T \in SUBSET B
    BY <1>1, <1>3 DEF Before, Excess
  <2>2. IsFiniteSet(B) /\ Cardinality(B) \in Nat /\ Cardinality(B) <= MAX_QUERY_PARAMS
    BY GoodAreFinite DEF Collected
  <2>3. Cardinality(T) > MAX_QUERY_PARAMS
    BY DEF Excess
  <2> HIDE DEF T, B
  <2>4. IsFiniteSet(T) /\ Cardinality(T) <= Cardinality(B)
    BY <2>1, <2>2, FS_Subset
  <2>5. Cardinality(T) \in Nat
    BY <2>4, FS_CardinalityType
  <2> QED
    BY <2>2, <2>3, <2>4, <2>5, LimitsAssumption
<1>4. ASSUME NEW u \in Excess(q) PROVE b <= u
  <2>1. u \in Nat
    BY <1>1 DEF Excess
  <2> QED
    BY <1>3, <2>1
<1> QED
  BY <1>2, <1>4

(* The part at hand is settled, up to where the next one may start. *)
LEMMA ParamEnded ==
    ASSUME NEW q \in Queries, NEW last \in 0..Len(q), NEW s, NEW start \in Starts(q), NEW b \in Nat,
           DOMAIN s = Fields, s.status = "ok",
           Within(q, s, last, start), Collected(q, s, start), Ends(q, last),
           start < b, \A t \in Starts(q) : t > start => t >= b
    PROVE  /\ DOMAIN EndParam(q, s) = Fields
           /\ EndParam(q, s).status = "ok" => Collected(q, EndParam(q, s), b)
           /\ EndParam(q, s).status # "ok" => Stopped(q, EndParam(q, s))
<1> DEFINE e == EndParam(q, s)
           key == url_unescape(Text(q, s.key, s.key_len))
           value == url_unescape(Text(q, s.value, s.value_len))
<1>1. /\ NameAt(q, start) = Text(q, s.key, s.key_len)
      /\ s.key_len = 0 <=> NameAt(q, start) = <<>>
      /\ s.value_len = 0 <=> ValueAt(q, start) = <<>>
      /\ s.value_len # 0 => ValueAt(q, start) = Text(q, s.value, s.value_len)
  BY PartRead
<1>2. start \in Nat /\ Starts(q) \subseteq Nat
  BY StartsAre, QueryOf
<1>3. \A u \in Bare(q) \cup Excess(q) : start <= u
  BY <1>2, NoErrorBefore
<1>4. ASSUME NEW S, S \subseteq Starts(q)
      PROVE  Before(S, b) = IF start \in S THEN Before(S, start) \cup {start} ELSE Before(S, start)
  <2>1. \A t \in S : t < b <=> t < start \/ t = start
    BY <1>2, <1>4
  <2> QED
    BY <2>1 DEF Before
<1>5. Named(q) \subseteq Starts(q) /\ Bare(q) \subseteq Starts(q) /\ Good(q) \subseteq Starts(q)
  BY DEF Named, Bare, Good
<1>6. CASE s.key_len = 0
  <2>1. e = s
    BY <1>6 DEF EndParam
  <2>2. start \notin Named(q) /\ start \notin Bare(q) /\ start \notin Good(q)
    BY <1>1, <1>6 DEF Named, Bare, Good
  <2>3. /\ Before(Named(q), b) = Before(Named(q), start)
        /\ Before(Bare(q), b) = Before(Bare(q), start)
        /\ Before(Good(q), b) = Before(Good(q), start)
    BY <1>4, <1>5, <2>2
  <2> HIDE DEF e
  <2>4. Collected(q, s, b)
    BY <2>3 DEF Collected
  <2> QED
    BY <2>1, <2>4, Zenon DEF e
<1>7. CASE s.key_len # 0 /\ s.value_len = 0
  <2>1. e = [s EXCEPT !.status = "BIZ_BASE_INVALID_URL"]
    BY <1>7 DEF EndParam
  <2>2. start \in Bare(q)
    BY <1>1, <1>7 DEF Bare, Named
  <2> HIDE DEF e
  <2>3. DOMAIN e = Fields /\ e.status = "BIZ_BASE_INVALID_URL"
    BY <2>1 DEF Fields
  <2>4. Stopped(q, e)
    BY <1>3, <2>2, <2>3 DEF Stopped
  <2> QED
    BY <2>3, <2>4 DEF e
<1>8. CASE s.key_len # 0 /\ s.value_len # 0 /\ s.count = MAX_QUERY_PARAMS
  <2>1. e = [s EXCEPT !.status = "BIZ_BASE_TOO_MANY_QUERY_PARAMS"]
    BY <1>8 DEF EndParam
  <2>2. start \in Good(q) /\ start \notin Bare(q)
    BY <1>1, <1>8 DEF Good, Bare, Named
  <2>3. start \in Excess(q)
    <3>1. Cardinality({t \in Good(q) : t <= start}) = MAX_QUERY_PARAMS + 1
      BY <1>8, <2>2, CountUp DEF Collected
    <3>2. MAX_QUERY_PARAMS + 1 > MAX_QUERY_PARAMS
      BY LimitsAssumption
    <3> QED
      BY <2>2, <3>1, <3>2, Zenon DEF Excess
  <2> HIDE DEF e
  <2>4. DOMAIN e = Fields /\ e.status = "BIZ_BASE_TOO_MANY_QUERY_PARAMS"
    BY <2>1 DEF Fields
  <2>5. Stopped(q, e)
    BY <1>3, <2>2, <2>3, <2>4 DEF Stopped
  <2> QED
    BY <2>4, <2>5 DEF e
<1>9. CASE s.key_len # 0 /\ s.value_len # 0 /\ s.count # MAX_QUERY_PARAMS
  <2> DEFINE found == [k \in DOMAIN s.found \cup {key} |-> IF k = key THEN value ELSE s.found[k]]
  <2>1. e = [s EXCEPT !.count = @ + 1, !.found = found]
    BY <1>9 DEF EndParam
  <2>2. start \in Good(q) /\ start \in Named(q) /\ start \notin Bare(q)
    BY <1>1, <1>9 DEF Good, Bare, Named
  <2>3. key = KeyAt(q, start) /\ value = url_unescape(ValueAt(q, start))
    BY <1>1, <1>9, Zenon DEF KeyAt
  <2> HIDE DEF e, key, value
  <2>4. DOMAIN e = Fields /\ e.status = "ok" /\ e.count = s.count + 1 /\ e.found = found
    BY <2>1 DEF Fields
  <2>5. /\ Before(Named(q), b) = Before(Named(q), start) \cup {start}
        /\ Before(Bare(q), b) = Before(Bare(q), start)
        /\ Before(Good(q), b) = Before(Good(q), start) \cup {start}
    BY <1>4, <1>5, <2>2
  <2>6. e.count = Cardinality(Before(Good(q), b)) /\ e.count <= MAX_QUERY_PARAMS
    <3>1. /\ Cardinality(Before(Good(q), start)) \in Nat /\ IsFiniteSet(Before(Good(q), start))
          /\ start \notin Before(Good(q), start)
      <4>1. start \notin Before(Good(q), start)
        BY <1>2 DEF Before
      <4> QED
        BY <4>1, GoodAreFinite, Zenon
    <3>2. Cardinality(Before(Good(q), b)) = Cardinality(Before(Good(q), start)) + 1
      BY <2>5, <3>1, FS_AddElement
    <3>3. s.count = Cardinality(Before(Good(q), start)) /\ s.count <= MAX_QUERY_PARAMS
      BY DEF Collected
    <3> QED
      BY <1>9, <2>4, <3>1, <3>2, <3>3, LimitsAssumption
  <2>7. DOMAIN found = {KeyAt(q, t) : t \in Before(Named(q), b)}
    <3>1. DOMAIN found = {KeyAt(q, t) : t \in Before(Named(q), start)} \cup {KeyAt(q, start)}
      BY <2>3 DEF Collected
    <3> QED
      BY <2>5, <3>1
  <2>8. ASSUME NEW t \in Before(Named(q), b),
               \A u \in Before(Named(q), b) : KeyAt(q, u) = KeyAt(q, t) => u <= t
        PROVE  found[KeyAt(q, t)] = url_unescape(ValueAt(q, t))
    <3>1. CASE t = start
      BY <2>3, <3>1
    <3>2. CASE t # start
      <4>1. t \in Before(Named(q), start) /\ start \in Before(Named(q), b)
        BY <2>5, <3>2
      <4>2. t < start /\ t \in Nat
        BY <1>2, <1>5, <4>1 DEF Before
      <4>3. KeyAt(q, t) # key
        BY <1>2, <2>3, <2>8, <4>1, <4>2
      <4>4. \A u \in Before(Named(q), start) : KeyAt(q, u) = KeyAt(q, t) => u <= t
        BY <2>5, <2>8
      <4>5. s.found[KeyAt(q, t)] = url_unescape(ValueAt(q, t))
        BY <4>1, <4>4, Zenon DEF Collected
      <4>6. KeyAt(q, t) \in DOMAIN s.found
        BY <4>1 DEF Collected
      <4> QED
        BY <4>3, <4>5, <4>6
    <3> QED
      BY <3>1, <3>2
  <2>9. found = [k \in DOMAIN found |-> found[k]]
    OBVIOUS
  <2>10. Before(Bare(q), b) = {}
    BY <2>5 DEF Collected
  <2> HIDE DEF found
  <2>11. Collected(q, e, b)
    BY <2>4, <2>6, <2>7, <2>8, <2>9, <2>10, Zenon DEF Collected
  <2> QED
    BY <2>4, <2>11 DEF e
<1> QED
  BY <1>6, <1>7, <1>8, <1>9

OneSignEach(q) == \A s \in Starts(q) : Cardinality(Signs(Part(q, s))) <= 1

(* A part has no second '='. *)
LEMMA NoSecondSign ==
    ASSUME NEW q \in Queries, OneSignEach(q), NEW start \in Starts(q),
           NEW i \in 1..Len(q), NEW e \in start..(i - 1),
           NoAnd(q, start, i), q[e] = "=", q[i] = "="
    PROVE  FALSE
<1>1. Len(q) \in Nat /\ start \in 1..(Len(q) + 1)
  BY QueryOf, StartsAre
<1>2. PICK last \in (start - 1)..Len(q) : NoAnd(q, start, last) /\ Ends(q, last)
  BY <1>1, PartEnds
<1>3. i <= last
  <2>1. \A j \in start..i : q[j] # "&"
    BY DEF NoAnd
  <2> QED
    BY <1>1, <1>2, <2>1 DEF Ends
<1> DEFINE p == SubSeq(q, start, last)
           x == e - start + 1
           y == i - start + 1
<1>4. /\ Part(q, start) = p /\ p \in Queries /\ Len(p) = last - start + 1
      /\ \A j \in 1..(last - start + 1) : p[j] = q[start + j - 1]
  BY <1>1, <1>2, PartIs, SubSeqIs
<1>5. DOMAIN p = 1..Len(p) /\ Len(p) \in Nat
  BY <1>4, QueryOf
<1>6. x \in 1..Len(p) /\ y \in 1..Len(p) /\ x # y /\ start + x - 1 = e /\ start + y - 1 = i
  BY <1>1, <1>3, <1>4
<1> HIDE DEF p, x, y
<1>7. p[x] = "=" /\ p[y] = "="
  BY <1>4, <1>6
<1>8. {x, y} \in SUBSET Signs(p) /\ Signs(p) \in SUBSET (1..Len(p))
  BY <1>5, <1>6, <1>7 DEF Signs
<1>9. IsFiniteSet(1..Len(p))
  BY <1>5, FS_Interval
<1>10. IsFiniteSet(Signs(p))
  BY <1>8, <1>9, FS_Subset
<1>11. Cardinality({x, y}) = 2
  <2>1. {x, y} = {x} \cup {y} /\ y \notin {x}
    BY <1>6
  <2>2. IsFiniteSet({x}) /\ Cardinality({x}) = 1
    BY FS_Singleton
  <2>3. Cardinality({x} \cup {y}) = IF y \in {x} THEN Cardinality({x}) ELSE Cardinality({x}) + 1
    BY <2>2, FS_AddElement, Zenon
  <2>4. Cardinality({x} \cup {y}) = Cardinality({x}) + 1
    BY <2>1, <2>3, Zenon
  <2>5. Cardinality({x}) + 1 = 2
    BY <2>2
  <2> QED
    BY <2>1, <2>4, <2>5, Zenon
<1>12. Cardinality({x, y}) <= Cardinality(Signs(p)) /\ Cardinality(Signs(p)) \in Nat
  BY <1>8, <1>10, FS_Subset, FS_CardinalityType
<1>13. Cardinality(Signs(p)) <= 1
  BY <1>4 DEF OneSignEach
<1> QED
  BY <1>11, <1>12, <1>13

(* One character more *)
LEMMA CharScanned ==
    ASSUME NEW q \in Queries, OneSignEach(q), NEW i \in 1..Len(q), NEW s, Scanned(q, s, i - 1)
    PROVE  Scanned(q, ScanChar(q, s, i), i)
<1> DEFINE n == ScanChar(q, s, i)
<1>1. Len(q) \in Nat /\ i \in Nat /\ i - 1 \in 0..Len(q) /\ i - 1 \in Nat /\ (i - 1) + 1 = i
  BY QueryOf
<1>2. DOMAIN s = Fields
  BY DEF Scanned
<1>3. CASE s.status # "ok"
  <2>1. n = s
    BY <1>3 DEF ScanChar
  <2>2. Scanned(q, s, i)
    BY <1>3 DEF Scanned
  <2> QED
    BY <2>1, <2>2
<1>4. CASE s.status = "ok"
  <2>1. PICK start \in Starts(q) : Within(q, s, i - 1, start) /\ Collected(q, s, start)
    BY <1>4, Zenon DEF Scanned
  <2>2. start \in 1..(Len(q) + 1) /\ start <= i /\ NoAnd(q, start, i - 1) /\ s.key = start
    BY <1>1, <2>1, StartsAre DEF Within
  <2>6. start \in Starts(q) /\ start <= i + 1 /\ s.key = start
    BY <1>1, <2>1, <2>2
  <2>3. CASE q[i] = "&"
    <3> DEFINE e == EndParam(q, s)
    <3>1. n = [e EXCEPT !.state = "key", !.key = i + 1, !.key_len = 0, !.value_len = 0]
      BY <1>4, <2>3 DEF ScanChar
    <3>2. Ends(q, i - 1)
      BY <1>1, <2>3 DEF Ends
    <3>3. \A t \in Starts(q) : t > start => t >= i + 1
      <4>1. \A t \in Starts(q) : t > start => t > (i - 1) + 1
        BY <1>1, <2>2, NextStarts
      <4> QED
        BY <4>1, <1>1, StartsAre
    <3>4. /\ DOMAIN e = Fields
          /\ e.status = "ok" => Collected(q, e, i + 1)
          /\ e.status # "ok" => Stopped(q, e)
      <4>1. start < i + 1 /\ i + 1 \in Nat
        BY <1>1, <2>2
      <4> QED
        BY <1>1, <1>2, <1>4, <2>1, <3>2, <3>3, <4>1, ParamEnded, Zenon
    <3> HIDE DEF n, e
    <3>5. /\ DOMAIN n = Fields /\ n.status = e.status /\ n.count = e.count /\ n.found = e.found
          /\ n.state = "key" /\ n.key = i + 1 /\ n.key_len = 0 /\ n.value_len = 0
      BY <3>1, <3>4 DEF Fields
    <3>6. i + 1 \in Starts(q) /\ NoAnd(q, i + 1, i) /\ NoSign(q, i + 1, i) /\ i - (i + 1) + 1 = 0
      BY <1>1, <2>3, StartsAre DEF NoAnd, NoSign
    <3>7. Within(q, n, i, i + 1)
      BY <1>1, <3>5, <3>6 DEF Within
    <3>8. n.status = "ok" => Collected(q, n, i + 1)
      BY <3>4, <3>5, Zenon DEF Collected
    <3>9. n.status # "ok" => Stopped(q, n)
      BY <3>4, <3>5, Zenon DEF Stopped
    <3>10. Scanned(q, n, i)
      BY <3>5, <3>6, <3>7, <3>8, <3>9, Zenon DEF Scanned
    <3> QED
      BY <3>10 DEF n
  <2>4. CASE q[i] = "="
    <3>1. n = [s EXCEPT !.state = "value", !.value = i + 1]
      BY <1>4, <2>4 DEF ScanChar
    <3> HIDE DEF n
    <3>2. /\ DOMAIN n = Fields /\ n.status = "ok" /\ n.count = s.count /\ n.found = s.found
          /\ n.state = "value" /\ n.value = i + 1
          /\ n.key = s.key /\ n.key_len = s.key_len /\ n.value_len = s.value_len
      BY <1>2, <1>4, <3>1 DEF Fields
    <3>3. NoAnd(q, start, i)
      BY <1>1, <2>2, <2>4 DEF NoAnd
    <3>4. NoSign(q, start, i - 1) /\ s.key_len = (i - 1) - start + 1 /\ s.value_len = 0
      <4>1. SUFFICES ASSUME NEW e \in start..(i - 1), q[e] = "=" PROVE FALSE
        BY <2>1 DEF Within
      <4> QED
        BY <1>1, <2>2, <2>4, <3>3, <4>1, NoSecondSign
    <3>5. i \in start..i /\ i - start = s.key_len /\ i - i = 0
      BY <1>1, <2>2, <3>4
    <3>9. s.key_len = i - start
      BY <1>1, <2>2, <3>4
    <3>6. Within(q, n, i, start)
      BY <2>4, <2>6, <3>2, <3>3, <3>4, <3>5, <3>9, Zenon DEF Within
    <3>7. Collected(q, n, start)
      BY <2>1, <3>2, Zenon DEF Collected
    <3>8. Scanned(q, n, i)
      BY <3>2, <3>6, <3>7, Zenon DEF Scanned
    <3> QED
      BY <3>8 DEF n
  <2>5. CASE q[i] # "&" /\ q[i] # "="
    <3>1. NoAnd(q, start, i)
      BY <1>1, <2>2, <2>5 DEF NoAnd
    <3>2. CASE s.state = "key"
      <4>1. n = [s EXCEPT !.key_len = @ + 1]
        BY <1>4, <2>5, <3>2 DEF ScanChar
      <4> HIDE DEF n
      <4>2. /\ DOMAIN n = Fields /\ n.status = "ok" /\ n.count = s.count /\ n.found = s.found
            /\ n.state = "key" /\ n.key = s.key /\ n.key_len = s.key_len + 1
            /\ n.value_len = s.value_len
        BY <1>2, <1>4, <3>2, <4>1 DEF Fields
      <4>3. NoSign(q, start, i - 1) /\ s.key_len = (i - 1) - start + 1 /\ s.value_len = 0
        BY <2>1, <3>2 DEF Within
      <4>4. NoSign(q, start, i) /\ n.key_len = i - start + 1
        BY <1>1, <2>2, <2>5, <4>2, <4>3 DEF NoSign
      <4>5. Within(q, n, i, start)
        BY <2>6, <3>1, <4>2, <4>3, <4>4, Zenon DEF Within
      <4>6. Collected(q, n, start)
        BY <2>1, <4>2, Zenon DEF Collected
      <4>7. Scanned(q, n, i)
        BY <4>2, <4>5, <4>6, Zenon DEF Scanned
      <4> QED
        BY <4>7 DEF n
    <3>3. CASE s.state # "key"
      <4>1. n = [s EXCEPT !.value_len = @ + 1]
        BY <1>4, <2>5, <3>3 DEF ScanChar
      <4> HIDE DEF n
      <4>2. /\ DOMAIN n = Fields /\ n.status = "ok" /\ n.count = s.count /\ n.found = s.found
            /\ n.state = s.state /\ n.key = s.key /\ n.key_len = s.key_len
            /\ n.value = s.value /\ n.value_len = s.value_len + 1
        BY <1>2, <1>4, <4>1 DEF Fields
      <4>3. PICK e \in start..(i - 1) :
               /\ q[e] = "=" /\ NoSign(q, start, e - 1)
               /\ s.key_len = e - start /\ s.value = e + 1 /\ s.value_len = (i - 1) - e
        BY <2>1, <3>3 DEF Within
      <4>4. e \in start..i /\ n.value_len = i - e /\ s.state = "value"
        BY <1>1, <2>1, <2>2, <3>3, <4>2, <4>3 DEF Within
      <4>5. Within(q, n, i, start)
        BY <2>6, <3>1, <4>2, <4>3, <4>4, Zenon DEF Within
      <4>6. Collected(q, n, start)
        BY <2>1, <4>2, Zenon DEF Collected
      <4>7. Scanned(q, n, i)
        BY <4>2, <4>5, <4>6, Zenon DEF Scanned
      <4> QED
        BY <4>7 DEF n
    <3> QED
      BY <3>2, <3>3
  <2> QED
    BY <2>3, <2>4, <2>5
<1> QED
  BY <1>3, <1>4

(* The states that the scan goes through *)
States(q) == CHOOSE f : f = [i \in 0..Len(q) |->
                                IF i = 0 THEN ScanStart ELSE ScanChar(q, f[i - 1], i)]

LEMMA ScanIs ==
    ASSUME NEW q
    PROVE  Scan(q) = IF States(q)[Len(q)].status = "ok" THEN EndParam(q, States(q)[Len(q)])
                     ELSE States(q)[Len(q)]
BY DEF Scan, States

LEMMA StatesExist ==
    ASSUME NEW q \in Queries
    PROVE  \E f : f = [i \in 0..Len(q) |-> IF i = 0 THEN ScanStart ELSE ScanChar(q, f[i - 1], i)]
<1> DEFINE Upto(k) == \E f : f = [i \in 0..k |-> IF i = 0 THEN ScanStart ELSE ScanChar(q, f[i - 1], i)]
           S == {k \in Nat : Upto(k)}
<1>1. 0 \in S
  <2> DEFINE f == [i \in 0..0 |-> ScanStart]
  <2>1. \A i \in 0..0 : i = 0
    OBVIOUS
  <2>2. f = [i \in 0..0 |-> IF i = 0 THEN ScanStart ELSE ScanChar(q, f[i - 1], i)]
    BY <2>1, Zenon
  <2> HIDE DEF f
  <2>3. Upto(0)
    BY <2>2, Zenon
  <2> QED
    BY <2>3, Zenon
<1>2. ASSUME NEW k \in Nat, k \in S PROVE k + 1 \in S
  <2>1. PICK f : f = [i \in 0..k |-> IF i = 0 THEN ScanStart ELSE ScanChar(q, f[i - 1], i)]
    BY <1>2, Zenon
  <2> DEFINE g == [i \in 0..(k + 1) |-> IF i = k + 1 THEN ScanChar(q, f[k], k + 1) ELSE f[i]]
  <2>2. ASSUME NEW i \in 0..(k + 1)
        PROVE  g[i] = IF i = 0 THEN ScanStart ELSE ScanChar(q, g[i - 1], i)
    <3>1. CASE i = k + 1
      <4>1. i # 0 /\ i - 1 = k /\ k \in 0..(k + 1) /\ k # k + 1
        BY <3>1
      <4>2. g[k] = f[k]
        BY <4>1, Zenon
      <4>3. g[i] = ScanChar(q, f[k], k + 1)
        BY <3>1, Zenon
      <4> HIDE DEF g
      <4> QED
        BY <3>1, <4>1, <4>2, <4>3, Zenon
    <3>2. CASE i # k + 1 /\ i # 0
      <4>1. i \in 0..k /\ i - 1 \in 0..(k + 1) /\ i - 1 # k + 1
        BY <3>2
      <4>2. g[i] = f[i] /\ g[i - 1] = f[i - 1]
        BY <3>2, <4>1, Zenon
      <4>3. f[i] = ScanChar(q, f[i - 1], i)
        BY <2>1, <3>2, <4>1, Zenon
      <4> HIDE DEF g
      <4> QED
        BY <3>2, <4>2, <4>3, Zenon
    <3>3. CASE i # k + 1 /\ i = 0
      <4>1. 0 \in 0..k
        OBVIOUS
      <4>2. f[0] = ScanStart
        BY <2>1, <4>1, Zenon
      <4>3. g[i] = f[i]
        BY <3>3, Zenon
      <4> HIDE DEF g
      <4> QED
        BY <3>3, <4>2, <4>3, Zenon
    <3> QED
      BY <3>1, <3>2, <3>3, Zenon
  <2>3. g = [i \in 0..(k + 1) |-> g[i]]
    BY Zenon
  <2> HIDE DEF g
  <2>4. g = [i \in 0..(k + 1) |-> IF i = 0 THEN ScanStart ELSE ScanChar(q, g[i - 1], i)]
    BY <2>2, <2>3, Zenon
  <2>5. Upto(k + 1)
    BY <2>4, Zenon
  <2>6. k + 1 \in Nat
    OBVIOUS
  <2> QED
    BY <2>5, <2>6, Zenon
<1>3. Len(q) \in S
  <2> HIDE DEF S
  <2>1. Len(q) \in Nat
    BY QueryOf
  <2> QED
    BY <1>1, <1>2, <2>1, SetInduction
<1> QED
  BY <1>3, Zenon

LEMMA StatesAre ==
    ASSUME NEW q \in Queries
    PROVE  /\ States(q)[0] = ScanStart
           /\ \A i \in 1..Len(q) : States(q)[i] = ScanChar(q, States(q)[i - 1], i)
<1> DEFINE f == States(q)
<1>1. f = [i \in 0..Len(q) |-> IF i = 0 THEN ScanStart ELSE ScanChar(q, f[i - 1], i)]
  BY StatesExist, Zenon DEF States
<1> HIDE DEF f
<1>2. 0 \in 0..Len(q) /\ \A i \in 1..Len(q) : i \in 0..Len(q) /\ i # 0
  BY QueryOf
<1>3. f[0] = ScanStart
  BY <1>1, <1>2, Zenon
<1>4. \A i \in 1..Len(q) : f[i] = ScanChar(q, f[i - 1], i)
  BY <1>1, <1>2, Zenon
<1> QED
  BY <1>3, <1>4, Zenon DEF f

LEMMA AllScanned ==
    ASSUME NEW q \in Queries, OneSignEach(q)
    PROVE  Scanned(q, States(q)[Len(q)], Len(q))
<1> DEFINE f == States(q)
           S == {k \in Nat : k <= Len(q) => Scanned(q, f[k], k)}
<1>1. Len(q) \in Nat /\ f[0] = ScanStart /\ \A i \in 1..Len(q) : f[i] = ScanChar(q, f[i - 1], i)
  BY QueryOf, StatesAre
<1> HIDE DEF f
<1>2. Scanned(q, f[0], 0)
  <2> DEFINE s == ScanStart
  <2>1. /\ DOMAIN s = Fields /\ s.status = "ok" /\ s.state = "key" /\ s.key = 1 /\ s.key_len = 0
        /\ s.value_len = 0 /\ s.count = 0 /\ s.found = <<>>
    BY DEF ScanStart, Fields
  <2> HIDE DEF s
  <2>2. 1 \in Starts(q) /\ NoAnd(q, 1, 0) /\ NoSign(q, 1, 0) /\ 0 - 1 + 1 = 0
    BY StartsAre DEF NoAnd, NoSign
  <2>3. Within(q, s, 0, 1)
    BY <2>1, <2>2 DEF Within
  <2>4. \A S1 : S1 \subseteq Starts(q) => Before(S1, 1) = {}
    BY <1>1, StartsAre DEF Before
  <2>5. Before(Good(q), 1) = {} /\ Before(Bare(q), 1) = {} /\ Before(Named(q), 1) = {}
    BY <2>4 DEF Named, Bare, Good
  <2>6. s.count = Cardinality(Before(Good(q), 1)) /\ s.count <= MAX_QUERY_PARAMS
    <3>1. Cardinality(Before(Good(q), 1)) = 0
      BY <2>5, FS_EmptySet, Zenon
    <3> QED
      BY <2>1, <3>1, LimitsAssumption
  <2>7. /\ s.found = [k \in DOMAIN s.found |-> s.found[k]]
        /\ DOMAIN s.found = {KeyAt(q, t) : t \in Before(Named(q), 1)}
    BY <2>1, <2>5
  <2>8. Collected(q, s, 1)
    BY <2>5, <2>6, <2>7 DEF Collected
  <2>9. Scanned(q, s, 0)
    BY <2>1, <2>2, <2>3, <2>8, Zenon DEF Scanned
  <2> QED
    BY <1>1, <2>9 DEF s
<1>3. 0 \in S
  BY <1>2, Zenon
<1>4. ASSUME NEW k \in Nat, k \in S PROVE k + 1 \in S
  <2>1. ASSUME k + 1 <= Len(q) PROVE Scanned(q, f[k + 1], k + 1)
    <3>1. k + 1 \in 1..Len(q) /\ k <= Len(q) /\ (k + 1) - 1 = k
      BY <1>1, <2>1
    <3>2. Scanned(q, f[(k + 1) - 1], (k + 1) - 1)
      BY <1>4, <3>1, Zenon
    <3>3. Scanned(q, ScanChar(q, f[(k + 1) - 1], k + 1), k + 1)
      BY <3>1, <3>2, CharScanned, Zenon
    <3> QED
      BY <1>1, <3>1, <3>3, Zenon
  <2>2. k + 1 \in Nat
    OBVIOUS
  <2> QED
    BY <2>1, <2>2, Zenon
<1>5. Len(q) \in S
  <2> HIDE DEF S
  <2> QED
    BY <1>1, <1>3, <1>4, SetInduction
<1>6. Scanned(q, f[Len(q)], Len(q))
  <2>1. Len(q) <= Len(q)
    BY <1>1
  <2> QED
    BY <1>5, <2>1, Zenon
<1> QED
  BY <1>6 DEF f

(* The parameters found are those of the query's parts. *)
LastNamed(q, k) == CHOOSE s \in Named(q) : KeyAt(q, s) = k
                  /\ \A t \in Named(q) : KeyAt(q, t) = k => t <= s

LEMMA ParamsOfIs ==
    ASSUME NEW q
    PROVE  ParamsOf(q) =
              IF Bare(q) \cup Excess(q) = {}
              THEN [status |-> "ok",
                    found |-> [k \in {KeyAt(q, s) : s \in Named(q)} |->
                                  url_unescape(ValueAt(q, LastNamed(q, k)))]]
              ELSE [status |-> IF Min(Bare(q) \cup Excess(q)) \in Bare(q) THEN "BIZ_BASE_INVALID_URL"
                               ELSE "BIZ_BASE_TOO_MANY_QUERY_PARAMS",
                    found |-> <<>>]
BY DEF ParamsOf, Bare, Excess, Good, Named, NameAt, ValueAt, KeyAt, LastNamed

LEMMA LastExists ==
    ASSUME NEW q \in Queries, NEW s \in Named(q)
    PROVE  LET l == LastNamed(q, KeyAt(q, s)) IN
           l \in Named(q) /\ KeyAt(q, l) = KeyAt(q, s)
           /\ \A t \in Named(q) : KeyAt(q, t) = KeyAt(q, s) => t <= l
<1> DEFINE k == KeyAt(q, s)
           S == {t \in Named(q) : KeyAt(q, t) = k}
<1>1. Named(q) \subseteq 0..(Len(q) + 1) /\ Len(q) + 1 \in Nat
  BY QueryOf, StartsAre DEF Named
<1>2. S \subseteq 0..(Len(q) + 1) /\ S # {}
  BY <1>1
<1> HIDE DEF k
<1>3. \E l \in S : \A t \in S : t <= l
  <2> HIDE DEF S
  <2> QED
    BY <1>1, <1>2, GreatestExists
<1>4. \E l \in Named(q) : KeyAt(q, l) = k /\ \A t \in Named(q) : KeyAt(q, t) = k => t <= l
  BY <1>3, Zenon
<1> DEFINE l == LastNamed(q, k)
<1>5. l \in Named(q) /\ KeyAt(q, l) = k /\ \A t \in Named(q) : KeyAt(q, t) = k => t <= l
  BY <1>4, Zenon DEF LastNamed
<1> QED
  BY <1>5, Zenon DEF k

LEMMA ScanFindsParams ==
    ASSUME NEW q \in Queries, OneSignEach(q)
    PROVE  [status |-> Scan(q).status,
            found |-> IF Scan(q).status = "ok" THEN Scan(q).found ELSE <<>>] = ParamsOf(q)
<1> DEFINE s == States(q)[Len(q)]
           e == Scan(q)
           errors == Bare(q) \cup Excess(q)
<1>1. Len(q) \in Nat /\ Starts(q) \subseteq 1..(Len(q) + 1)
  BY QueryOf, StartsAre
<1>2. Scanned(q, s, Len(q))
  BY AllScanned
<1>3. e = IF s.status = "ok" THEN EndParam(q, s) ELSE s
  BY ScanIs
<1> HIDE DEF s, e
<1>4. (e.status = "ok" => Collected(q, e, Len(q) + 2)) /\ (e.status # "ok" => Stopped(q, e))
  <2>1. CASE s.status # "ok"
    BY <1>2, <1>3, <2>1 DEF Scanned
  <2>2. CASE s.status = "ok"
    <3>1. PICK start \in Starts(q) : Within(q, s, Len(q), start) /\ Collected(q, s, start)
      BY <1>2, <2>2, Zenon DEF Scanned
    <3>2. /\ start < Len(q) + 2 /\ Len(q) + 2 \in Nat /\ Len(q) \in 0..Len(q)
          /\ \A t \in Starts(q) : t > start => t >= Len(q) + 2
      <4>1. \A t \in Starts(q) : t > start => t > Len(q) + 1
        BY <1>1, <3>1, NextStarts DEF Within
      <4> QED
        BY <1>1, <4>1
    <3>3. Ends(q, Len(q)) /\ DOMAIN s = Fields
      BY <1>2 DEF Ends, Scanned
    <3>4. e = EndParam(q, s)
      BY <1>3, <2>2
    <3>5. /\ EndParam(q, s).status = "ok" => Collected(q, EndParam(q, s), Len(q) + 2)
          /\ EndParam(q, s).status # "ok" => Stopped(q, EndParam(q, s))
      BY <2>2, <3>1, <3>2, <3>3, ParamEnded, Zenon
    <3> QED
      BY <3>4, <3>5, Zenon
  <2> QED
    BY <2>1, <2>2
<1>5. CASE e.status = "ok"
  <2>1. \A S : S \subseteq Starts(q) => Before(S, Len(q) + 2) = S
    BY <1>1 DEF Before
  <2>2. Before(Named(q), Len(q) + 2) = Named(q)
    BY <2>1 DEF Named
  <2>3. errors = {}
    <3>1. \A u \in errors : Len(q) + 2 <= u
      BY <1>1, <1>4, <1>5, NoErrorBefore
    <3>2. errors \subseteq Starts(q)
      BY DEF Bare, Excess, Good, Named
    <3> QED
      BY <1>1, <3>1, <3>2
  <2>4. /\ e.found = [k \in DOMAIN e.found |-> e.found[k]]
        /\ DOMAIN e.found = {KeyAt(q, t) : t \in Named(q)}
        /\ \A t \in Named(q) :
              (\A u \in Named(q) : KeyAt(q, u) = KeyAt(q, t) => u <= t)
                 => e.found[KeyAt(q, t)] = url_unescape(ValueAt(q, t))
    BY <1>4, <1>5, <2>2 DEF Collected
  <2>5. ASSUME NEW k \in {KeyAt(q, t) : t \in Named(q)}
        PROVE  e.found[k] = url_unescape(ValueAt(q, LastNamed(q, k)))
    <3>1. PICK t \in Named(q) : k = KeyAt(q, t)
      OBVIOUS
    <3> DEFINE l == LastNamed(q, k)
    <3>2. /\ l \in Named(q) /\ KeyAt(q, l) = k
          /\ \A u \in Named(q) : KeyAt(q, u) = k => u <= l
      BY <3>1, LastExists, Zenon
    <3> QED
      BY <2>4, <3>2, Zenon
  <2>6. e.found = [k \in {KeyAt(q, t) : t \in Named(q)} |-> url_unescape(ValueAt(q, LastNamed(q, k)))]
    BY <2>4, <2>5, Zenon
  <2> HIDE DEF errors
  <2>7. ParamsOf(q) = [status |-> "ok", found |-> e.found]
    BY <2>3, <2>6, ParamsOfIs, Zenon DEF errors
  <2> QED
    BY <1>5, <2>7 DEF e
<1>6. CASE e.status # "ok"
  <2>1. PICK t \in errors :
           /\ \A u \in errors : t <= u
           /\ e.status = IF t \in Bare(q) THEN "BIZ_BASE_INVALID_URL"
                         ELSE "BIZ_BASE_TOO_MANY_QUERY_PARAMS"
    BY <1>4, <1>6 DEF Stopped
  <2>2. errors \subseteq Int
    BY <1>1 DEF Bare, Excess, Good, Named
  <2>3. errors # {} /\ Min(errors) = t
    <3> HIDE DEF errors
    <3> QED
      BY <2>1, <2>2, LeastIs
  <2>4. ParamsOf(q) = [status |-> e.status, found |-> <<>>]
    <3>1. ParamsOf(q) =
              [status |-> IF Min(errors) \in Bare(q) THEN "BIZ_BASE_INVALID_URL"
                          ELSE "BIZ_BASE_TOO_MANY_QUERY_PARAMS",
               found |-> <<>>]
      BY <2>3, ParamsOfIs, Zenon
    <3> QED
      BY <2>1, <2>3, <3>1
  <2> QED
    BY <1>6, <2>4 DEF e
<1> QED
  BY <1>5, <1>6

LEMMA ParamsAreFound == DocInv => ParamsFound
<1> SUFFICES ASSUME DocInv, stage \in {"after_run", "done"}
             PROVE  LET query == Query(request.target) IN
                    IF Len(request.target) > MAX_URL_LENGTH
                    THEN params = [status |-> "BIZ_BASE_TOO_LONG_URL", found |-> <<>>]
                    ELSE (\A s \in Starts(query) : Cardinality(Signs(Part(query, s))) <= 1)
                            => params = ParamsOf(query)
  BY Zenon DEF ParamsFound
<1> DEFINE query == Query(request.target)
<1>1. request \in Requests /\ params = getQueryParams(request.target)
  BY DEF DocInv
<1>2. query \in Queries
  BY <1>1, RequestsAssumption, QueriesAreStrings
<1> HIDE DEF query
<1>3. CASE Len(request.target) > MAX_URL_LENGTH
  BY <1>1, <1>3, Zenon DEF getQueryParams
<1>4. CASE ~(Len(request.target) > MAX_URL_LENGTH)
  <2>1. params = [status |-> Scan(query).status,
                  found |-> IF Scan(query).status = "ok" THEN Scan(query).found ELSE <<>>]
    BY <1>1, <1>4, Zenon DEF getQueryParams, query
  <2>2. OneSignEach(query) => params = ParamsOf(query)
    BY <1>2, <2>1, ScanFindsParams, Zenon
  <2> QED
    BY <1>4, <2>2, Zenon DEF query, OneSignEach
<1> QED
  BY <1>3, <1>4, Zenon

(* For all requests, and limits: a handler reads the parameters of a query *)
(* that its parts say, the later of two with one name, and the first error *)
(* where there is one; the document of a client that describes it truly    *)
(* reaches the handler, and the reply is one that the client accepts and   *)
(* that its headers describe (getQueryParams, getReqData, before_run and   *)
(* after_run). *)
THEOREM HandlersUnderstand == DataSpec => []RequestUnderstood
<1>1. DocInv => RequestUnderstood
  BY DocumentsAreExchanged, ParamsAreFound, Zenon DEF RequestUnderstood
<1> QED
  BY <1>1, DocInvHolds, PTL

-----------------------------------------------------------------------------
(* The descriptions of an McpService *)

(* The recursion of the validators and the levels below a node are         *)
(* recursive functions: that they exist is proved first.                   *)
Accepts(depth, deeper) == {node \in Nodes[depth] : ValidBelow(node, deeper)}

LEMMA AcceptedExist ==
    \E f : f = [d \in 0..MaxDepth |-> Accepts(d, IF d = 0 THEN {} ELSE f[d - 1])]
<1> DEFINE Upto(k) == \E f : f = [d \in 0..k |-> Accepts(d, IF d = 0 THEN {} ELSE f[d - 1])]
           S == {k \in Nat : Upto(k)}
<1>1. 0 \in S
  <2> DEFINE f == [d \in 0..0 |-> Accepts(0, {})]
  <2>1. \A d \in 0..0 : d = 0
    OBVIOUS
  <2>2. f = [d \in 0..0 |-> Accepts(d, IF d = 0 THEN {} ELSE f[d - 1])]
    BY <2>1, Zenon
  <2> HIDE DEF f
  <2>3. Upto(0)
    BY <2>2, Zenon
  <2> QED
    BY <2>3, Zenon
<1>2. ASSUME NEW k \in Nat, k \in S PROVE k + 1 \in S
  <2>1. PICK f : f = [d \in 0..k |-> Accepts(d, IF d = 0 THEN {} ELSE f[d - 1])]
    BY <1>2, Zenon
  <2> DEFINE g == [d \in 0..(k + 1) |-> IF d = k + 1 THEN Accepts(k + 1, f[k]) ELSE f[d]]
  <2>2. ASSUME NEW d \in 0..(k + 1)
        PROVE  g[d] = Accepts(d, IF d = 0 THEN {} ELSE g[d - 1])
    <3>1. CASE d = k + 1
      <4>1. d # 0 /\ d - 1 = k /\ k \in 0..(k + 1) /\ k # k + 1
        BY <3>1
      <4>2. g[k] = f[k]
        BY <4>1, Zenon
      <4>3. g[d] = Accepts(k + 1, f[k])
        BY <3>1, Zenon
      <4> HIDE DEF g
      <4> QED
        BY <3>1, <4>1, <4>2, <4>3, Zenon
    <3>2. CASE d # k + 1 /\ d # 0
      <4>1. d \in 0..k /\ d - 1 \in 0..(k + 1) /\ d - 1 # k + 1
        BY <3>2
      <4>2. g[d] = f[d] /\ g[d - 1] = f[d - 1]
        BY <3>2, <4>1, Zenon
      <4>3. f[d] = Accepts(d, f[d - 1])
        BY <2>1, <3>2, <4>1, Zenon
      <4> HIDE DEF g
      <4> QED
        BY <3>2, <4>2, <4>3, Zenon
    <3>3. CASE d # k + 1 /\ d = 0
      <4>1. 0 \in 0..k
        OBVIOUS
      <4>2. f[0] = Accepts(0, {})
        BY <2>1, <4>1, Zenon
      <4>3. g[d] = f[d]
        BY <3>3, Zenon
      <4> HIDE DEF g
      <4> QED
        BY <3>3, <4>2, <4>3, Zenon
    <3> QED
      BY <3>1, <3>2, <3>3, Zenon
  <2>3. g = [d \in 0..(k + 1) |-> g[d]]
    BY Zenon
  <2> HIDE DEF g
  <2>4. g = [d \in 0..(k + 1) |-> Accepts(d, IF d = 0 THEN {} ELSE g[d - 1])]
    BY <2>2, <2>3, Zenon
  <2>5. Upto(k + 1)
    BY <2>4, Zenon
  <2>6. k + 1 \in Nat
    OBVIOUS
  <2> QED
    BY <2>5, <2>6, Zenon
<1>3. MaxDepth \in S
  <2> HIDE DEF S
  <2>1. MaxDepth \in Nat
    BY NodesAssumption
  <2> QED
    BY <1>1, <1>2, <2>1, SetInduction
<1> QED
  BY <1>3, Zenon

LEMMA AcceptedAre ==
    /\ ValidNodes[0] = Accepts(0, {})
    /\ \A d \in 1..MaxDepth : ValidNodes[d] = Accepts(d, ValidNodes[d - 1])
<1> DEFINE f == CHOOSE f : f = [d \in 0..MaxDepth |-> Accepts(d, IF d = 0 THEN {} ELSE f[d - 1])]
<1>1. ValidNodes = f
  BY Zenon DEF ValidNodes, Accepts
<1>2. f = [d \in 0..MaxDepth |-> Accepts(d, IF d = 0 THEN {} ELSE f[d - 1])]
  BY AcceptedExist, Zenon
<1> HIDE DEF f
<1>3. 0 \in 0..MaxDepth /\ \A d \in 1..MaxDepth : d \in 0..MaxDepth /\ d # 0
  BY NodesAssumption
<1>4. f[0] = Accepts(0, {})
  BY <1>2, <1>3, Zenon
<1>5. \A d \in 1..MaxDepth : f[d] = Accepts(d, f[d - 1])
  BY <1>2, <1>3, Zenon
<1> QED
  BY <1>1, <1>4, <1>5, Zenon

(* The levels below a node *)
Deeper(nodes) == UNION {Children(n) : n \in {x \in nodes : IsObject(x)}}
Levels(node) == CHOOSE f : f = [d \in 0..MaxDepth |-> IF d = 0 THEN Children(node) ELSE Deeper(f[d - 1])]

LEMMA LevelsExist ==
    ASSUME NEW node
    PROVE  \E f : f = [d \in 0..MaxDepth |-> IF d = 0 THEN Children(node) ELSE Deeper(f[d - 1])]
<1> DEFINE Upto(k) == \E f : f = [d \in 0..k |-> IF d = 0 THEN Children(node) ELSE Deeper(f[d - 1])]
           S == {k \in Nat : Upto(k)}
<1>1. 0 \in S
  <2> DEFINE f == [d \in 0..0 |-> Children(node)]
  <2>1. \A d \in 0..0 : d = 0
    OBVIOUS
  <2>2. f = [d \in 0..0 |-> IF d = 0 THEN Children(node) ELSE Deeper(f[d - 1])]
    BY <2>1, Zenon
  <2> HIDE DEF f
  <2>3. Upto(0)
    BY <2>2, Zenon
  <2> QED
    BY <2>3, Zenon
<1>2. ASSUME NEW k \in Nat, k \in S PROVE k + 1 \in S
  <2>1. PICK f : f = [d \in 0..k |-> IF d = 0 THEN Children(node) ELSE Deeper(f[d - 1])]
    BY <1>2, Zenon
  <2> DEFINE g == [d \in 0..(k + 1) |-> IF d = k + 1 THEN Deeper(f[k]) ELSE f[d]]
  <2>2. ASSUME NEW d \in 0..(k + 1)
        PROVE  g[d] = IF d = 0 THEN Children(node) ELSE Deeper(g[d - 1])
    <3>1. CASE d = k + 1
      <4>1. d # 0 /\ d - 1 = k /\ k \in 0..(k + 1) /\ k # k + 1
        BY <3>1
      <4>2. g[k] = f[k]
        BY <4>1, Zenon
      <4>3. g[d] = Deeper(f[k])
        BY <3>1, Zenon
      <4> HIDE DEF g
      <4> QED
        BY <3>1, <4>1, <4>2, <4>3, Zenon
    <3>2. CASE d # k + 1 /\ d # 0
      <4>1. d \in 0..k /\ d - 1 \in 0..(k + 1) /\ d - 1 # k + 1
        BY <3>2
      <4>2. g[d] = f[d] /\ g[d - 1] = f[d - 1]
        BY <3>2, <4>1, Zenon
      <4>3. f[d] = Deeper(f[d - 1])
        BY <2>1, <3>2, <4>1, Zenon
      <4> HIDE DEF g
      <4> QED
        BY <3>2, <4>2, <4>3, Zenon
    <3>3. CASE d # k + 1 /\ d = 0
      <4>1. 0 \in 0..k
        OBVIOUS
      <4>2. f[0] = Children(node)
        BY <2>1, <4>1, Zenon
      <4>3. g[d] = f[d]
        BY <3>3, Zenon
      <4> HIDE DEF g
      <4> QED
        BY <3>3, <4>2, <4>3, Zenon
    <3> QED
      BY <3>1, <3>2, <3>3, Zenon
  <2>3. g = [d \in 0..(k + 1) |-> g[d]]
    BY Zenon
  <2> HIDE DEF g
  <2>4. g = [d \in 0..(k + 1) |-> IF d = 0 THEN Children(node) ELSE Deeper(g[d - 1])]
    BY <2>2, <2>3, Zenon
  <2>5. Upto(k + 1)
    BY <2>4, Zenon
  <2>6. k + 1 \in Nat
    OBVIOUS
  <2> QED
    BY <2>5, <2>6, Zenon
<1>3. MaxDepth \in S
  <2> HIDE DEF S
  <2>1. MaxDepth \in Nat
    BY NodesAssumption
  <2> QED
    BY <1>1, <1>2, <2>1, SetInduction
<1> QED
  BY <1>3, Zenon

LEMMA LevelsAre ==
    ASSUME NEW node
    PROVE  /\ Levels(node)[0] = Children(node)
           /\ \A d \in 1..MaxDepth : Levels(node)[d] = Deeper(Levels(node)[d - 1])
           /\ Below(node) = UNION {Levels(node)[k] : k \in 0..MaxDepth}
<1> DEFINE f == Levels(node)
<1>1. f = [d \in 0..MaxDepth |-> IF d = 0 THEN Children(node) ELSE Deeper(f[d - 1])]
  BY LevelsExist, Zenon DEF Levels
<1>2. Below(node) = UNION {f[k] : k \in 0..MaxDepth}
  BY Zenon DEF Below, Levels, Deeper
<1> HIDE DEF f
<1>3. 0 \in 0..MaxDepth /\ \A d \in 1..MaxDepth : d \in 0..MaxDepth /\ d # 0
  BY NodesAssumption
<1>4. f[0] = Children(node)
  BY <1>1, <1>3, Zenon
<1>5. \A d \in 1..MaxDepth : f[d] = Deeper(f[d - 1])
  BY <1>1, <1>3, Zenon
<1> QED
  BY <1>2, <1>4, <1>5, Zenon DEF f

(* The next level of a node is that of its children. *)
LEMMA LevelsShift ==
    ASSUME NEW node
    PROVE  \A k \in Nat : k < MaxDepth =>
               Levels(node)[k + 1] = UNION {Levels(c)[k] : c \in {x \in Children(node) : IsObject(x)}}
<1> DEFINE Under == {x \in Children(node) : IsObject(x)}
           S == {k \in Nat : k < MaxDepth => Levels(node)[k + 1] = UNION {Levels(c)[k] : c \in Under}}
<1>0. MaxDepth \in Nat
  BY NodesAssumption
<1>1. 0 \in S
  <2> SUFFICES ASSUME 0 < MaxDepth
               PROVE  Levels(node)[0 + 1] = UNION {Levels(c)[0] : c \in Under}
    BY Zenon
  <2>1. 0 + 1 \in 1..MaxDepth /\ (0 + 1) - 1 = 0
    BY <1>0
  <2>2. Levels(node)[0 + 1] = Deeper(Children(node))
    BY <2>1, LevelsAre, Zenon
  <2>3. \A c : Levels(c)[0] = Children(c)
    BY LevelsAre, Zenon
  <2> QED
    BY <2>2, <2>3, Zenon DEF Deeper
<1>2. ASSUME NEW k \in Nat, k \in S PROVE k + 1 \in S
  <2>0. k + 1 \in Nat
    OBVIOUS
  <2> SUFFICES ASSUME k + 1 < MaxDepth
               PROVE  Levels(node)[(k + 1) + 1] = UNION {Levels(c)[k + 1] : c \in Under}
    BY <2>0, Zenon
  <2>1. /\ k < MaxDepth /\ k + 1 \in 1..MaxDepth /\ (k + 1) + 1 \in 1..MaxDepth
        /\ (k + 1) - 1 = k /\ ((k + 1) + 1) - 1 = k + 1
    BY <1>0
  <2>2. Levels(node)[k + 1] = UNION {Levels(c)[k] : c \in Under}
    BY <1>2, <2>1, Zenon
  <2>3. Levels(node)[(k + 1) + 1] = Deeper(Levels(node)[k + 1])
    BY <2>1, LevelsAre, Zenon
  <2>4. \A c : Levels(c)[k + 1] = Deeper(Levels(c)[k])
    BY <2>1, LevelsAre, Zenon
  <2> HIDE DEF Under
  <2>5. Deeper(UNION {Levels(c)[k] : c \in Under}) = UNION {Deeper(Levels(c)[k]) : c \in Under}
    BY SMT DEF Deeper
  <2> QED
    BY <2>2, <2>3, <2>4, <2>5, Zenon
<1> QED
  <2> HIDE DEF S
  <2>1. \A k \in Nat : k \in S
    BY <1>1, <1>2, SetInduction
  <2> QED
    BY <2>1, Zenon DEF S

(* A node is accepted when its children have types and are accepted. *)
LEMMA AcceptedChildren ==
    ASSUME NEW node, NEW deeper
    PROVE  ValidBelow(node, deeper) <=> \A c \in Children(node) : HasType(c) /\ c \in deeper
<1>1. CASE node.type = "array"
  BY <1>1 DEF ValidBelow, validate_array_property, Children
<1>2. CASE node.type = "object" /\ node.properties = Missing
  BY <1>2 DEF ValidBelow, validate_nested_object_property, Children
<1>3. CASE node.type = "object" /\ node.properties # Missing /\ node.properties = NotObject
  <2>1. ~IsObject(node.properties) /\ ~HasType(NotObject)
    BY <1>3, Zenon DEF IsObject, HasType
  <2> QED
    BY <1>3, <2>1 DEF ValidBelow, validate_nested_object_property, Children
<1>4. CASE node.type = "object" /\ node.properties # Missing /\ node.properties # NotObject
  BY <1>4 DEF ValidBelow, validate_nested_object_property, Children, IsObject
<1>5. CASE node.type # "array" /\ node.type # "object"
  BY <1>5 DEF ValidBelow, Children
<1> QED
  BY <1>1, <1>2, <1>3, <1>4, <1>5

Typed(node, m) == \A k \in 0..m : \A x \in Levels(node)[k] : HasType(x)

LEMMA TypedChildren ==
    ASSUME NEW node, NEW m \in 0..MaxDepth
    PROVE  Typed(node, m) <=>
              /\ \A c \in Children(node) : HasType(c)
              /\ m > 0 => \A c \in Children(node) : IsObject(c) => Typed(c, m - 1)
<1>0. MaxDepth \in Nat /\ m \in Nat /\ m <= MaxDepth
  BY NodesAssumption
<1>1. Levels(node)[0] = Children(node)
  BY LevelsAre, Zenon
<1>2. 0 \in 0..m
  BY <1>0
<1>3. \A k \in Nat : k < MaxDepth =>
          \A x : x \in Levels(node)[k + 1] <=>
                    \E c \in Children(node) : IsObject(c) /\ x \in Levels(c)[k]
  <2> SUFFICES ASSUME NEW k \in Nat, k < MaxDepth
               PROVE  \A x : x \in Levels(node)[k + 1] <=>
                         \E c \in Children(node) : IsObject(c) /\ x \in Levels(c)[k]
    BY Zenon
  <2>1. Levels(node)[k + 1] = UNION {Levels(c)[k] : c \in {x \in Children(node) : IsObject(x)}}
    BY LevelsShift, Zenon
  <2> QED
    BY <2>1
<1>4. ASSUME Typed(node, m) PROVE \A c \in Children(node) : HasType(c)
  BY <1>1, <1>2, <1>4, Zenon DEF Typed
<1>5. ASSUME Typed(node, m), m > 0, NEW c \in Children(node), IsObject(c) PROVE Typed(c, m - 1)
  <2> SUFFICES ASSUME NEW k \in 0..(m - 1), NEW x \in Levels(c)[k] PROVE HasType(x)
    BY Zenon DEF Typed
  <2>1. k \in Nat /\ k < MaxDepth /\ k + 1 \in 0..m
    BY <1>0, <1>5
  <2>2. x \in Levels(node)[k + 1]
    BY <1>3, <1>5, <2>1, Zenon
  <2> QED
    BY <1>5, <2>1, <2>2, Zenon DEF Typed
<1>6. ASSUME \A c \in Children(node) : HasType(c),
             m > 0 => \A c \in Children(node) : IsObject(c) => Typed(c, m - 1)
      PROVE  Typed(node, m)
  <2> SUFFICES ASSUME NEW k \in 0..m, NEW x \in Levels(node)[k] PROVE HasType(x)
    BY Zenon DEF Typed
  <2>1. CASE k = 0
    BY <1>1, <1>6, <2>1, Zenon
  <2>2. CASE k # 0
    <3>1. k - 1 \in Nat /\ k - 1 < MaxDepth /\ (k - 1) + 1 = k /\ k - 1 \in 0..(m - 1) /\ m > 0
      BY <1>0, <2>2
    <3>2. PICK c \in Children(node) : IsObject(c) /\ x \in Levels(c)[k - 1]
      BY <1>3, <3>1, Zenon
    <3>3. Typed(c, m - 1)
      BY <1>6, <3>1, <3>2, Zenon
    <3> QED
      BY <3>1, <3>2, <3>3, Zenon DEF Typed
  <2> QED
    BY <2>1, <2>2, Zenon
<1> QED
  BY <1>4, <1>5, <1>6, Zenon

LEMMA AcceptedAreTyped ==
    ASSUME NEW node \in Nodes[MaxDepth]
    PROVE  node \in ValidNodes[MaxDepth] <=> \A x \in Below(node) : HasType(x)
<1> DEFINE Agree(j) == \A n \in Nodes[j] :
               /\ n \in ValidNodes[j] => Typed(n, MaxDepth)
               /\ Typed(n, j) => n \in ValidNodes[j]
           S == {j \in Nat : j <= MaxDepth => Agree(j)}
<1>0. MaxDepth \in Nat /\ MaxDepth \in 0..MaxDepth
  BY NodesAssumption
<1>1. ASSUME NEW j \in 0..MaxDepth, NEW n \in Nodes[j], NEW c \in Children(n), HasType(c)
      PROVE  j > 0 /\ c \in Nodes[j - 1]
  BY <1>1, NodesAssumption, Zenon
<1>2. 0 \in S
  <2>1. 0 \in 0..MaxDepth
    BY <1>0
  <2> SUFFICES ASSUME NEW n \in Nodes[0]
               PROVE  /\ n \in ValidNodes[0] => Typed(n, MaxDepth)
                      /\ Typed(n, 0) => n \in ValidNodes[0]
    BY Zenon
  <2>2. n \in ValidNodes[0] <=> \A c \in Children(n) : FALSE
    BY AcceptedAre, AcceptedChildren, Zenon DEF Accepts
  <2>3. ASSUME n \in ValidNodes[0] PROVE Typed(n, MaxDepth)
    BY <1>0, <2>2, <2>3, TypedChildren, Zenon
  <2>4. ASSUME Typed(n, 0) PROVE n \in ValidNodes[0]
    <3> SUFFICES ASSUME NEW c \in Children(n) PROVE FALSE
      BY <2>2, Zenon
    <3>1. HasType(c)
      BY <2>1, <2>4, TypedChildren, Zenon
    <3>2. 0 > 0
      BY <1>1, <2>1, <3>1, Zenon
    <3> QED
      BY <3>2
  <2> QED
    BY <2>3, <2>4, Zenon
<1>3. ASSUME NEW j \in Nat, j \in S PROVE j + 1 \in S
  <2>1. j + 1 \in Nat
    OBVIOUS
  <2> SUFFICES ASSUME j + 1 <= MaxDepth, NEW n \in Nodes[j + 1]
               PROVE  /\ n \in ValidNodes[j + 1] => Typed(n, MaxDepth)
                      /\ Typed(n, j + 1) => n \in ValidNodes[j + 1]
    BY <2>1, Zenon
  <2>2. /\ j <= MaxDepth /\ (j + 1) - 1 = j /\ j + 1 \in 1..MaxDepth /\ j + 1 \in 0..MaxDepth
        /\ j + 1 > 0
        /\ MaxDepth > 0 /\ \A k \in 0..(MaxDepth - 1) : k \in 0..MaxDepth
    BY <1>0
  <2>3. Agree(j)
    BY <1>3, <2>2, Zenon
  <2>4. n \in ValidNodes[j + 1] <=> \A c \in Children(n) : HasType(c) /\ c \in ValidNodes[j]
    BY <2>2, AcceptedAre, AcceptedChildren, Zenon DEF Accepts
  <2>5. \A c \in ValidNodes[j] : c \in Nodes[j]
    <3>1. CASE j = 0
      BY <3>1, AcceptedAre, Zenon DEF Accepts
    <3>2. CASE j # 0
      <4>1. j \in 1..MaxDepth
        BY <2>2, <3>2
      <4> QED
        BY <4>1, AcceptedAre, Zenon DEF Accepts
    <3> QED
      BY <3>1, <3>2, Zenon
  <2>6. ASSUME n \in ValidNodes[j + 1] PROVE Typed(n, MaxDepth)
    <3>1. ASSUME NEW c \in Children(n) PROVE HasType(c) /\ Typed(c, MaxDepth)
      BY <2>3, <2>4, <2>5, <2>6, Zenon
    <3>2. ASSUME NEW c \in Children(n) PROVE Typed(c, MaxDepth - 1)
      BY <2>2, <3>1, Zenon DEF Typed
    <3> QED
      BY <1>0, <3>1, <3>2, TypedChildren, Zenon
  <2>7. ASSUME Typed(n, j + 1) PROVE n \in ValidNodes[j + 1]
    <3> SUFFICES ASSUME NEW c \in Children(n) PROVE HasType(c) /\ c \in ValidNodes[j]
      BY <2>4, Zenon
    <3>1. HasType(c)
      BY <2>2, <2>7, TypedChildren, Zenon
    <3>4. IsObject(c)
      BY <3>1, Zenon DEF HasType
    <3>5. Typed(c, (j + 1) - 1)
      BY <2>2, <2>7, <3>4, TypedChildren, Zenon
    <3>2. Typed(c, j)
      BY <2>2, <3>5, Zenon
    <3>3. c \in Nodes[j]
      BY <1>1, <2>2, <3>1, Zenon
    <3> QED
      BY <2>3, <3>1, <3>2, <3>3, Zenon
  <2> QED
    BY <2>6, <2>7, Zenon
<1>4. Agree(MaxDepth)
  <2>1. MaxDepth <= MaxDepth
    BY <1>0
  <2> HIDE DEF S
  <2>2. \A j \in Nat : j \in S
    BY <1>2, <1>3, SetInduction
  <2>3. MaxDepth \in S
    BY <1>0, <2>2, Zenon
  <2> HIDE DEF Agree
  <2> QED
    BY <2>1, <2>3, Zenon DEF S
<1>5. Typed(node, MaxDepth) <=> \A x \in Below(node) : HasType(x)
  <2>1. Below(node) = UNION {Levels(node)[k] : k \in 0..MaxDepth}
    BY LevelsAre, Zenon
  <2> QED
    BY <2>1 DEF Typed
<1> QED
  BY <1>4, <1>5, Zenon

LEMMA ValidToolsAreSound ==
    ASSUME NEW tool \in Tools
    PROVE  ValidTool(tool) <=> SoundTool(tool)
<1> DEFINE schema == tool.inputSchema
<1>1. ASSUME IsObject(schema), IsObject(schema.properties), NEW p \in DOMAIN schema.properties
      PROVE  ValidProperty(schema.properties[p]) <=>
                LET node == schema.properties[p] IN
                /\ IsObject(node)
                /\ node.type \in ValidTypes /\ node.description # "other"
                /\ \A n \in Below(node) : HasType(n)
  <2> DEFINE node == schema.properties[p]
  <2>1. HasType(node) => node \in Nodes[MaxDepth]
    BY <1>1, NodesAssumption
  <2> HIDE DEF node
  <2>2. node.type \in ValidTypes => node.type \notin {"missing", "other"}
    BY DEF ValidTypes
  <2>3. HasType(node) => (node \in ValidNodes[MaxDepth] <=> \A n \in Below(node) : HasType(n))
    BY <2>1, AcceptedAreTyped, Zenon
  <2>4. ValidProperty(node) <=> /\ IsObject(node)
                                /\ node.type \in ValidTypes /\ node.description # "other"
                                /\ \A n \in Below(node) : HasType(n)
    BY <2>2, <2>3, Zenon DEF ValidProperty, HasType, TextIfPresent, AcceptedNodes
  <2> QED
    BY <2>4, Zenon DEF node
<1>2. tool.name = "text" /\ tool.description = "text" <=> {tool.name, tool.description} = {"text"}
  OBVIOUS
<1> QED
  BY <1>1, <1>2, Zenon DEF ValidTool, SoundTool, validate_required_fields, validate_input_schema, IsText

LEMMA ValidPromptsAreSound ==
    ASSUME NEW prompt
    PROVE  ValidPrompt(prompt) <=> SoundPrompt(prompt)
<1>1. prompt.name = "text" /\ prompt.description = "text" <=> {prompt.name, prompt.description} = {"text"}
  OBVIOUS
<1>2. \A a : "other" \in {a.description, a.required} <=> a.description = "other" \/ a.required = "other"
  BY Zenon
<1> QED
  BY <1>1, <1>2, Zenon DEF ValidPrompt, SoundPrompt, validate_prompt_description_fields,
      validate_prompt_arguments, IsText, TextIfPresent

LEMMA ValidResourcesAreSound ==
    ASSUME NEW r
    PROVE  ValidResource(r) <=> SoundResource(r)
BY DEF ValidResource, SoundResource, IsText, TextIfPresent

-----------------------------------------------------------------------------
(* What a call lists *)

(* A call keeps the descriptions before the first invalid one. *)
LEMMA KeptBeforeInvalid ==
    ASSUME NEW X, NEW ds \in Seq(X), NEW valid, valid \subseteq DOMAIN ds
    PROVE  \E n \in 0..Len(ds) : /\ 1..n \subseteq valid /\ n + 1 \notin valid
                                 /\ Kept(ds, valid) = SubSeq(ds, 1, n)
<1> DEFINE First(n) == 1..n \subseteq valid /\ n + 1 \notin valid
           T == {i \in Nat \ {0} : i \notin valid}
<1>1. Len(ds) \in Nat /\ DOMAIN ds = 1..Len(ds)
  OBVIOUS
<1>2. Len(ds) + 1 \in T
  BY <1>1
<1>3. T \subseteq Nat /\ T # {}
  BY <1>2
<1>4. PICK m \in T : \A j \in T : m <= j
  <2> HIDE DEF T
  <2> QED
    BY <1>3, LeastNatural
<1>5. m - 1 \in 0..Len(ds) /\ First(m - 1)
  <2>1. m \in Nat \ {0} /\ m \notin valid /\ m <= Len(ds) + 1
    BY <1>2, <1>4
  <2>2. ASSUME NEW i \in 1..(m - 1) PROVE i \in valid
    <3>1. i \in Nat \ {0} /\ ~(m <= i)
      BY <2>1
    <3> QED
      BY <1>4, <3>1
  <2> QED
    BY <1>1, <2>1, <2>2
<1>6. \E n \in 0..Len(ds) : First(n)
  BY <1>5
<1> DEFINE n == CHOOSE k \in 0..Len(ds) : First(k)
<1>7. n \in 0..Len(ds) /\ First(n)
  BY <1>6, Zenon
<1>8. Kept(ds, valid) = SubSeq(ds, 1, n)
  BY Zenon DEF Kept
<1> HIDE DEF n
<1> QED
  BY <1>7, <1>8, Zenon

LEMMA PrefixOf ==
    ASSUME NEW X, NEW ds \in Seq(X), NEW n \in 0..Len(ds)
    PROVE  /\ SubSeq(ds, 1, n) \in Seq(X) /\ Len(SubSeq(ds, 1, n)) = n
           /\ SubSeq(ds, 1, n) # ds <=> n < Len(ds)
<1>1. SubSeq(ds, 1, n) \in Seq(X) /\ Len(SubSeq(ds, 1, n)) = n
  OBVIOUS
<1>2. ASSUME n = Len(ds) PROVE SubSeq(ds, 1, n) = ds
  BY <1>2
<1> QED
  BY <1>1, <1>2

LEMMA SuffixOf ==
    ASSUME NEW X, NEW Y, NEW list \in Seq(Y), NEW added \in Seq(X)
    PROVE  /\ list \o added \in Seq(Y \cup X) /\ Len(added) <= Len(list \o added)
           /\ SubSeq(list \o added, Len(list \o added) - Len(added) + 1, Len(list \o added)) = added
<1> DEFINE longer == list \o added
           last == SubSeq(longer, Len(longer) - Len(added) + 1, Len(longer))
<1>1. /\ list \in Seq(Y \cup X) /\ added \in Seq(Y \cup X)
      /\ Len(list) \in Nat /\ Len(added) \in Nat
  OBVIOUS
<1>2. longer \in Seq(Y \cup X) /\ Len(longer) = Len(list) + Len(added)
  BY <1>1
<1>3. \A i \in 1..Len(added) : longer[Len(list) + i] = added[i]
  BY <1>1
<1> HIDE DEF longer
<1>4. last \in Seq(Y \cup X) /\ Len(last) = Len(added)
  BY <1>1, <1>2
<1>5. ASSUME NEW i \in 1..Len(added) PROVE last[i] = added[i]
  BY <1>1, <1>2, <1>3
<1>6. last = added
  <2>1. added = [i \in 1..Len(added) |-> added[i]]
    OBVIOUS
  <2> HIDE DEF last
  <2>2. last = [i \in 1..Len(last) |-> last[i]]
    BY <1>4
  <2> QED
    BY <1>4, <1>5, <2>1, <2>2, Zenon
<1> QED
  BY <1>1, <1>2, <1>6 DEF longer

(* What a call has listed, of the descriptions it was given.  It throws     *)
(* when it keeps fewer.                                                    *)
ListedUpTo(ds, valid, kept, list) ==
    \E k \in 0..Len(ds) :
        /\ \A i \in 1..k : i \in valid
        /\ IF kept # ds THEN k < Len(ds) /\ k + 1 \notin valid ELSE k = Len(ds)
        /\ k <= Len(list)
        /\ SubSeq(list, Len(list) - k + 1, Len(list)) = SubSeq(ds, 1, k)

PositionsOf(ds, good) == {i \in DOMAIN ds : ds[i] \in good}

LEMMA KeptAreListed ==
    ASSUME NEW X, NEW Y, NEW sound, sound \subseteq Y, NEW ds \in Seq(X), NEW list \in Seq(Y)
    PROVE  LET valid == PositionsOf(ds, sound)
               kept == Kept(ds, valid)
           IN  /\ list \o kept \in Seq(Y)
               /\ ListedUpTo(ds, valid, kept, list \o kept)
<1> DEFINE valid == PositionsOf(ds, sound)
           kept == Kept(ds, valid)
           longer == list \o kept
<1>0. valid \subseteq DOMAIN ds /\ \A i \in valid : ds[i] \in sound
  BY Zenon DEF PositionsOf
<1> HIDE DEF valid
<1>1. PICK n \in 0..Len(ds) : 1..n \subseteq valid /\ n + 1 \notin valid /\ kept = SubSeq(ds, 1, n)
  BY <1>0, KeptBeforeInvalid
<1>2. kept \in Seq(sound) /\ Len(kept) = n /\ (kept # ds <=> n < Len(ds))
  <2>1. kept \in Seq(X) /\ Len(kept) = n /\ (kept # ds <=> n < Len(ds))
    BY <1>1, PrefixOf
  <2>2. \A i \in 1..n : kept[i] = ds[i] /\ ds[i] \in sound
    <3>1. \A i \in 1..n : SubSeq(ds, 1, n)[i] = ds[i]
      OBVIOUS
    <3>2. \A i \in 1..n : ds[i] \in sound
      BY <1>0, <1>1, Zenon
    <3> HIDE DEF kept
    <3> QED
      BY <1>1, <3>1, <3>2, Zenon
  <2> HIDE DEF kept
  <2>3. kept \in Seq(sound)
    BY <2>1, <2>2
  <2> QED
    BY <2>1, <2>3
<1> HIDE DEF kept
<1>3. /\ longer \in Seq(Y \cup sound) /\ n <= Len(longer)
      /\ SubSeq(longer, Len(longer) - n + 1, Len(longer)) = kept
  <2>1. /\ longer \in Seq(Y \cup sound) /\ Len(kept) <= Len(longer)
        /\ SubSeq(longer, Len(longer) - Len(kept) + 1, Len(longer)) = kept
    <3>1. kept \in Seq(sound) /\ list \in Seq(Y)
      BY <1>2
    <3>2. \A l \in Seq(Y), a \in Seq(sound) :
             /\ l \o a \in Seq(Y \cup sound) /\ Len(a) <= Len(l \o a)
             /\ SubSeq(l \o a, Len(l \o a) - Len(a) + 1, Len(l \o a)) = a
      BY SuffixOf, Zenon
    <3> QED
      BY <3>1, <3>2, Zenon
  <2> QED
    BY <1>2, <2>1, Zenon
<1>4. Y \cup sound = Y
  OBVIOUS
<1> HIDE DEF longer
<1>5. IF kept # ds THEN n < Len(ds) /\ n + 1 \notin valid ELSE n = Len(ds)
  <2>1. Len(ds) \in Nat
    OBVIOUS
  <2> QED
    BY <1>1, <1>2, <2>1
<1>6. longer \in Seq(Y) /\ ListedUpTo(ds, valid, kept, longer)
  BY <1>1, <1>3, <1>4, <1>5, Zenon DEF ListedUpTo
<1> QED
  BY <1>6, Zenon DEF longer, kept, valid

SoundTools == {d \in Tools : SoundTool(d)}
SoundPrompts == {d \in Prompts : SoundPrompt(d)}
SoundResources == {d \in Resources : SoundResource(d)}

CatalogTyped ==
    /\ m_tool_descriptions \in Seq(SoundTools)
    /\ m_prompt_descriptions \in Seq(SoundPrompts)
    /\ m_resource_descriptions \in Seq(SoundResources \cup {NotObject})

CatalogInv == CatalogTyped /\ SoundAreAdded

ListedOf(ds, sound, kept, list) ==
    \E k \in 0..Len(ds) :
        /\ \A i \in 1..k : ds[i] \in sound
        /\ IF kept # ds THEN k < Len(ds) /\ ds[k + 1] \notin sound ELSE k = Len(ds)
        /\ k <= Len(list)
        /\ SubSeq(list, Len(list) - k + 1, Len(list)) = SubSeq(ds, 1, k)

LEMMA ListedAreSound ==
    ASSUME NEW X, NEW ds \in Seq(X), NEW kept, NEW list, NEW sound,
           ListedUpTo(ds, PositionsOf(ds, sound), kept, list)
    PROVE  ListedOf(ds, sound, kept, list)
<1> DEFINE valid == PositionsOf(ds, sound)
<1>0. valid = {i \in DOMAIN ds : ds[i] \in sound}
  BY Zenon DEF PositionsOf
<1>1. Len(ds) \in Nat /\ DOMAIN ds = 1..Len(ds)
  OBVIOUS
<1>2. PICK k \in 0..Len(ds) :
        /\ \A i \in 1..k : i \in valid
        /\ IF kept # ds THEN k < Len(ds) /\ k + 1 \notin valid ELSE k = Len(ds)
        /\ k <= Len(list)
        /\ SubSeq(list, Len(list) - k + 1, Len(list)) = SubSeq(ds, 1, k)
  BY Zenon DEF ListedUpTo
<1>3. k < Len(ds) => k + 1 \in DOMAIN ds
  BY <1>1
<1>4. kept # ds => k < Len(ds) /\ ds[k + 1] \notin sound
  BY <1>0, <1>2, <1>3, Zenon
<1>5. \A i \in 1..k : ds[i] \in sound
  BY <1>0, <1>2, Zenon
<1> QED
  BY <1>2, <1>4, <1>5, Zenon DEF ListedOf

LEMMA ToolsListed ==
    ASSUME CatalogTyped, NEW ds \in Seq(Tools),
           m_tool_descriptions' = m_tool_descriptions
               \o Kept(ds, {i \in DOMAIN ds : ValidTool(ds[i])}),
           UNCHANGED <<m_prompt_descriptions, m_resource_descriptions>>,
           call'.kind = "tool", call'.args = ds, ~Refused',
           call'.thrown = (Kept(ds, {i \in DOMAIN ds : ValidTool(ds[i])}) # ds)
    PROVE  CatalogInv'
<1> DEFINE sound == SoundTools
           kept == Kept(ds, PositionsOf(ds, sound))
           list == m_tool_descriptions \o kept
<1>1. {i \in DOMAIN ds : ValidTool(ds[i])} = PositionsOf(ds, sound)
  <2>1. \A i \in DOMAIN ds : ds[i] \in Tools
    OBVIOUS
  <2>2. \A i \in DOMAIN ds : ValidTool(ds[i]) <=> ds[i] \in sound
    BY <2>1, ValidToolsAreSound, Zenon DEF SoundTools
  <2> HIDE DEF sound
  <2> QED
    BY <2>2, Zenon DEF PositionsOf
<1>2. list \in Seq(SoundTools) /\ ListedUpTo(ds, PositionsOf(ds, sound), kept, list)
  <2>1. m_tool_descriptions \in Seq(SoundTools) /\ sound \subseteq SoundTools
    BY Zenon DEF CatalogTyped
  <2> HIDE DEF sound
  <2>2. \A l \in Seq(SoundTools) : /\ l \o kept \in Seq(SoundTools)
                   /\ ListedUpTo(ds, PositionsOf(ds, sound), kept, l \o kept)
    BY <2>1, KeptAreListed, Zenon
  <2> QED
    BY <2>1, <2>2, Zenon
<1>3. m_tool_descriptions' = list /\ call'.thrown = (kept # ds)
  BY <1>1, Zenon
<1> HIDE DEF kept, list
<1>4. CatalogTyped'
  BY <1>2, <1>3, Zenon DEF CatalogTyped
<1>5. ListedOf(ds, sound, kept, list)
  <2> HIDE DEF sound
  <2>1. ds \in Seq(Tools) /\ ListedUpTo(ds, PositionsOf(ds, sound), kept, list)
    BY <1>2, Zenon
  <2> QED
    BY <2>1, ListedAreSound, Zenon
<1>6. PICK k \in 0..Len(ds) :
        /\ \A i \in 1..k : SoundTool(ds[i])
        /\ IF kept # ds THEN k < Len(ds) /\ ~SoundTool(ds[k + 1]) ELSE k = Len(ds)
        /\ k <= Len(list)
        /\ SubSeq(list, Len(list) - k + 1, Len(list)) = SubSeq(ds, 1, k)
  <2>1. \A i \in 1..Len(ds) : ds[i] \in Tools
    OBVIOUS
  <2>2. PICK k \in 0..Len(ds) :
          /\ \A i \in 1..k : ds[i] \in sound
          /\ IF kept # ds THEN k < Len(ds) /\ ds[k + 1] \notin sound ELSE k = Len(ds)
          /\ k <= Len(list)
          /\ SubSeq(list, Len(list) - k + 1, Len(list)) = SubSeq(ds, 1, k)
    BY <1>5, Zenon DEF ListedOf
  <2>3. kept # ds => k + 1 \in 1..Len(ds)
    <3>1. kept # ds => k < Len(ds)
      BY <2>2, Zenon
    <3>2. Len(ds) \in Nat /\ k \in Nat
      OBVIOUS
    <3> QED
      BY <3>1, <3>2
  <2>4. kept # ds => k < Len(ds) /\ ~SoundTool(ds[k + 1])
    BY <2>1, <2>2, <2>3, Zenon DEF SoundTools
  <2>5. \A i \in 1..k : SoundTool(ds[i])
    BY <2>2, Zenon DEF SoundTools
  <2> QED
    BY <2>2, <2>4, <2>5, Zenon
<1>7. SoundAreAdded'
  BY <1>3, <1>6, Zenon DEF SoundAreAdded
<1> QED
  BY <1>4, <1>7, Zenon DEF CatalogInv

LEMMA PromptsListed ==
    ASSUME CatalogTyped, NEW ds \in Seq(Prompts),
           m_prompt_descriptions' = m_prompt_descriptions
               \o Kept(ds, {i \in DOMAIN ds : ValidPrompt(ds[i])}),
           UNCHANGED <<m_tool_descriptions, m_resource_descriptions>>,
           call'.kind = "prompt", call'.args = ds, ~Refused',
           call'.thrown = (Kept(ds, {i \in DOMAIN ds : ValidPrompt(ds[i])}) # ds)
    PROVE  CatalogInv'
<1> DEFINE sound == SoundPrompts
           kept == Kept(ds, PositionsOf(ds, sound))
           list == m_prompt_descriptions \o kept
<1>1. {i \in DOMAIN ds : ValidPrompt(ds[i])} = PositionsOf(ds, sound)
  <2>1. \A i \in DOMAIN ds : ds[i] \in Prompts
    OBVIOUS
  <2>2. \A i \in DOMAIN ds : ValidPrompt(ds[i]) <=> ds[i] \in sound
    BY <2>1, ValidPromptsAreSound, Zenon DEF SoundPrompts
  <2> HIDE DEF sound
  <2> QED
    BY <2>2, Zenon DEF PositionsOf
<1>2. list \in Seq(SoundPrompts) /\ ListedUpTo(ds, PositionsOf(ds, sound), kept, list)
  <2>1. m_prompt_descriptions \in Seq(SoundPrompts) /\ sound \subseteq SoundPrompts
    BY Zenon DEF CatalogTyped
  <2> HIDE DEF sound
  <2>2. \A l \in Seq(SoundPrompts) : /\ l \o kept \in Seq(SoundPrompts)
                   /\ ListedUpTo(ds, PositionsOf(ds, sound), kept, l \o kept)
    BY <2>1, KeptAreListed, Zenon
  <2> QED
    BY <2>1, <2>2, Zenon
<1>3. m_prompt_descriptions' = list /\ call'.thrown = (kept # ds)
  BY <1>1, Zenon
<1> HIDE DEF kept, list
<1>4. CatalogTyped'
  BY <1>2, <1>3, Zenon DEF CatalogTyped
<1>5. ListedOf(ds, sound, kept, list)
  <2> HIDE DEF sound
  <2>1. ds \in Seq(Prompts) /\ ListedUpTo(ds, PositionsOf(ds, sound), kept, list)
    BY <1>2, Zenon
  <2> QED
    BY <2>1, ListedAreSound, Zenon
<1>6. PICK k \in 0..Len(ds) :
        /\ \A i \in 1..k : SoundPrompt(ds[i])
        /\ IF kept # ds THEN k < Len(ds) /\ ~SoundPrompt(ds[k + 1]) ELSE k = Len(ds)
        /\ k <= Len(list)
        /\ SubSeq(list, Len(list) - k + 1, Len(list)) = SubSeq(ds, 1, k)
  <2>1. \A i \in 1..Len(ds) : ds[i] \in Prompts
    OBVIOUS
  <2>2. PICK k \in 0..Len(ds) :
          /\ \A i \in 1..k : ds[i] \in sound
          /\ IF kept # ds THEN k < Len(ds) /\ ds[k + 1] \notin sound ELSE k = Len(ds)
          /\ k <= Len(list)
          /\ SubSeq(list, Len(list) - k + 1, Len(list)) = SubSeq(ds, 1, k)
    BY <1>5, Zenon DEF ListedOf
  <2>3. kept # ds => k + 1 \in 1..Len(ds)
    <3>1. kept # ds => k < Len(ds)
      BY <2>2, Zenon
    <3>2. Len(ds) \in Nat /\ k \in Nat
      OBVIOUS
    <3> QED
      BY <3>1, <3>2
  <2>4. kept # ds => k < Len(ds) /\ ~SoundPrompt(ds[k + 1])
    BY <2>1, <2>2, <2>3, Zenon DEF SoundPrompts
  <2>5. \A i \in 1..k : SoundPrompt(ds[i])
    BY <2>2, Zenon DEF SoundPrompts
  <2> QED
    BY <2>2, <2>4, <2>5, Zenon
<1>7. SoundAreAdded'
  BY <1>3, <1>6, Zenon DEF SoundAreAdded
<1> QED
  BY <1>4, <1>7, Zenon DEF CatalogInv

LEMMA ResourcesListed ==
    ASSUME CatalogTyped, NEW ds \in Seq(Resources),
           m_resource_descriptions' = m_resource_descriptions
               \o Kept(ds, {i \in DOMAIN ds : ValidResource(ds[i])}),
           UNCHANGED <<m_tool_descriptions, m_prompt_descriptions>>,
           call'.kind = "resource", call'.args = ds, ~Refused',
           call'.thrown = (Kept(ds, {i \in DOMAIN ds : ValidResource(ds[i])}) # ds)
    PROVE  CatalogInv'
<1> DEFINE sound == SoundResources
           kept == Kept(ds, PositionsOf(ds, sound))
           list == m_resource_descriptions \o kept
<1>1. {i \in DOMAIN ds : ValidResource(ds[i])} = PositionsOf(ds, sound)
  <2>1. \A i \in DOMAIN ds : ds[i] \in Resources
    OBVIOUS
  <2>2. \A i \in DOMAIN ds : ValidResource(ds[i]) <=> ds[i] \in sound
    BY <2>1, ValidResourcesAreSound, Zenon DEF SoundResources
  <2> HIDE DEF sound
  <2> QED
    BY <2>2, Zenon DEF PositionsOf
<1>2. list \in Seq((SoundResources \cup {NotObject})) /\ ListedUpTo(ds, PositionsOf(ds, sound), kept, list)
  <2>1. m_resource_descriptions \in Seq((SoundResources \cup {NotObject})) /\ sound \subseteq (SoundResources \cup {NotObject})
    BY Zenon DEF CatalogTyped
  <2> HIDE DEF sound
  <2>2. \A l \in Seq((SoundResources \cup {NotObject})) : /\ l \o kept \in Seq((SoundResources \cup {NotObject}))
                   /\ ListedUpTo(ds, PositionsOf(ds, sound), kept, l \o kept)
    BY <2>1, KeptAreListed, Zenon
  <2> QED
    BY <2>1, <2>2, Zenon
<1>3. m_resource_descriptions' = list /\ call'.thrown = (kept # ds)
  BY <1>1, Zenon
<1> HIDE DEF kept, list
<1>4. CatalogTyped'
  BY <1>2, <1>3, Zenon DEF CatalogTyped
<1>5. ListedOf(ds, sound, kept, list)
  <2> HIDE DEF sound
  <2>1. ds \in Seq(Resources) /\ ListedUpTo(ds, PositionsOf(ds, sound), kept, list)
    BY <1>2, Zenon
  <2> QED
    BY <2>1, ListedAreSound, Zenon
<1>6. PICK k \in 0..Len(ds) :
        /\ \A i \in 1..k : SoundResource(ds[i])
        /\ IF kept # ds THEN k < Len(ds) /\ ~SoundResource(ds[k + 1]) ELSE k = Len(ds)
        /\ k <= Len(list)
        /\ SubSeq(list, Len(list) - k + 1, Len(list)) = SubSeq(ds, 1, k)
  <2>1. \A i \in 1..Len(ds) : ds[i] \in Resources
    OBVIOUS
  <2>2. PICK k \in 0..Len(ds) :
          /\ \A i \in 1..k : ds[i] \in sound
          /\ IF kept # ds THEN k < Len(ds) /\ ds[k + 1] \notin sound ELSE k = Len(ds)
          /\ k <= Len(list)
          /\ SubSeq(list, Len(list) - k + 1, Len(list)) = SubSeq(ds, 1, k)
    BY <1>5, Zenon DEF ListedOf
  <2>3. kept # ds => k + 1 \in 1..Len(ds)
    <3>1. kept # ds => k < Len(ds)
      BY <2>2, Zenon
    <3>2. Len(ds) \in Nat /\ k \in Nat
      OBVIOUS
    <3> QED
      BY <3>1, <3>2
  <2>4. kept # ds => k < Len(ds) /\ ~SoundResource(ds[k + 1])
    BY <2>1, <2>2, <2>3, Zenon DEF SoundResources
  <2>5. \A i \in 1..k : SoundResource(ds[i])
    BY <2>2, Zenon DEF SoundResources
  <2> QED
    BY <2>2, <2>4, <2>5, Zenon
<1>7. SoundAreAdded'
  BY <1>3, <1>6, Zenon DEF SoundAreAdded
<1> QED
  BY <1>4, <1>7, Zenon DEF CatalogInv

LEMMA ToolsAdded ==
    ASSUME CatalogTyped, NEW ds \in Seq(Tools), addToolDescriptions(ds)
    PROVE  CatalogInv'
<1>1. ~Refused'
  BY DEF addToolDescriptions, Added, Refused
<1> QED
  BY <1>1, ToolsListed, Zenon DEF addToolDescriptions, Added

LEMMA PromptsAdded ==
    ASSUME CatalogTyped, NEW ds \in Seq(Prompts), addPrompts(ds)
    PROVE  CatalogInv'
<1>1. ~Refused'
  BY DEF addPrompts, Added, Refused
<1> QED
  BY <1>1, PromptsListed, Zenon DEF addPrompts, Added

LEMMA ResourcesAdded ==
    ASSUME CatalogTyped, NEW ds \in Seq(Resources), addResources(ds)
    PROVE  CatalogInv'
<1>1. ~Refused'
  BY DEF addResources, Added, Refused
<1> QED
  BY <1>1, ResourcesListed, Zenon DEF addResources, Added

(* A call that throws at once changes no list. *)
LEMMA RefusedAdd ==
    ASSUME CatalogTyped, UNCHANGED lists, Refused', call'.thrown, Len(call'.args) \in Nat
    PROVE  CatalogInv'
<1>1. CatalogTyped'
  BY Zenon DEF CatalogTyped, lists
<1>2. ASSUME NEW X, NEW list \in Seq(X), NEW args
      PROVE  /\ \A i \in 1..0 : FALSE
             /\ 0 <= Len(list)
             /\ SubSeq(list, Len(list) - 0 + 1, Len(list)) = SubSeq(args, 1, 0)
  <2>1. Len(list) \in Nat
    OBVIOUS
  <2>2. 1..0 = {} /\ Len(list) - 0 + 1 = Len(list) + 1
        /\ (Len(list) + 1)..Len(list) = {}
    BY <2>1
  <2>3. SubSeq(args, 1, 0) = <<>> /\ SubSeq(list, Len(list) + 1, Len(list)) = <<>>
    BY <2>1
  <2> QED
    BY <2>1, <2>2, <2>3
<1>3. 0 \in 0..Len(call'.args)
  OBVIOUS
<1>4. SoundAreAdded'
  <2>1. CASE call'.kind = "tool"
    BY <1>1, <1>2, <1>3, <2>1, Zenon DEF SoundAreAdded, CatalogTyped
  <2>2. CASE call'.kind = "prompt"
    BY <1>1, <1>2, <1>3, <2>2, Zenon DEF SoundAreAdded, CatalogTyped
  <2>3. CASE call'.kind = "resource"
    BY <1>1, <1>2, <1>3, <2>3, Zenon DEF SoundAreAdded, CatalogTyped
  <2> QED
    BY <2>1, <2>2, <2>3, Zenon DEF SoundAreAdded
<1> QED
  BY <1>1, <1>4, Zenon DEF CatalogInv

LEMMA SingleOf ==
    ASSUME NEW X, NEW d \in X
    PROVE  <<d>> \in Seq(X)
OBVIOUS

LEMMA PairOf ==
    ASSUME NEW X, NEW ds \in Pairs(X)
    PROVE  ds \in Seq(X)
<1>1. PICK a \in X, b \in X : ds = <<a, b>>
  BY DEF Pairs
<1>2. <<a, b>> \in Seq(X)
  OBVIOUS
<1> QED
  BY <1>1, <1>2

LEMMA NothingAppended ==
    ASSUME NEW X, NEW list \in Seq(X)
    PROVE  list \o <<>> = list
OBVIOUS

LEMMA JsonToolsAdded ==
    ASSUME CatalogTyped, NEW ds \in Seq(Tools), NEW c \in {"array", "object"},
           addToolDescriptionsJson(ds, c)
    PROVE  CatalogInv'
<1>1. CASE c = "array"
  <2>1. m_tool_descriptions \o <<>> = m_tool_descriptions
    BY NothingAppended, Zenon DEF CatalogTyped
  <2>2. UNCHANGED lists
    BY <1>1, <2>1, Zenon DEF addToolDescriptionsJson, lists
  <2>3. Refused' /\ call'.thrown /\ call'.args = ds
    BY <1>1 DEF addToolDescriptionsJson, Added, Refused
  <2>4. Len(ds) \in Nat
    OBVIOUS
  <2> QED
    BY <2>2, <2>3, <2>4, RefusedAdd, Zenon
<1>2. CASE c = "object"
  <2> DEFINE kept == Kept(ds, {i \in DOMAIN ds : ValidTool(ds[i])})
  <2>1. /\ m_tool_descriptions' = m_tool_descriptions \o kept
        /\ UNCHANGED <<m_prompt_descriptions, m_resource_descriptions>>
        /\ call'.kind = "tool" /\ call'.args = ds /\ call'.container = "object"
        /\ call'.thrown = (c = "array" \/ kept # ds)
    <3>1. "object" # "array"
      OBVIOUS
    <3> QED
      BY <1>2, <3>1, Zenon DEF addToolDescriptionsJson, Added
  <2>2. ~Refused'
    BY <2>1 DEF Refused
  <2>3. call'.thrown = (kept # ds)
    <3>1. c # "array"
      BY <1>2
    <3> HIDE DEF kept
    <3> QED
      BY <2>1, <3>1, Zenon
  <2> QED
    BY <2>1, <2>2, <2>3, ToolsListed, Zenon
<1> QED
  BY <1>1, <1>2

LEMMA JsonPromptsAdded ==
    ASSUME CatalogTyped, NEW ds \in Seq(Prompts), NEW c \in {"array", "object"},
           addPromptsJson(ds, c)
    PROVE  CatalogInv'
<1>1. CASE c = "array"
  <2>1. m_prompt_descriptions \o <<>> = m_prompt_descriptions
    BY NothingAppended, Zenon DEF CatalogTyped
  <2>2. UNCHANGED lists
    BY <1>1, <2>1, Zenon DEF addPromptsJson, lists
  <2>3. Refused' /\ call'.thrown /\ call'.args = ds
    BY <1>1 DEF addPromptsJson, Added, Refused
  <2>4. Len(ds) \in Nat
    OBVIOUS
  <2> QED
    BY <2>2, <2>3, <2>4, RefusedAdd, Zenon
<1>2. CASE c = "object"
  <2> DEFINE kept == Kept(ds, {i \in DOMAIN ds : ValidPrompt(ds[i])})
  <2>1. /\ m_prompt_descriptions' = m_prompt_descriptions \o kept
        /\ UNCHANGED <<m_tool_descriptions, m_resource_descriptions>>
        /\ call'.kind = "prompt" /\ call'.args = ds /\ call'.container = "object"
        /\ call'.thrown = (c = "array" \/ kept # ds)
    <3>1. "object" # "array"
      OBVIOUS
    <3> QED
      BY <1>2, <3>1, Zenon DEF addPromptsJson, Added
  <2>2. ~Refused'
    BY <2>1 DEF Refused
  <2>3. call'.thrown = (kept # ds)
    <3>1. c # "array"
      BY <1>2
    <3> HIDE DEF kept
    <3> QED
      BY <2>1, <3>1, Zenon
  <2> QED
    BY <2>1, <2>2, <2>3, PromptsListed, Zenon
<1> QED
  BY <1>1, <1>2

LEMMA JsonResourceAdded ==
    ASSUME CatalogTyped, NEW d, NEW c \in {"array", "object"}, addResourcesJson(d, c)
    PROVE  CatalogInv'
<1>1. CASE c = "object"
  <2>1. m_resource_descriptions \o <<>> = m_resource_descriptions
    BY NothingAppended, Zenon DEF CatalogTyped
  <2>2. UNCHANGED lists
    BY <1>1, <2>1, Zenon DEF addResourcesJson, lists
  <2>3. Refused' /\ call'.thrown /\ call'.args = <<d>>
    BY <1>1 DEF addResourcesJson, Added, Refused
  <2>4. Len(<<d>>) \in Nat
    OBVIOUS
  <2> QED
    BY <2>2, <2>3, <2>4, RefusedAdd, Zenon
<1>2. CASE c = "array"
  <2>1. c # "object"
    BY <1>2
  <2>2. /\ m_resource_descriptions' = m_resource_descriptions \o <<NotObject>>
        /\ UNCHANGED <<m_tool_descriptions, m_prompt_descriptions>>
        /\ call'.container = "array" /\ call'.kind = "resource"
    BY <1>2, <2>1, Zenon DEF addResourcesJson, Added
  <2> DEFINE X == SoundResources \cup {NotObject}
  <2>3. m_resource_descriptions \in Seq(X) /\ NotObject \in X
    BY DEF CatalogTyped
  <2> HIDE DEF X
  <2>4. m_resource_descriptions \o <<NotObject>> \in Seq(X)
    BY <2>3
  <2>5. CatalogTyped'
    BY <2>2, <2>4, Zenon DEF CatalogTyped, X
  <2>6. Unchecked'
    BY <2>2, Zenon DEF Unchecked
  <2> QED
    BY <2>5, <2>6, Zenon DEF CatalogInv, SoundAreAdded
<1> QED
  BY <1>1, <1>2

LEMMA CatalogInvHolds == CatalogSpec => []CatalogInv
<1>1. CatalogInit => CatalogInv
  <2> SUFFICES ASSUME CatalogInit PROVE CatalogInv
    OBVIOUS
  <2>1. CatalogTyped
    BY DEF CatalogInit, CatalogTyped
  <2>2. call.kind = "none"
    BY DEF CatalogInit, NoCall
  <2>3. SoundAreAdded
    BY <2>2 DEF SoundAreAdded
  <2> QED
    BY <2>1, <2>3, Zenon DEF CatalogInv
<1>2. CatalogInv /\ [CatalogNext \/ BatchNext(Tools, Prompts, Resources)]_catalogVars => CatalogInv'
  <2> SUFFICES ASSUME CatalogInv, [CatalogNext \/ BatchNext(Tools, Prompts, Resources)]_catalogVars
               PROVE  CatalogInv'
    OBVIOUS
  <2>0. CatalogTyped
    BY Zenon DEF CatalogInv
  <2>1. ASSUME NEW d \in Tools, addToolDescription(d) PROVE CatalogInv'
    BY <2>0, <2>1, SingleOf, ToolsAdded, Zenon DEF addToolDescription
  <2>2. ASSUME NEW d \in Prompts, addPrompt(d) PROVE CatalogInv'
    BY <2>0, <2>2, SingleOf, PromptsAdded, Zenon DEF addPrompt
  <2>3. ASSUME NEW d \in Resources, addResource(d) PROVE CatalogInv'
    BY <2>0, <2>3, SingleOf, ResourcesAdded, Zenon DEF addResource
  <2>4. ASSUME NEW d \in Resources, NEW c \in {"array", "object"}, addResourcesJson(d, c)
        PROVE  CatalogInv'
    BY <2>0, <2>4, JsonResourceAdded, Zenon
  <2>5. ASSUME NEW n \in ToolNames, NEW m \in Methods \cup {NoMethod}, addTool(n, m)
        PROVE  CatalogInv'
    <3>1. UNCHANGED lists /\ call'.kind = "bind"
      BY <2>5 DEF addTool, NoCall
    <3>2. CatalogTyped'
      BY <2>0, <3>1, Zenon DEF CatalogTyped, lists
    <3>3. SoundAreAdded'
      BY <3>1 DEF SoundAreAdded
    <3> QED
      BY <3>2, <3>3, Zenon DEF CatalogInv
  <2>6. ASSUME NEW ds \in Pairs(Tools), addToolDescriptions(ds) PROVE CatalogInv'
    BY <2>0, <2>6, PairOf, ToolsAdded, Zenon
  <2>7. ASSUME NEW ds \in Pairs(Tools), NEW c \in {"array", "object"}, addToolDescriptionsJson(ds, c)
        PROVE  CatalogInv'
    BY <2>0, <2>7, PairOf, JsonToolsAdded, Zenon
  <2>8. ASSUME NEW ds \in Pairs(Prompts), addPrompts(ds) PROVE CatalogInv'
    BY <2>0, <2>8, PairOf, PromptsAdded, Zenon
  <2>9. ASSUME NEW ds \in Pairs(Prompts), NEW c \in {"array", "object"}, addPromptsJson(ds, c)
        PROVE  CatalogInv'
    BY <2>0, <2>9, PairOf, JsonPromptsAdded, Zenon
  <2>10. ASSUME NEW ds \in Pairs(Resources), addResources(ds) PROVE CatalogInv'
    BY <2>0, <2>10, PairOf, ResourcesAdded, Zenon
  <2>11. ASSUME UNCHANGED catalogVars PROVE CatalogInv'
    <3>1. UNCHANGED <<m_tool_descriptions, m_prompt_descriptions, m_resource_descriptions, call>>
      BY <2>11, Zenon DEF catalogVars, lists
    <3>2. CatalogTyped'
      BY <2>0, <3>1, Zenon DEF CatalogTyped
    <3>3. SoundAreAdded'
      BY <3>1 DEF CatalogInv, SoundAreAdded, Refused, Unchecked
    <3> QED
      BY <3>2, <3>3, Zenon DEF CatalogInv
  <2> QED
    BY <2>1, <2>2, <2>3, <2>4, <2>5, <2>6, <2>7, <2>8, <2>9, <2>10, <2>11, Zenon
       DEF CatalogNext, BatchNext
<1> QED
  BY <1>1, <1>2, PTL DEF CatalogSpec

LEMMA TypedListsAreSound == CatalogTyped => ListsAreSound
<1> SUFFICES ASSUME CatalogTyped PROVE ListsAreSound
  OBVIOUS
<1>1. \A X : \A l \in Seq(X) : \A i \in DOMAIN l : l[i] \in X
  OBVIOUS
<1>2. \A i \in DOMAIN m_tool_descriptions : m_tool_descriptions[i] \in SoundTools
  BY <1>1, Zenon DEF CatalogTyped
<1>3. \A i \in DOMAIN m_prompt_descriptions : m_prompt_descriptions[i] \in SoundPrompts
  BY <1>1, Zenon DEF CatalogTyped
<1>4. \A i \in DOMAIN m_resource_descriptions :
         m_resource_descriptions[i] \in SoundResources \cup {NotObject}
  BY <1>1, Zenon DEF CatalogTyped
<1> QED
  BY <1>2, <1>3, <1>4, Zenon DEF ListsAreSound, SoundTools, SoundPrompts, SoundResources

(* What a client can list is sound in all its nodes, however deep its      *)
(* schema and however many calls of whatever kind registered it, but for   *)
(* what addResources(json) takes unseen: every other call adds the         *)
(* descriptions before its first unsound one (McpService's validators) and *)
(* throws exactly if there is an unsound one, or always throws.            *)
THEOREM OnlySoundAreListed == CatalogSpec => []SoundAreListed
<1>1. CatalogInv => SoundAreListed
  BY TypedListsAreSound, Zenon DEF CatalogInv, SoundAreListed
<1> QED
  BY <1>1, CatalogInvHolds, PTL
=============================================================================
