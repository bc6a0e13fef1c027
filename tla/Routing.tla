------------------------------ MODULE Routing -------------------------------
(***************************************************************************)
(* How the arbitrage detector looks for routes: the quotes of              *)
(* arb/graph/edge_weights.go, the Bellman-Ford and the triangular search   *)
(* of arb/routing/bellman_ford.go, and the constraints a route must meet   *)
(* (arb/routing/routing_types.go), on the graph of one chain.              *)
(*                                                                         *)
(* A reserve is Unit * 2^e, so that the logarithm of a rate is an integer; *)
(* a weight is LogScale times that logarithm, plus FeeLog for the fee.     *)
(* Every pool charges 30 basis points.  Amounts are integers, and divided  *)
(* the way big.Int divides.                                                *)
(***************************************************************************)
EXTENDS Integers, Sequences, FiniteSets, FiniteSetsExt, SequencesExt

CONSTANTS
    Pool,          \* the pools, a sequence in the order the graph lists them
    Tokens,        \* Tokens[p]: token0 and token1 of p
    Exponents,     \* exponents a reserve may have
    Unit, LogScale, FeeLog,
    TestAmount,    \* the amount a route is tried with
    MaxHops, MinProfit, MinProfitBPS, MaxImpactBPS, \* RouteConstraints
    Start,         \* the bluechip token the searches start from
    None

P == ToSet(Pool)
Token == UNION {ToSet(Tokens[p]) : p \in P}

VARIABLES
    exponent,  \* of each pool: the exponents of its reserves
    phase,     \* "choose", "triangular", "relax", "detect", "done"
    round, todo, improved, \* FindRoutes: iteration, nodes still to visit in it
    dist, pred,
    visited,   \* detectNegativeCycles
    triangles, routes \* what the two searches return

vars == <<exponent, phase, round, todo, improved, dist, pred, visited, triangles, routes>>

-----------------------------------------------------------------------------
(* PoolEdge: the side of pool p a token is on, and the token across.       *)
SideOf(p, t) == IF t = Tokens[p][1] THEN 1 ELSE 2
TokenOut(p, t) == Tokens[p][3 - SideOf(p, t)]

ReserveIn(p, t) == Unit * 2 ^ exponent[p][SideOf(p, t)]
ReserveOut(p, t) == Unit * 2 ^ exponent[p][3 - SideOf(p, t)]

(* CalculateEdgeWeights: minus the logarithm of the rate after the fee.    *)
Weight(p, t) == LogScale * (exponent[p][SideOf(p, t)] - exponent[p][3 - SideOf(p, t)]) + FeeLog

(* GetAmountOut, with its factors of 10000 divided by ten.                 *)
AmountOut(p, t, in) ==
    IF in <= 0 THEN 0
    ELSE (in * 997 * ReserveOut(p, t)) \div (ReserveIn(p, t) * 1000 + in * 997)

(* Mutant: the quotient is not rounded up.                                 *)
AmountInUnrounded(p, t, out) ==
    IF out <= 0 THEN 0
    ELSE (ReserveIn(p, t) * out * 1000) \div ((ReserveOut(p, t) - out) * 997)

(* GetAmountIn: what must go in at t for out to come out.                  *)
AmountIn(p, t, out) ==
    IF out <= 0 THEN 0
    ELSE (ReserveIn(p, t) * out * 1000) \div ((ReserveOut(p, t) - out) * 997) + 1

PriceImpact(p, t, in) == (in * 10000) \div ReserveIn(p, t)

Fee(in) == (in * 30) \div 10000

(* simulateRoute: the amounts along the hops, each hop <<pool, token in>>; *)
(* nothing when an amount comes out as zero.                               *)
RECURSIVE Simulate(_, _)
Simulate(hops, amounts) ==
    IF hops = <<>> THEN amounts
    ELSE LET out == AmountOut(Head(hops)[1], Head(hops)[2], Last(amounts)) IN
         IF out = 0 THEN <<>> ELSE Simulate(Tail(hops), Append(amounts, out))

Amounts(hops) == Simulate(hops, <<TestAmount>>)

GrossProfit(hops) == IF Amounts(hops) = <<>> THEN 0 ELSE Last(Amounts(hops)) - TestAmount

(* The profit less the fees of all hops, each in the token of its hop.     *)
NetProfit(hops) ==
    IF Amounts(hops) = <<>> THEN 0
    ELSE GrossProfit(hops) - FoldLeft(LAMBDA a, k : a + Fee(Amounts(hops)[k]), 0, [k \in 1 .. Len(hops) |-> k])

(* RouteConstraints.Validate.                                              *)
Validate(hops) ==
    /\ Len(hops) \in 2 .. MaxHops
    /\ NetProfit(hops) >= MinProfit
    /\ GrossProfit(hops) * 10000 >= MinProfitBPS * TestAmount
    /\ Amounts(hops) # <<>> =>
           \A k \in 1 .. Len(hops) : PriceImpact(hops[k][1], hops[k][2], Amounts(hops)[k]) <= MaxImpactBPS

-----------------------------------------------------------------------------
Init ==
    /\ exponent = [p \in P |-> <<0, 0>>] /\ phase = "choose"
    /\ round = 0 /\ todo = {} /\ improved = FALSE
    /\ dist = [t \in Token |-> None] /\ pred = [t \in Token |-> None] /\ visited = {}
    /\ triangles = {} /\ routes = {}

(* The reserves the graph has when a scan begins.                          *)
ScanBegins(e) ==
    /\ phase = "choose"
    /\ exponent' = e /\ phase' = "triangular"
    /\ UNCHANGED <<round, todo, improved, dist, pred, visited, triangles, routes>>

-----------------------------------------------------------------------------
GetNeighbors(t) == {p \in P : t \in ToSet(Tokens[p])}

(* The triangles a, b, c, a there are: three hops, three tokens.           *)
Triangles(a) == {<< <<p, a>>, <<q, TokenOut(p, a)>>, <<r, TokenOut(q, TokenOut(p, a))>> >> :
    p \in GetNeighbors(a), q \in P, r \in P}
IsTriangle(h) ==
    /\ h[2][2] \in ToSet(Tokens[h[2][1]]) /\ h[3][2] \in ToSet(Tokens[h[3][1]])
    /\ h[3][2] # h[1][2] /\ TokenOut(h[3][1], h[3][2]) = h[1][2]

TotalWeight(hops) == FoldLeft(LAMBDA a, h : a + Weight(h[1], h[2]), 0, hops)

(* Mutant: the weight of the closing hop is left out.                      *)
SkippedOnTwoHops(h) == TotalWeight(SubSeq(h, 1, 2)) >= 0

(* The triangles findTriangularFrom does not build a route for.            *)
Skipped(h) == TotalWeight(h) >= 0

(* findTriangularFrom.                                                     *)
FindTriangular ==
    /\ phase = "triangular" /\ phase' = "relax"
    /\ triangles' = {h \in Triangles(Start) : IsTriangle(h) /\ ~ Skipped(h) /\ Validate(h)}
    /\ dist' = [t \in Token |-> IF t = Start THEN 0 ELSE None]
    /\ round' = 0 /\ improved' = TRUE /\ todo' = {}
    /\ UNCHANGED <<exponent, pred, visited, routes>>

-----------------------------------------------------------------------------
(* FindRoutes: iterations over all nodes, in the order of a Go map; the    *)
(* edges of a node are relaxed one after the other.                        *)
Iterations == IF MaxHops + 1 > Cardinality(Token) - 1 THEN Cardinality(Token) - 1 ELSE MaxHops + 1

NextRound ==
    /\ phase = "relax" /\ todo = {} /\ improved /\ round < Iterations
    /\ round' = round + 1 /\ todo' = Token /\ improved' = FALSE
    /\ UNCHANGED <<exponent, phase, dist, pred, visited, triangles, routes>>

Shorter(d, p, t) ==
    /\ d[t] # None
    /\ d[TokenOut(p, t)] = None \/ d[t] + Weight(p, t) < d[TokenOut(p, t)]

Relaxed(t, d0, p0) ==
    FoldLeft(LAMBDA a, p : IF t \in ToSet(Tokens[p]) /\ Shorter(a.dist, p, t)
                           THEN [dist |-> [a.dist EXCEPT ![TokenOut(p, t)] = a.dist[t] + Weight(p, t)],
                                 pred |-> [a.pred EXCEPT ![TokenOut(p, t)] = <<t, p>>]]
                           ELSE a,
             [dist |-> d0, pred |-> p0], Pool)

Relax(t) ==
    /\ phase = "relax" /\ t \in todo
    /\ LET a == Relaxed(t, dist, pred) IN
       /\ dist' = a.dist /\ pred' = a.pred
       /\ improved' = (improved \/ a.dist # dist)
    /\ todo' = todo \ {t}
    /\ UNCHANGED <<exponent, phase, round, visited, triangles, routes>>

BeginDetect ==
    /\ phase = "relax" /\ todo = {} /\ (~ improved \/ round = Iterations)
    /\ phase' = "detect" /\ todo' = Token
    /\ UNCHANGED <<exponent, round, improved, dist, pred, visited, triangles, routes>>

(* traceCycle from start, reached over the edge last: the predecessors are *)
(* followed until one has been seen.  The nodes gathered are those the     *)
(* edges lead to, seen[start] is 0 though start is second in the list.     *)
RECURSIVE Trace(_, _, _, _, _)
Trace(nodes, es, current, seen, i) ==
    IF i = 0 \/ pred[current] = None
    THEN [nodes |-> nodes, edges |-> es, cut |-> FALSE]
    ELSE LET from == pred[current][1]
             n == Append(nodes, current)
             e == Append(es, pred[current][2]) IN
         IF from \in DOMAIN seen
         THEN [nodes |-> SubSeq(n, seen[from] + 1, Len(n)), edges |-> SubSeq(e, seen[from] + 1, Len(e)), cut |-> TRUE]
         ELSE Trace(n, e, from, [t \in DOMAIN seen \cup {from} |-> IF t = from THEN Len(n) ELSE seen[t]], i - 1)

TraceCycle(start, last) ==
    Trace(<<TokenOut(last, start)>>, <<last>>, start, [t \in {start} |-> 0], MaxHops + 1)

(* The weights of the nodes with their edges, as the code adds them up: on *)
(* the way, of an edge from where it starts; after the cut, of an edge     *)
(* from where it ends.                                                     *)
CycleWeight(c, start) ==
    IF c.cut
    THEN FoldLeft(LAMBDA a, k : a + Weight(c.edges[k], c.nodes[k]), 0, [k \in 1 .. Len(c.edges) |-> k])
    ELSE Weight(c.edges[1], start) +
         FoldLeft(LAMBDA a, k : a + Weight(c.edges[k], TokenOut(c.edges[k], c.nodes[k])), 0,
                  [k \in 1 .. Len(c.edges) - 1 |-> k + 1])

(* cycleToRoute: nodes and edges in reverse order.                         *)
CycleToRoute(c) == [k \in 1 .. Len(c.edges) |-> <<Reverse(c.edges)[k], Reverse(c.nodes)[k]>>]

Cycles(t) == FoldLeft(LAMBDA a, p :
    LET n == TokenOut(p, t)
        c == TraceCycle(n, p) IN
    IF t \in ToSet(Tokens[p]) /\ Shorter(dist, p, t) /\ n \notin a.visited
       /\ Len(c.nodes) >= 2 /\ CycleWeight(c, n) < 0
    THEN [visited |-> a.visited \cup {n}, found |-> a.found \cup {CycleToRoute(c)}]
    ELSE a,
    [visited |-> visited, found |-> {}], Pool)

(* detectNegativeCycles at one node, and the routes made of what it finds. *)
Detect(t) ==
    /\ phase = "detect" /\ t \in todo
    /\ todo' = todo \ {t}
    /\ visited' = Cycles(t).visited
    /\ routes' = routes \cup {h \in Cycles(t).found : Validate(h)}
    /\ phase' = IF todo = {t} THEN "done" ELSE phase
    /\ UNCHANGED <<exponent, round, improved, dist, pred, triangles>>

-----------------------------------------------------------------------------
Next ==
    \/ \E e \in [P -> Exponents \X Exponents] : ScanBegins(e)
    \/ FindTriangular
    \/ NextRound \/ BeginDetect
    \/ \E t \in Token : Relax(t) \/ Detect(t)

Spec == Init /\ [][Next]_vars

-----------------------------------------------------------------------------
(* Skipping a triangle whose weights sum to zero or more loses nothing: no *)
(* such triangle would bring back more than went in, whatever the          *)
(* reserves.                                                               *)
SkippedIsUnprofitable ==
    phase # "choose" => \A h \in Triangles(Start) : IsTriangle(h) /\ Skipped(h) => GrossProfit(h) <= 0

(* GetAmountIn asks for enough: putting in what it names brings out at     *)
(* least what was wanted, rounding included.                               *)
AmountInSuffices ==
    phase = "triangular" => \A p \in P : \A t \in ToSet(Tokens[p]), out \in 1 .. TestAmount :
        AmountOut(p, t, AmountIn(p, t, out)) >= out
=============================================================================
