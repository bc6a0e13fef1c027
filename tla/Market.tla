------------------------------- MODULE Market -------------------------------
(***************************************************************************)
(* Where the arbitrage detector gets its prices: signed price gossip       *)
(* (node/price_gossip.go), the pool registry (arb/discovery/               *)
(* pool_registry.go, factory.go, calldata_parser.go) and the token graph   *)
(* (arb/graph/token_graph.go), as arb/zeam_multihop.go and cmd/main.go     *)
(* wire them together on one chain.                                        *)
(*                                                                         *)
(* Gossip may be lost, repeated and reordered.  The registry and the graph *)
(* have a lock each; the graph reads the two reserves of a pool without    *)
(* the registry's lock, so a build or an update of an edge reads them in   *)
(* two steps.                                                              *)
(***************************************************************************)
EXTENDS Naturals, Integers, Sequences, FiniteSets, FiniteSetsExt, SequencesExt

CONSTANTS
    Source,      \* nodes that broadcast prices
    Pool,        \* pool addresses
    Sorted,      \* Sorted[p]: the two tokens of p, in the order of their addresses
    Bootstrap,   \* the pools LoadBootstrapPools knows
    Quotes,      \* Quotes[s]: the pairs of reserves source s may report
    Swaps,       \* the swaps that are seen: router version, amount in, minimum out
    MaxAge, MinInterval, MinSources, Inactive, \* AggregatorConfig, PriceBroadcaster, RegistryConfig
    MaxBlock, MaxTime, MaxSent, \* bounds: block numbers, the clock, updates sent
    MaxAdds,                    \* bound: DiscoveredPool objects
    None

Token == UNION {ToSet(Sorted[p]) : p \in Pool}

VARIABLES
    now,
    lastBroadcast, \* [source, pool] -> time of the last broadcast, or None
    sent,          \* the updates broadcast so far
    prices,        \* PriceAggregator.prices: per pool, at most one update per source
    heap,          \* the DiscoveredPool objects, in the order of their creation
    pools,         \* PoolRegistry.pools: the object at an address, or None
    tokenPools, pairPools, \* its indexes: lists of addresses
    edges, adjacent, \* TokenGraph.PoolEdges and Edges
    work             \* the graph's lock and the operation that holds it

registry == <<heap, pools, tokenPools, pairPools>>
graph == <<edges, adjacent, work>>
gossip == <<lastBroadcast, sent, prices>>
vars == <<now, gossip, registry, graph>>

Unlocked == [op |-> "none", todo |-> {}, r0 |-> <<>>]

NewPool(p, ts, time) ==
    [addr |-> p, t |-> ts, r |-> <<None, None>>, lastBlock |-> 0, touched |-> FALSE, updated |-> time, scored |-> FALSE]

(* Start loads the bootstrap pools with a placeholder for both reserves    *)
(* and a good score, and builds the graph from them.                       *)
Placeholder == <<1000, 1000>>

Init ==
    LET order == SetToSeq(Bootstrap) IN
    /\ now = 0 /\ sent = {} /\ prices = [p \in Pool |-> {}]
    /\ lastBroadcast = [x \in Source \X Pool |-> None]
    /\ heap = [k \in 1 .. Len(order) |-> [NewPool(order[k], Sorted[order[k]], 0) EXCEPT !.r = Placeholder, !.scored = TRUE]]
    /\ pools = [p \in Pool |-> IF p \in Bootstrap THEN CHOOSE k \in 1 .. Len(order) : order[k] = p ELSE None]
    /\ tokenPools = [t \in Token |-> SelectSeq(order, LAMBDA p : t \in ToSet(Sorted[p]))]
    /\ pairPools = [s \in {ToSet(Sorted[p]) : p \in Pool} |-> SelectSeq(order, LAMBDA p : ToSet(Sorted[p]) = s)]
    /\ edges = [p \in Pool |-> IF p \in Bootstrap THEN [t |-> Sorted[p], r |-> Placeholder] ELSE None]
    /\ adjacent = tokenPools
    /\ work = Unlocked

-----------------------------------------------------------------------------
(* The clock.                                                              *)
Tick ==
    /\ now < MaxTime /\ now' = now + 1
    /\ UNCHANGED <<gossip, registry, graph>>

(* BroadcastPrice: not again before minInterval has passed.                *)
BroadcastPrice(s, p, r, b) ==
    /\ Cardinality(sent) < MaxSent
    /\ lastBroadcast[s, p] # None => now - lastBroadcast[s, p] >= MinInterval
    /\ sent' = sent \cup {[pool |-> p, src |-> s, r |-> r, block |-> b, ts |-> now]}
    /\ lastBroadcast' = [lastBroadcast EXCEPT ![s, p] = now]
    /\ UNCHANGED <<now, prices, registry, graph>>

-----------------------------------------------------------------------------
(* medianBigInt of the i-th reserves: Ascending(us, i, k) is the k-th   *)
(* in ascending order.                                                     *)
Ascending(us, i, k) == CHOOSE v \in {u.r[i] : u \in us} :
    /\ Cardinality({u \in us : u.r[i] < v}) < k
    /\ Cardinality({u \in us : u.r[i] <= v}) >= k

(* Mutant: the largest of the quotes.                                      *)
MedianUpper(us, i) == Ascending(us, i, Cardinality(us))

Median(us, i) ==
    LET n == Cardinality(us)
        mid == n \div 2 IN
    IF n % 2 = 0 THEN (Ascending(us, i, mid) + Ascending(us, i, mid + 1)) \div 2
    ELSE Ascending(us, i, mid + 1)

(* deviation, in basis points of b; MaxDeviationBPS is 100.                *)
Deviation(a, b) == IF b = 0 THEN 10000 ELSE ((IF a < b THEN b - a ELSE a - b) * 10000) \div b

(* The updates aggregate keeps: not older than MaxAge.                     *)
Recent(us) == {u \in us : now - u.ts < MaxAge}

(* calculateConfidence, as the fraction agreeing / total.                  *)
Confidence(us, m) ==
    IF Cardinality(us) < 2 THEN [agreeing |-> 1, total |-> 2]
    ELSE [agreeing |-> Cardinality({u \in us : \A i \in 1 .. 2 : Deviation(u.r[i], m[i]) <= 100}),
          total |-> Cardinality(us)]

(* aggregate: the medians of the reserves, each by itself, under the       *)
(* highest block number any of the recent updates has.                     *)
Aggregate(us) ==
    LET recent == Recent(us)
        m == <<Median(recent, 1), Median(recent, 2)>> IN
    [r |-> m, block |-> Max({u.block : u \in recent}), confidence |-> Confidence(recent, m)]

(* UpdatePoolFromPriceGossip.                                              *)
UpdatePoolFromPriceGossip(p, a) ==
    IF \/ pools[p] = None
       \/ 2 * a.confidence.agreeing < a.confidence.total
       \/ heap[pools[p]].lastBlock >= a.block
    THEN heap
    ELSE [heap EXCEPT ![pools[p]] = [@ EXCEPT !.r = a.r, !.lastBlock = a.block, !.touched = TRUE, !.updated = now]]

(* AddUpdate: an update that is too old is dropped; otherwise it takes the *)
(* place of the last one of its source, whichever is the newer, and with   *)
(* MinSources entries, recent or not, the aggregate goes to the registry.  *)
AddUpdate(u) ==
    LET filtered == {v \in prices[u.pool] : v.src # u.src} \cup {u} IN
    /\ now - u.ts <= MaxAge
    /\ prices' = [prices EXCEPT ![u.pool] = filtered]
    /\ heap' = IF Cardinality(filtered) >= MinSources /\ Recent(filtered) # {}
               THEN UpdatePoolFromPriceGossip(u.pool, Aggregate(filtered)) ELSE heap
    /\ UNCHANGED <<now, lastBroadcast, sent, pools, tokenPools, pairPools, graph>>

-----------------------------------------------------------------------------
(* AddPool; pairKey puts the tokens in order.                              *)
PairKey(t, u) == {t, u}

AddPool(p, ts) ==
    /\ pools[p] = None /\ Len(heap) < MaxAdds
    /\ heap' = Append(heap, NewPool(p, ts, now))
    /\ pools' = [pools EXCEPT ![p] = Len(heap) + 1]
    /\ tokenPools' = [t \in Token |-> IF t \in ToSet(ts) THEN Append(tokenPools[t], p) ELSE tokenPools[t]]
    /\ pairPools' = [pairPools EXCEPT ![PairKey(ts[1], ts[2])] = Append(@, p)]
    /\ UNCHANGED <<now, gossip, graph>>

(* A createPair seen in the mempool: the address is that of the pair, the  *)
(* tokens are in the order of the call.                                    *)
FactoryCall(p) == AddPool(p, Sorted[p]) \/ AddPool(p, Reverse(Sorted[p]))

Registered == {pools[p] : p \in Pool} \ {None}

(* updateAllScores: a pool that has been scored may be in the graph; one   *)
(* that is old may fall below the threshold again.                         *)
UpdateAllScores(S) ==
    /\ Registered # {} /\ S \subseteq Registered
    /\ heap' = [i \in 1 .. Len(heap) |->
                IF i \in Registered THEN [heap[i] EXCEPT !.scored = i \in S] ELSE heap[i]]
    /\ UNCHANGED <<now, gossip, pools, tokenPools, pairPools, graph>>

(* pruneInactivePools: the pool goes, the indexes keep its address.        *)
PruneInactivePools ==
    LET pruned == {i \in Registered : heap[i].touched /\ ~ heap[i].scored /\ now - heap[i].updated > Inactive} IN
    /\ pruned # {}
    /\ pools' = [p \in Pool |-> IF pools[p] \in pruned THEN None ELSE pools[p]]
    /\ UNCHANGED <<now, gossip, heap, tokenPools, pairPools, graph>>

Live(addrs) == SelectSeq(addrs, LAMBDA p : pools[p] # None)
GetPoolsForToken(t) == Live(tokenPools[t])
GetPoolsForPair(t, u) == Live(pairPools[PairKey(t, u)])

-----------------------------------------------------------------------------
(* parseRouterCalldata on a swap of amount in for at least out: the V2     *)
(* parser takes the offset of the path from the word of the minimum        *)
(* output, and finds the path, 160 bytes on, only when that word happens   *)
(* to say so; the V3 parser reads the tokens one word late, and no pool    *)
(* has the pair it finds.                                                  *)
ParseSwap(version, out) == version = "v2" /\ out = 160

(* handleSwapDetected: the first pool of the pair gets the swap, its       *)
(* reserves raised to a hundred times the amounts, whichever token went    *)
(* in; then its edge is brought up to date.                                *)
Raised(r, a) == IF r = None \/ r < a * 100 THEN a * 100 ELSE r

SwapDetected(version, t, u, in, out) ==
    /\ work.op = "none" /\ ParseSwap(version, out)
    /\ PairKey(t, u) \in DOMAIN pairPools /\ GetPoolsForPair(t, u) # <<>>
    /\ LET i == pools[Head(GetPoolsForPair(t, u))] IN
       /\ heap' = [heap EXCEPT ![i] = [@ EXCEPT !.r = <<Raised(@[1], in), Raised(@[2], out)>>,
                                                !.touched = TRUE, !.updated = now]]
       /\ work' = [op |-> "update", todo |-> {i}, r0 |-> <<>>]
    /\ UNCHANGED <<now, gossip, pools, tokenPools, pairPools, edges, adjacent>>

(* Mutant: the build adds to the lists there are.                          *)
BuildOverOldLists ==
    /\ work.op = "none"
    /\ edges' = [p \in Pool |-> None]
    /\ work' = [op |-> "build", todo |-> {i \in Registered : heap[i].scored}, r0 |-> <<>>]
    /\ UNCHANGED <<now, gossip, registry, adjacent>>

(* Build: under the graph's lock, an empty graph and then one pool after   *)
(* another, in the order of a Go map.                                      *)
BeginBuild ==
    /\ work.op = "none"
    /\ edges' = [p \in Pool |-> None] /\ adjacent' = [t \in Token |-> <<>>]
    /\ work' = [op |-> "build", todo |-> {i \in Registered : heap[i].scored}, r0 |-> <<>>]
    /\ UNCHANGED <<now, gossip, registry>>

(* The first reserve of the next pool is read ...                          *)
ReadReserve0(i) ==
    /\ i \in work.todo /\ work.r0 = <<>>
    /\ work' = [work EXCEPT !.r0 = <<i, heap[i].r[1]>>]
    /\ UNCHANGED <<now, gossip, registry, edges, adjacent>>

(* addPoolEdgeLocked.                                                      *)
AddPoolEdge(p, e) ==
    /\ edges' = [edges EXCEPT ![p] = e]
    /\ adjacent' = [t \in Token |-> IF t \in ToSet(e.t) THEN Append(adjacent[t], p) ELSE adjacent[t]]

(* ... and then the second, and the edge is written: UpdateEdge changes an *)
(* edge that is there, Build adds one.                                     *)
ReadReserve1 ==
    /\ work.r0 # <<>>
    /\ LET o == heap[work.r0[1]]
           r == <<work.r0[2], o.r[2]>> IN
       \/ /\ work.op = "update"
          /\ edges' = IF edges[o.addr] = None THEN edges ELSE [edges EXCEPT ![o.addr].r = r]
          /\ work' = Unlocked /\ UNCHANGED adjacent
       \/ /\ work.op = "build"
          /\ AddPoolEdge(o.addr, [t |-> o.t, r |-> r])
          /\ work' = [work EXCEPT !.todo = @ \ {work.r0[1]}, !.r0 = <<>>]
    /\ UNCHANGED <<now, gossip, registry>>

EndBuild ==
    /\ work.op = "build" /\ work.todo = {}
    /\ work' = Unlocked
    /\ UNCHANGED <<now, gossip, registry, edges, adjacent>>

-----------------------------------------------------------------------------
Next ==
    \/ Tick
    \/ \E s \in Source, p \in Pool, b \in 1 .. MaxBlock : \E r \in Quotes[s] : BroadcastPrice(s, p, r, b)
    \/ \E u \in sent : AddUpdate(u)
    \/ \E p \in Pool : FactoryCall(p)
    \/ \E S \in SUBSET Registered : UpdateAllScores(S)
    \/ PruneInactivePools
    \/ \E t, u \in Token, q \in Swaps : SwapDetected(q[1], t, u, q[2], q[3])
    \/ BeginBuild \/ EndBuild
    \/ \E i \in 1 .. Len(heap) : ReadReserve0(i)
    \/ ReadReserve1

Spec == Init /\ [][Next]_vars

-----------------------------------------------------------------------------
(* No minority of the sources moves the price: each reserve the aggregator *)
(* gives out lies between the least and the greatest value that any        *)
(* majority of the recent sources reported (medianBigInt: the middle of an *)
(* odd number, the mean of the middle two of an even one).                 *)
AggregateIsBracketed ==
    \A p \in Pool : LET us == Recent(prices[p]) IN us # {} =>
        \A S \in SUBSET us, i \in 1 .. 2 : 2 * Cardinality(S) > Cardinality(us) =>
            LET vals == {u.r[i] : u \in S}
                m == Aggregate(prices[p]).r[i] IN
            Min(vals) <= m /\ m <= Max(vals)

(* Every registered pool is found under each of its tokens and under its   *)
(* pair, given in either order, and only registered pools are found, no    *)
(* matter how often pools were pruned and added again; and the graph's     *)
(* lists hold each of its edges once under each of its two tokens.         *)
LookupsAreComplete ==
    /\ \A t \in Token : ToSet(GetPoolsForToken(t)) = {p \in Pool : pools[p] # None /\ t \in ToSet(heap[pools[p]].t)}
    /\ \A p \in Pool : pools[p] # None =>
           LET t == heap[pools[p]].t IN p \in ToSet(GetPoolsForPair(t[2], t[1]))
    /\ \A t \in Token : /\ ToSet(adjacent[t]) = {p \in Pool : edges[p] # None /\ t \in ToSet(edges[p].t)}
                        /\ IsInjective(adjacent[t])
=============================================================================
