------------------------------- MODULE Prices -------------------------------
(***************************************************************************)
(* The PriceFeed (arb/prices.go), the WSPriceFeed that fills it from the   *)
(* swap logs of the chains (arb/rpc_prices.go), and the                    *)
(* OpportunityDetector that its spread alerts start                        *)
(* (arb/opportunities.go), for one pair of tokens.  pf.mu and od.mu make   *)
(* their methods single steps; between two of them the pools trade, logs   *)
(* arrive and other goroutines run.                                        *)
(*                                                                         *)
(* A price is a small number; of the score of an opportunity only that it  *)
(* may fail the threshold, or be the lowest, is kept, and of its ID what   *)
(* ComputeID hashes: the chains and a coarse time.                         *)
(***************************************************************************)
EXTENDS Naturals, Sequences, SequencesExt, FiniteSets

CONSTANTS
    Chain, Dex, Price,
    MaxPriceAge, MaxPricesPerPair,
    SpreadAlertBPS,     \* of the PriceFeed
    MinSpreadBPS,       \* of the OpportunityDetector
    MaxConcurrent, MaxOpportunityAge,
    Bucket,             \* how long ComputeID takes two times for the same
    Handler,            \* goroutines of handleSpreadAlert
    None,
    MaxSwaps, MaxNow    \* bounds: swaps and reads of pools; the clock

VARIABLES
    now,
    pool,      \* external: the price of each pool, one for a chain and a DEX
    ws,        \* each chain's goroutine: "off", "dialled", "subscribed", "ended"
    logs,      \* logsCh of each chain: pools and prices after their swaps
    fetch,     \* each pool's goroutine of refreshChainPrices: the price read
    prices,    \* pf.prices of the pair
    ingested,  \* history: every price point that IngestPrice was given
    alerts,    \* goroutines of OnSpreadAlert that have not run yet
    handler,   \* the ones that are running
    opps,      \* od.opportunities
    swaps

vars == <<now, pool, ws, logs, fetch, prices, ingested, alerts, handler, opps, swaps>>

Pool == Chain \X Dex
Point == [chain : Chain, dex : Dex, price : Price, time : 0..MaxNow]
Idle == [pc |-> "idle", buy |-> None, sell |-> None, at |-> None]

Init ==
    /\ now = MaxPriceAge
    /\ pool \in [Pool -> {CHOOSE p \in Price : \A q \in Price : p <= q}]
    /\ ws = [c \in Chain |-> "off"]
    /\ logs = [c \in Chain |-> << >>]
    /\ fetch = [p \in Pool |-> None]
    /\ prices = << >> /\ ingested = {} /\ alerts = 0 /\ swaps = 0
    /\ handler = [h \in Handler |-> Idle]
    /\ opps = {}

-----------------------------------------------------------------------------
(* calculateSpreadBPS of a rise and of a fall, cut towards zero.           *)
SpreadBPS(p, q) == IF q >= p THEN ((q - p) * 10000) \div p ELSE ((p - q) * 10000) \div p

Recent(p) == p.time + MaxPriceAge > now

(* Mutant: the points stay in the order they arrived in.                   *)
ByArrival(points) == points

(* sort.Slice by Timestamp; points of one time may come in any order, and  *)
(* here stay in the order they arrived in.                                 *)
ByTime(points) ==
    LET Earlier(i, j) == \/ points[i].time < points[j].time
                         \/ points[i].time = points[j].time /\ i < j
        Rank(i) == 1 + Cardinality({j \in DOMAIN points : Earlier(j, i)})
    IN  [n \in DOMAIN points |-> points[CHOOSE i \in DOMAIN points : Rank(i) = n]]

LastN(s, n) == IF Len(s) > n THEN SubSeq(s, Len(s) - n + 1, Len(s)) ELSE s

(* GetLatestPrice: the last point of the chain.                            *)
Latest(points, c) ==
    LET I == {i \in DOMAIN points : points[i].chain = c}
    IN  IF I = {} THEN None ELSE points[CHOOSE i \in I : \A j \in I : j <= i]

(* The newest point of each chain, as checkSpreadAlert finds it: the first *)
(* of those with the greatest Timestamp.                                   *)
Newest(points, c) ==
    LET I == {i \in DOMAIN points : points[i].chain = c}
        J == {i \in I : \A j \in I : points[j].time <= points[i].time}
    IN  IF I = {} THEN None ELSE points[CHOOSE i \in J : \A j \in J : i <= j]

(* How many alerts checkSpreadAlert may raise that handleSpreadAlert does  *)
(* not refuse.  It takes the chains from a map: which price of two divides *)
(* the difference is open.                                                 *)
CheckSpreadAlert(points) ==
    LET Heads == {Newest(points, c) : c \in Chain} \ {None}
        Alerting(p, q) == /\ SpreadBPS(p.price, q.price) > SpreadAlertBPS
                          /\ SpreadBPS(p.price, q.price) >= MinSpreadBPS
        Pairs == {H \in SUBSET Heads : Cardinality(H) = 2}
        Surely == {H \in Pairs : \A p, q \in H : p # q => Alerting(p, q)}
        Perhaps == {H \in Pairs : \E p, q \in H : Alerting(p, q)}
    IN  Cardinality(Surely)..Cardinality(Perhaps)

IngestPrice(point) ==
    LET kept == LastN(ByTime(SelectSeq(Append(prices, point), Recent)), MaxPricesPerPair)
    IN  /\ prices' = kept
        /\ ingested' = ingested \union {point}
        /\ \E raised \in CheckSpreadAlert(kept) : alerts' = alerts + raised

(* SetPrice stamps what it is given with the time of the call.             *)
SetPrice(c, d, p) == IngestPrice([chain |-> c, dex |-> d, price |-> p, time |-> now])

(* IngestSwapEvent keeps the time of the event.                            *)
IngestSwapEvent(c, d, t) ==
    /\ swaps < MaxSwaps
    /\ swaps' = swaps + 1
    /\ IngestPrice([chain |-> c, dex |-> d, price |-> pool[c, d], time |-> t])
    /\ UNCHANGED <<now, pool, ws, logs, fetch, handler, opps>>

-----------------------------------------------------------------------------
Tick ==
    /\ now < MaxNow
    /\ now' = now + 1
    /\ UNCHANGED <<pool, ws, logs, fetch, prices, ingested, alerts, handler, opps, swaps>>

(* Start dials every chain; one that cannot be reached is left out.        *)
WSStart ==
    /\ \A c \in Chain : ws[c] = "off"
    /\ ws' \in [Chain -> {"dialled", "ended"}]
    /\ UNCHANGED <<now, pool, logs, fetch, prices, ingested, alerts, handler, opps, swaps>>

(* subscribeChain returns when the subscription fails, and nothing renews  *)
(* it.                                                                     *)
SubscribeChain(c) ==
    /\ ws[c] = "dialled"
    /\ ws' = [ws EXCEPT ![c] = "subscribed"]
    /\ UNCHANGED <<now, pool, logs, fetch, prices, ingested, alerts, handler, opps, swaps>>

SubscriptionEnds(c) ==
    /\ ws[c] \in {"dialled", "subscribed"}
    /\ ws' = [ws EXCEPT ![c] = "ended"]
    /\ logs' = [logs EXCEPT ![c] = << >>]
    /\ UNCHANGED <<now, pool, fetch, prices, ingested, alerts, handler, opps, swaps>>

WSStop ==
    /\ \E c \in Chain : ws[c] # "off"
    /\ ws' = [c \in Chain |-> "ended"]
    /\ logs' = [c \in Chain |-> << >>]
    /\ UNCHANGED <<now, pool, fetch, prices, ingested, alerts, handler, opps, swaps>>

(* A pool trades; a subscribed node gets the log of it.                    *)
Trade(c, d, p) ==
    /\ swaps < MaxSwaps
    /\ swaps' = swaps + 1
    /\ pool' = [pool EXCEPT ![c, d] = p]
    /\ logs' = IF ws[c] = "subscribed" THEN [logs EXCEPT ![c] = Append(@, <<d, p>>)] ELSE logs
    /\ UNCHANGED <<now, ws, fetch, prices, ingested, alerts, handler, opps>>

(* The loop of subscribeChain: parsePriceFromSwap and SetPrice.            *)
OnSwapLog(c) ==
    /\ ws[c] = "subscribed"
    /\ logs[c] # << >>
    /\ SetPrice(c, Head(logs[c])[1], Head(logs[c])[2])
    /\ logs' = [logs EXCEPT ![c] = Tail(@)]
    /\ UNCHANGED <<now, pool, ws, fetch, handler, opps, swaps>>

(* refreshChainPrices: one goroutine for each pool reads the pool and sets *)
(* the price when the answer is there.                                     *)
FetchPoolPrice(c, d) ==
    /\ ws[c] # "off"
    /\ fetch[c, d] = None
    /\ swaps < MaxSwaps
    /\ swaps' = swaps + 1
    /\ fetch' = [fetch EXCEPT ![c, d] = pool[c, d]]
    /\ UNCHANGED <<now, pool, ws, logs, prices, ingested, alerts, handler, opps>>

PoolPriceFetched(c, d) ==
    /\ fetch[c, d] # None
    /\ SetPrice(c, d, fetch[c, d])
    /\ fetch' = [fetch EXCEPT ![c, d] = None]
    /\ UNCHANGED <<now, pool, ws, logs, handler, opps, swaps>>

-----------------------------------------------------------------------------
(* GetBestBuySell: the cheapest and the dearest of the last points of each *)
(* chain and DEX, if they are not of the same one.                         *)
LastOf(c, d) ==
    LET I == {i \in DOMAIN prices : prices[i].chain = c /\ prices[i].dex = d}
    IN  prices[CHOOSE i \in I : \A j \in I : j <= i]
Quoted == {LastOf(q.chain, q.dex) : q \in ToSet(prices)}
BestBuySell ==
    {<<b, s>> \in Quoted \X Quoted :
        /\ \A q \in Quoted : b.price <= q.price /\ q.price <= s.price
        /\ <<b.chain, b.dex>> # <<s.chain, s.dex>>}

(* handleSpreadAlert: pruneExpired, then GetBestBuySell.                   *)
HandleSpreadAlert(h) ==
    /\ handler[h] = Idle
    /\ alerts > 0
    /\ alerts' = alerts - 1
    /\ opps' = {o \in opps : now <= o.expires}
    /\ \/ /\ BestBuySell = {}
          /\ UNCHANGED handler
       \/ \E best \in BestBuySell :
            handler' = [handler EXCEPT ![h] =
              [pc |-> "buy", buy |-> best[1], sell |-> best[2], at |-> None]]
    /\ UNCHANGED <<now, pool, ws, logs, fetch, prices, ingested, swaps>>

(* evaluateOpportunity reads each price anew, and that of the chain        *)
(* whatever the DEX: first the one to buy at,                              *)
LatestBuy(h) ==
    /\ handler[h].pc = "buy"
    /\ handler' = [handler EXCEPT ![h] =
         LET p == Latest(prices, @.buy.chain)
         IN  [@ EXCEPT !.pc = "sell", !.at = p]]
    /\ UNCHANGED <<now, pool, ws, logs, fetch, prices, ingested, alerts, opps, swaps>>

(* then the one to sell at.  Without both, or if the ShotgunFilter or the  *)
(* score refuses it, there is no opportunity; nor if its ID is there.      *)
Opportunity(h) ==
    [id      |-> <<handler[h].buy.chain, handler[h].sell.chain, now \div Bucket>>,
     buy     |-> handler[h].at,
     sell    |-> Latest(prices, handler[h].sell.chain),
     spread  |-> <<handler[h].buy, handler[h].sell>>,
     expires |-> now + MaxOpportunityAge]

EvaluateOpportunity(h) ==
    LET o == Opportunity(h)
        refused == o.buy = None \/ o.sell = None \/ \E q \in opps : q.id = o.id
        lowest == IF Cardinality(opps) >= MaxConcurrent
                  THEN {{q} : q \in opps} ELSE {{}}
    IN  /\ handler[h].pc = "sell"
        /\ handler' = [handler EXCEPT ![h] = Idle]
        /\ \/ UNCHANGED opps
           \/ /\ ~ refused
              /\ \E l \in lowest : opps' = (opps \ l) \union {o}
        /\ UNCHANGED <<now, pool, ws, logs, fetch, prices, ingested, alerts, swaps>>

(* The Executor is done with an opportunity.                               *)
MarkCompleted(o) ==
    /\ opps' = opps \ {o}
    /\ UNCHANGED <<now, pool, ws, logs, fetch, prices, ingested, alerts, handler, swaps>>

Next ==
    \/ Tick \/ WSStart \/ WSStop
    \/ \E c \in Chain : \/ SubscribeChain(c) \/ SubscriptionEnds(c) \/ OnSwapLog(c)
                        \/ \E d \in Dex : \/ \E p \in Price : Trade(c, d, p)
                                          \/ \E t \in 0..now : IngestSwapEvent(c, d, t)
                                          \/ FetchPoolPrice(c, d) \/ PoolPriceFetched(c, d)
    \/ \E h \in Handler : HandleSpreadAlert(h) \/ LatestBuy(h) \/ EvaluateOpportunity(h)
    \/ \E o \in opps : MarkCompleted(o)

Spec == Init /\ [][Next]_vars

-----------------------------------------------------------------------------
(* However late an event arrives, the price that GetLatestPrice gives for  *)
(* a chain is the newest one of that chain that was ever ingested, and     *)
(* what MaxPricesPerPair pushes out is never newer than what is kept.      *)
LatestIsNewest ==
    \A q \in ingested :
        LET p == Latest(prices, q.chain)
        IN  IF p = None
            THEN \A i \in DOMAIN prices : q.time <= prices[i].time
            ELSE q.time <= p.time

(* An opportunity is evaluated at prices that are no older than the ones   *)
(* whose spread raised it, although they are read again, one after the     *)
(* other, while the feed goes on.                                          *)
EvaluatedIsNoOlder ==
    \A o \in opps : /\ o.spread[1].time <= o.buy.time
                    /\ o.spread[2].time <= o.sell.time
=============================================================================
