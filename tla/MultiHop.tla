------------------------------ MODULE MultiHop ------------------------------
(***************************************************************************)
(* MultiHopDetector (arb/zeam_multihop.go) with its NeuralRouteFinder, its *)
(* RouteCache and its pressure trackers, and the goroutine that starts it  *)
(* (startHybridP2P in cmd/main.go).  What a search finds is Routing's      *)
(* subject: here a search finds any routes of Found.                       *)
(*                                                                         *)
(* A route's ID is a hash of its start token and its pools, so the same    *)
(* path found twice, by one finder or by both, has one entry in the cache. *)
(* The cache is two maps and no lock: an Add is two writes, and readers    *)
(* that delete come between them.                                          *)
(***************************************************************************)
EXTENDS Naturals, Sequences, FiniteSets, SequencesExt, TLC

CONSTANTS
    Path,               \* the cycles of pools a search can find
    StartToken,         \* the token each of them starts at
    Profits,            \* what the routes of a search can be worth, in bps
    MinProfitBPS,       \* NeuralConfig.MinProfitBPS
    RouteTTL, NeuralTTL,\* how long a route of either finder is valid
    ExecutionPressure,  \* NeuralConfig.ExecutionPressure
    MaxFound,           \* bound: routes of one search
    MaxSearches,        \* bound: searches of both finders
    MaxNow              \* bound on the clock

VARIABLES
    caller,       \* startHybridP2P: see Callers
    cancelled,    \* ctx
    stopper,      \* a caller of Stop
    rebuild,      \* graphRebuildLoop
    scan, scanned,      \* routeScanLoop, and the ranked routes it publishes
    neural, explored,   \* explorationLoop, and the routes it still processes
    routes, expiries,   \* RouteCache: two partial functions of the ID
    stats,        \* RoutesFound, RoutesFiltered, BestProfitBPS
    discovered,   \* routes of the scan handed to OnRouteDiscovered
    pressure,     \* NeuralRouteFinder.pressure at the chain
    served,       \* the routes GetRecentRoutes last answered
    servedAt,     \* when it did
    until,        \* history: until when the last find of a path was good
    searches, now

cache == <<routes, expiries>>
answer == <<served, servedAt>>

vars == <<caller, cancelled, stopper, rebuild, scan, scanned, neural, explored, cache,
          stats, discovered, pressure, answer, until, searches, now>>

loops == <<rebuild, scan, scanned, neural, explored>>
results == <<cache, stats, discovered, pressure, answer, until, searches>>

Callers ==
    {"new", "registry", "loops", "finder", "decaying", "returned", "crashed"}

Init ==
    /\ caller = "new" /\ cancelled = FALSE /\ stopper = "idle"
    /\ rebuild = "off" /\ scan = "off" /\ scanned = <<>>
    /\ neural = "off" /\ explored = <<>>
    /\ routes = <<>> /\ expiries = <<>>
    /\ stats = [found |-> 0, filtered |-> 0, best |-> 0]
    /\ discovered = {} /\ pressure = 0
    /\ served = {} /\ servedAt = 0 /\ until = [p \in Path |-> 0]
    /\ searches = 0 /\ now = 0

-----------------------------------------------------------------------------
(* Start, as startHybridP2P calls it.                                      *)

(* The pools are loaded; the registry's Start has no error to return.      *)
StartRegistry ==
    /\ caller = "new"
    /\ caller' = "registry"
    /\ UNCHANGED <<cancelled, stopper, loops, results, now>>

(* The graph is built once, then rebuilt by a loop of its own.             *)
StartLoops ==
    /\ caller = "registry"
    /\ rebuild' = "waiting" /\ scan' = "waiting"
    /\ caller' = "loops"
    /\ UNCHANGED <<cancelled, stopper, scanned, neural, explored, results, now>>

StartNeuralFinder ==
    /\ caller = "loops"
    /\ neural' = "waiting"
    /\ caller' = "finder"
    /\ UNCHANGED <<cancelled, stopper, rebuild, scan, scanned, explored, results, now>>

(* pressure.StartDecayLoop is called, not started: it returns when stopCh  *)
(* is closed, which is when ctx is cancelled.                              *)
StartDecayLoop ==
    /\ caller = "finder"
    /\ caller' = "decaying"
    /\ UNCHANGED <<cancelled, stopper, loops, results, now>>

StartReturns ==
    /\ caller = "decaying" /\ cancelled
    /\ caller' = "returned"
    /\ UNCHANGED <<cancelled, stopper, loops, results, now>>

(* Stop, of a detector that is up: it cancels ctx and waits for the two    *)
(* loops of wg.  The exploration loop is not among them.                   *)
Cancel ==
    /\ stopper = "idle" /\ caller = "decaying"
    /\ cancelled' = TRUE /\ stopper' = "waiting"
    /\ UNCHANGED <<caller, loops, results, now>>

StopReturns ==
    /\ stopper = "waiting" /\ rebuild \in {"off", "ended"} /\ scan \in {"off", "ended"}
    /\ stopper' = "returned"
    /\ UNCHANGED <<caller, cancelled, loops, results, now>>

-----------------------------------------------------------------------------
(* The loops.                                                              *)

(* rebuildGraph is TokenGraph's Build, which Market models.                *)
RebuildTick ==
    /\ rebuild = "waiting" /\ cancelled
    /\ rebuild' = "ended"
    /\ UNCHANGED <<caller, cancelled, stopper, scan, scanned, neural, explored, results, now>>

Found(ttl) == SeqOf([path : Path, profit : Profits, expires : {now + ttl}], MaxFound)

Finds(found) ==
    until' = [p \in Path |->
                Max({until[p]} \cup {r.expires : r \in {q \in Range(found) : q.path = p}})]

(* FilterRoutes and RankRoutes: what the filter leaves, in another order.  *)
Ranked(found) == UNION {SetToSeqs(kept) : kept \in SUBSET Range(found)}

\* Mutant: only the routes found are counted before they are published.
ScanCountsLater(found, ranked) ==
    stats' = [stats EXCEPT !.found = @ + Len(found)]

(* The statistics of a scan, under mhd.mu.                                 *)
ScanCounts(found, ranked) ==
    stats' = [found    |-> stats.found + Len(found),
              filtered |-> stats.filtered + Len(found) - Len(ranked),
              best     |-> Max({stats.best} \cup {r.profit : r \in Range(ranked)})]

(* scanForRoutes: search, filter, rank, count.                             *)
ScanForRoutes ==
    /\ scan = "waiting" /\ searches < MaxSearches
    /\ searches' = searches + 1
    /\ \E found \in Found(RouteTTL) : \E ranked \in Ranked(found) :
        /\ Finds(found)
        /\ ScanCounts(found, ranked)
        /\ scanned' = ranked
        /\ scan' = IF ranked = <<>> THEN "waiting" ELSE "adding"
    /\ UNCHANGED <<caller, cancelled, stopper, rebuild, neural, explored, cache,
                   discovered, pressure, answer, now>>

\* Mutant: the hash leaves the pools out.
RouteIDOfStart(r) == <<StartToken[r.path]>>

(* generateRouteID: the start token and the pools.  The time it also       *)
(* covers changes every half year.                                         *)
RouteID(r) == <<StartToken[r.path], r.path>>

(* RouteCache.Add: the route, then its expiry.                             *)
Add(write, r) ==
    IF write = 1
    THEN routes' = (RouteID(r) :> r) @@ routes /\ UNCHANGED expiries
    ELSE expiries' = (RouteID(r) :> r.expires) @@ expiries /\ UNCHANGED routes

ScanAdds ==
    /\ scan \in {"adding", "expiring"}
    /\ Add(IF scan = "adding" THEN 1 ELSE 2, Head(scanned))
    /\ scan' = IF scan = "adding" THEN "expiring" ELSE "publishing"
    /\ UNCHANGED <<caller, cancelled, stopper, rebuild, scanned, neural, explored, stats,
                   discovered, pressure, answer, until, searches, now>>

ScanPublishes ==
    /\ scan = "publishing"
    /\ discovered' = discovered \cup {Head(scanned)}
    /\ scanned' = Tail(scanned)
    /\ scan' = IF scanned' = <<>> THEN "waiting" ELSE "adding"
    /\ UNCHANGED <<caller, cancelled, stopper, rebuild, neural, explored, cache, stats,
                   pressure, answer, until, searches, now>>

ScanEnds ==
    /\ scan = "waiting" /\ cancelled
    /\ scan' = "ended"
    /\ UNCHANGED <<caller, cancelled, stopper, rebuild, scanned, neural, explored, results, now>>

(* exploreOnce: a token chosen by the flow, and the routes found from it.  *)
ExploreOnce ==
    /\ neural = "waiting" /\ searches < MaxSearches
    /\ searches' = searches + 1
    /\ explored' \in Found(NeuralTTL)
    /\ Finds(explored')
    /\ neural' = IF explored' = <<>> THEN "waiting" ELSE "processing"
    /\ UNCHANGED <<caller, cancelled, stopper, rebuild, scan, scanned, cache, stats,
                   discovered, pressure, answer, now>>

(* processRoute: a route below the minimum is left alone; another one adds *)
(* its pressure and goes to handleNeuralRouteFound, which adds it to the   *)
(* cache without a look at its liquidity.                                  *)
ProcessRoute ==
    /\ neural = "processing"
    /\ IF Head(explored).profit < MinProfitBPS
       THEN /\ explored' = Tail(explored)
            /\ neural' = IF explored' = <<>> THEN "waiting" ELSE "processing"
            /\ UNCHANGED pressure
       ELSE /\ pressure' = pressure + Head(explored).profit
            /\ neural' = "adding"
            /\ UNCHANGED explored
    /\ UNCHANGED <<caller, cancelled, stopper, rebuild, scan, scanned, cache, stats,
                   discovered, answer, until, searches, now>>

NeuralAdds ==
    /\ neural \in {"adding", "expiring"}
    /\ Add(IF neural = "adding" THEN 1 ELSE 2, Head(explored))
    /\ neural' = IF neural = "adding" THEN "expiring" ELSE "measuring"
    /\ UNCHANGED <<caller, cancelled, stopper, rebuild, scan, scanned, explored, stats,
                   discovered, pressure, answer, until, searches, now>>

(* The pressure is read again: at the threshold a collapse is counted and  *)
(* handlePressureSpike looks for a route, which drops an expired one.      *)
Valid == {id \in DOMAIN routes : id \in DOMAIN expiries /\ now < expiries[id]}

(* GetValid deletes what it does not answer.                               *)
GetValid ==
    /\ routes' = Restrict(routes, Valid)
    /\ expiries' = Restrict(expiries, DOMAIN expiries \ (DOMAIN routes \ Valid))

MeasurePressure ==
    /\ neural = "measuring"
    /\ IF pressure >= ExecutionPressure
       THEN GetValid
       ELSE UNCHANGED cache
    /\ explored' = Tail(explored)
    /\ neural' = IF explored' = <<>> THEN "waiting" ELSE "processing"
    /\ UNCHANGED <<caller, cancelled, stopper, rebuild, scan, scanned, stats, discovered,
                   pressure, answer, until, searches, now>>

NeuralEnds ==
    /\ neural = "waiting" /\ cancelled
    /\ neural' = "ended"
    /\ UNCHANGED <<caller, cancelled, stopper, rebuild, scan, scanned, explored, results, now>>

-----------------------------------------------------------------------------
(* Requests and time.                                                      *)

GetRecentRoutes ==
    /\ served' = {routes[id] : id \in Valid}
    /\ servedAt' = now
    /\ GetValid
    /\ UNCHANGED <<caller, cancelled, stopper, loops, stats, discovered, pressure, until, searches, now>>

(* The maps have no lock: when two goroutines are in the cache at once the *)
(* Go runtime may notice, and then it ends the process.                    *)
Crash ==
    /\ scan \in {"adding", "expiring"} /\ neural \in {"adding", "expiring"}
    /\ caller' = "crashed"
    /\ UNCHANGED <<cancelled, stopper, loops, results, now>>

(* Time passes, and the pressure of the chain is halved.                   *)
Pass ==
    /\ now < MaxNow
    /\ now' = now + 1
    /\ pressure' = pressure \div 2
    /\ UNCHANGED <<caller, cancelled, stopper, loops, cache, stats, discovered,
                   answer, until, searches>>

Starting == StartRegistry \/ StartLoops \/ StartNeuralFinder \/ StartDecayLoop \/ StartReturns
Scanning == ScanAdds \/ ScanPublishes \/ ScanEnds
Exploring == ProcessRoute \/ NeuralAdds \/ MeasurePressure \/ NeuralEnds

Next ==
    /\ caller # "crashed"
    /\ \/ Starting \/ Cancel \/ StopReturns
       \/ RebuildTick \/ ScanForRoutes \/ Scanning \/ ExploreOnce \/ Exploring
       \/ GetRecentRoutes \/ Pass \/ Crash

Spec == Init /\ [][Next]_vars

(* What happens while the process has not crashed.                         *)
Running(A) == caller # "crashed" /\ A

-----------------------------------------------------------------------------
(* Whatever the interleaving of the two finders, the readers and the       *)
(* deletions, GetRecentRoutes answers a path only while some find of that  *)
(* very path is still good: an entry without an expiry is not answered,    *)
(* and no other path's expiry vouches for it.                              *)
ServedIsVouched == \A r \in served : servedAt < until[r.path]

(* A route of the scan that anyone has been told of is in the statistics:  *)
(* BestProfitBPS is no less than its profit, and the routes found without  *)
(* the ones filtered out are no fewer than the routes discovered.          *)
DiscoveredIsCounted ==
    /\ \A r \in discovered : r.profit <= stats.best
    /\ Cardinality(discovered) <= stats.found - stats.filtered

(* "[ZEAM] Multi-hop arbitrage detector started (feeds NGAC pressure)":    *)
(* startHybridP2P prints it, and goes on to the flow orchestrator and its  *)
(* strategies, when Start has returned.                                    *)
DetectorIsStarted == (caller = "new") ~> (caller = "returned")
=============================================================================
