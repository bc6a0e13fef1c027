----------------------------- MODULE MCCompute ------------------------------
(***************************************************************************)
(* Arbitrage, cognition and the mesh, for TLC: pools and prices, the       *)
(* search for routes and the cache of routes, presigned transactions,      *)
(* flow strategies, the mempool detector, memory, the backend and Pong.    *)
(* They hold their state apart from each other: a behaviour is one of the  *)
(* part that Init chooses.                                                 *)
(*                                                                         *)
(* Three sources report the reserves of one pool p1.  The graph has the    *)
(* triangle A-B-C and a second pool for A and B.  Presigned transactions   *)
(* lie on the shelf of v2; v9 has no router.  The paddles of Pong are two  *)
(* high in a field of six.                                                 *)
(***************************************************************************)
EXTENDS Integers, Sequences, FiniteSets, TLC

CONSTANTS Part, None, Torn

VARIABLES part,
          now, lastBroadcast, sent, prices, heap, registered, tokenPools,
          pairPools, edges, adjacent, work,
          exponent, phase, round, todo, improved, dist, pred, visited,
          triangles, routes,
          cache, currentNonce, maxNonce, expired, psc, nonces, step, handed,
          steps,
          priceTime, pool, ws, logs, fetch, points, ingested, alerts,
          handler, opps, swaps,
          flowTime, main, stopCh, feed, loop, pressure, signals, strategy,
          pending, recent, queued, events,
          starter, cancelled, stopper, rebuild, scan, scanned, neural,
          explored, cached, expiries, stats, discovered, chainPressure,
          served, servedAt, until, searches, routeTime,
          mempoolTime, detecting, wired, pendingSwaps, injector,
          pendingImpacts, opportunities, shotgunPool, parsed, tracked,
          brain, paths, engrams, context, speaker, saving, file, decaying,
          prompts, upkeep,
          thinking, mindStopped, cycle, monitor, waiting, flow, injections,
          outputs, weights, mood, accepted, answered, felt,
          running, unifiedStopCh, unifiedMonitor, unifiedCycle, worker,
          unifiedStopper, caller, pendingWork, item, concepts,
          unifiedPending, activeQuery, userActivity, flowPressure,
          flowTension, readyToAct, txTimes, unifiedPressure, tension,
          measuredAt, calls, unifiedEvents, unifiedNow,
          mu, enabled, accumulated, live, folded, servicePressure, entries,
          bounds, serviceFelt, attended, req, generating, issued, enables,
          blocks, current, gridPoints, total, wave, telling, told,
          gridRunning, push, pushes,
          game, input, tried

HashOf(left, right, speed, wall, hit, serve) ==
  [paddles |-> <<left, right>>, speed |-> speed, wall |-> wall, hit |-> hit,
   serve |-> serve]

Pools == INSTANCE Market WITH
  Source <- {"s1", "s2", "s3"}, Pool <- {"p1"},
  Sorted <- [p1 |-> <<"a", "b">>], Bootstrap <- {"p1"},
  Quotes <- [s1 |-> {<<1, 400>>}, s2 |-> {<<2, 200>>}, s3 |-> {<<4, 100>>}],
  Swaps <- {<<"v2", 2, 160>>, <<"v2", 2, 1>>, <<"v3", 2, 160>>}, MaxAge <- 1,
  MinInterval <- 1, MinSources <- 2, Inactive <- 0, MaxBlock <- 1,
  MaxTime <- 1, MaxSent <- 3, MaxAdds <- 2, pools <- registered

Search == INSTANCE Routing WITH
  Pool <- <<"ab", "bc", "ca", "ab2">>,
  Tokens <- [ab |-> <<"A", "B">>, bc |-> <<"B", "C">>, ca |-> <<"A", "C">>, ab2 |-> <<"A", "B">>],
  Exponents <- {0, 1}, Unit <- 4000, LogScale <- 1000, FeeLog <- 4,
  TestAmount <- 16, MaxHops <- 4, MinProfit <- 1, MinProfitBPS <- 10,
  MaxImpactBPS <- 100, Start <- "A"

Signed == INSTANCE Presigned WITH
  Shelves <- <<"v2", "v9">>, Routed <- {"v2"}, Amounts <- <<1, 5>>,
  Wanted <- {3, 4}, CacheDepth <- 2, Step <- {"s1", "s2"}, MaxSteps <- 2,
  MaxSigned <- 6, Reported <- {0, 2}

Quotes == INSTANCE Prices WITH
  Chain <- {"c1", "c2"}, Dex <- {"d1"}, Price <- {100, 101},
  MaxPriceAge <- 2, MaxPricesPerPair <- 2, SpreadAlertBPS <- 99,
  MinSpreadBPS <- 10, MaxConcurrent <- 1, MaxOpportunityAge <- 1,
  Bucket <- 2, Handler <- {"h1"}, MaxSwaps <- 3, MaxNow <- 3,
  now <- priceTime, prices <- points

Planner == INSTANCE Flow WITH
  Strategy <- {"cross"}, CrossChain <- {"cross"}, Chain <- {"base", "eth"},
  Base <- "base", TargetChains <- {"base"}, Spread <- {<<"base", "eth">>},
  SignalBuffer <- 1, PrunePeriod <- 1, Window <- 2, Timeout <- 0,
  DedupWindow <- 2, MaxPending <- 1, Bucket <- 2, MaxEvents <- 3,
  MaxNow <- 3, now <- flowTime

Detector == INSTANCE MultiHop WITH
  Path <- {"x", "y"}, StartToken <- [x |-> "t", y |-> "t"],
  Profits <- {1, 3}, MinProfitBPS <- 2, RouteTTL <- 0, NeuralTTL <- 1,
  ExecutionPressure <- 4, MaxFound <- 1, MaxSearches <- 2, MaxNow <- 1,
  caller <- starter, routes <- cached, pressure <- chainPressure,
  now <- routeTime

Impacts == INSTANCE Mempool WITH
  Caller <- {"k1", "k2"}, Tx <- {"t1", "t2"},
  ChainOf <- [t1 |-> "x", t2 |-> "x"],
  Call <- [t1 |-> "exactInput", t2 |-> "multicall"],
  AmountIn <- [t1 |-> 5, t2 |-> 0], Chain <- {"x"}, TxHash <- {"h1"},
  Passing <- {<<"t1", {}>>}, MinPredictedImpact <- 500, ImpactWindow <- 0,
  OpportunityTimeout <- 0, SwapAge <- 0, Bucket <- 2, MaxParsed <- 3,
  MaxNow <- 1, now <- mempoolTime, running <- detecting, handler <- injector

Memory == INSTANCE Brain WITH
  Concept <- {"a", "b", "c", "d"}, Caller <- {"u1"},
  Inputs <- {<<"a", "b">>}, Outputs <- {<<"c">>, <<"c", "d">>},
  MaxEngrams <- 1, MaxTurns <- 2, MaxConcepts <- 2, FocusStackSize <- 1,
  FadeAfter <- 2, FadeOvernight <- 1, MaxPrompts <- 2, MaxUpkeep <- 1,
  caller <- speaker

Mind == INSTANCE ActiveCognition WITH
  Concept <- {"a", "b"}, Heaviest <- 3, Strength <- 2, InjectionSize <- 2,
  OutputSize <- 1, Active <- 1, Named <- 1, MaxInjections <- 2,
  MaxEvents <- 1, running <- thinking, stopCh <- mindStopped, loop <- cycle,
  state <- mood, events <- felt

Unified == INSTANCE Cognition WITH
  Caller <- {"k1", "k2"}, Concept <- {"x"}, MaxWeight <- 1,
  UserStrength <- 1, ResultStrength <- 1, QueueSize <- 1, Full <- 2,
  Window <- 1, MaxCalls <- 2, MaxEvents <- 1, MaxNow <- 0,
  stopCh <- unifiedStopCh, monitor <- unifiedMonitor, cycle <- unifiedCycle,
  stopper <- unifiedStopper, pending <- unifiedPending,
  pressure <- unifiedPressure, events <- unifiedEvents, now <- unifiedNow

Service == INSTANCE Backend WITH
  Caller <- {"c1", "c2"}, Op <- {"text", "collapse", "chain", "hash"},
  Positions <- 2, ContextLen <- 3, MaxLen <- 2, MaxRequests <- 2,
  MaxEvents <- 1, MaxEnables <- 1, pressure <- servicePressure,
  felt <- serviceFelt

Grid == INSTANCE Mesh WITH
  Pusher <- {"feed", "pong"}, Chain <- {"x"}, Amount <- {1, 2},
  Threshold <- 2, MaxPushes <- 2, MaxWave <- 2, points <- gridPoints,
  running <- gridRunning

Game == INSTANCE Pong WITH
  FieldWidth <- 12, FieldHeight <- 6, PaddleHeight <- 2, PaddleWidth <- 1,
  PaddleMargin <- 2, BallSize <- 1, MaxBallSpeed <- 3, PaddleSpeed <- 2,
  InitialBallDX <- 2, InitialBallDY <- 1, WinScore <- 1,
  Hash <- {HashOf(0, 2, 4, 2, 4, 0), HashOf(2, 0, 2, 0, 0, 4)},
  Pressure <- {[speed |-> 0, spin |-> 0, paddle |-> 2, jitter |-> TRUE]}

-----------------------------------------------------------------------------
ofMarket == <<now, lastBroadcast, sent, prices, heap, registered, tokenPools,
              pairPools, edges, adjacent, work>>
ofRouting == <<exponent, phase, round, todo, improved, dist, pred, visited,
               triangles, routes>>
ofPresigned == <<cache, currentNonce, maxNonce, expired, psc, nonces, step,
                 handed, steps>>
ofPrices == <<priceTime, pool, ws, logs, fetch, points, ingested, alerts,
              handler, opps, swaps>>
ofFlow == <<flowTime, main, stopCh, feed, loop, pressure, signals, strategy,
            pending, recent, queued, events>>
ofMultihop == <<starter, cancelled, stopper, rebuild, scan, scanned, neural,
                explored, cached, expiries, stats, discovered, chainPressure,
                served, servedAt, until, searches, routeTime>>
ofMempool == <<mempoolTime, detecting, wired, pendingSwaps, injector,
               pendingImpacts, opportunities, shotgunPool, parsed, tracked>>
ofBrain == <<brain, paths, engrams, context, speaker, saving, file, decaying,
             prompts, upkeep>>
ofCognition == <<thinking, mindStopped, cycle, monitor, waiting, flow,
                 injections, outputs, weights, mood, accepted, answered,
                 felt>>
ofUnified == <<running, unifiedStopCh, unifiedMonitor, unifiedCycle, worker,
               unifiedStopper, caller, pendingWork, item, concepts,
               unifiedPending, activeQuery, userActivity, flowPressure,
               flowTension, readyToAct, txTimes, unifiedPressure, tension,
               measuredAt, calls, unifiedEvents, unifiedNow>>
ofBackend == <<mu, enabled, accumulated, live, folded, servicePressure,
               entries, bounds, serviceFelt, attended, req, generating,
               issued, enables>>
ofMesh == <<blocks, current, gridPoints, total, wave, telling, told,
            gridRunning, push, pushes>>
ofPong == <<game, input, tried>>

Init ==
  /\ part \in Part
  /\ Pools!Init /\ Search!Init /\ Signed!Init /\ Quotes!Init
  /\ Planner!Init /\ Detector!Init /\ Impacts!Init /\ Memory!Init
  /\ Mind!Init /\ Unified!Init /\ Service!Init /\ Grid!Init
  /\ Game!Init

(* The parts that do not run.                                              *)
Rest ==
  /\ UNCHANGED part
  /\ part # "market" => UNCHANGED ofMarket
  /\ part # "routing" => UNCHANGED ofRouting
  /\ part # "presigned" => UNCHANGED ofPresigned
  /\ part # "prices" => UNCHANGED ofPrices
  /\ part # "flow" => UNCHANGED ofFlow
  /\ part # "multihop" => UNCHANGED ofMultihop
  /\ part # "mempool" => UNCHANGED ofMempool
  /\ part # "brain" => UNCHANGED ofBrain
  /\ part # "cognition" => UNCHANGED ofCognition
  /\ part # "unified" => UNCHANGED ofUnified
  /\ part # "backend" => UNCHANGED ofBackend
  /\ part # "mesh" => UNCHANGED ofMesh
  /\ part # "pong" => UNCHANGED ofPong

Next ==
  \/ part = "market" /\ Pools!Next /\ Rest
  \/ part = "routing" /\ Search!Next /\ Rest
  \/ part = "presigned" /\ Signed!Next /\ Rest
  \/ part = "prices" /\ Quotes!Next /\ Rest
  \/ part = "flow" /\ Planner!Next /\ Rest
  \/ part = "multihop" /\ Detector!Next /\ Rest
  \/ part = "mempool" /\ Impacts!Next /\ Rest
  \/ part = "brain" /\ Memory!Next /\ Rest
  \/ part = "cognition" /\ Mind!Next /\ Rest
  \/ part = "unified" /\ Unified!Next /\ Rest
  \/ part = "backend" /\ Service!Next /\ Rest
  \/ part = "mesh" /\ Grid!Next /\ Rest
  \/ part = "pong" /\ Game!Next /\ Rest

vars == <<part, ofMarket, ofRouting, ofPresigned, ofPrices, ofFlow,
          ofMultihop, ofMempool, ofBrain, ofCognition, ofUnified, ofBackend,
          ofMesh, ofPong>>

Spec == Init /\ [][Next]_vars

(* Every goroutine of the detector that can go on does; nobody has to call *)
(* Stop.                                                                   *)
DetectorSpec ==
  /\ Spec
  /\ WF_ofMultihop(Detector!Running(Detector!Starting))
  /\ WF_ofMultihop(Detector!Running(Detector!StopReturns))
  /\ WF_ofMultihop(Detector!Running(Detector!RebuildTick))
  /\ WF_ofMultihop(Detector!Running(Detector!Scanning))
  /\ WF_ofMultihop(Detector!Running(Detector!Exploring))

-----------------------------------------------------------------------------
(* Lists and counters that are kept beside what they are computed from     *)
(* agree with it: the lookups of the pool registry and of the token graph  *)
(* with the pools (pool_registry.go, graph.go), the lists that Resonate    *)
(* counts in with the engrams and pathways that exist (engrams.go,         *)
(* pathways.go), and the total pressure of the mesh, and the block it is   *)
(* put on, with the blocks (pressure.go, mesh.go).  See Market, Brain and  *)
(* Mesh.                                                                   *)
IndexesAreExact ==
  /\ Pools!LookupsAreComplete
  /\ part = "brain" => Memory!ResonanceIsExact
  /\ Grid!PressureIsPlaced

(* The integer arithmetic of the route search errs on the safe side: no    *)
(* triangle that is skipped by its logarithms would pay, and what          *)
(* GetAmountIn asks for suffices.  See Routing.                            *)
QuotesAreSafe == Search!SkippedIsUnprofitable /\ Search!AmountInSuffices

(* No presigned transaction is handed out twice: see Presigned.            *)
HandedOutOnce == Signed!HandedOutOnce

(* No minority of sources moves the aggregated price (see Market), the     *)
(* latest price of a chain is the newest that was ingested, and an         *)
(* opportunity is evaluated at prices no older than the ones that raised   *)
(* it (see Prices).                                                        *)
PricesAreCurrent ==
  /\ Pools!AggregateIsBracketed
  /\ Quotes!LatestIsNewest
  /\ Quotes!EvaluatedIsNoOlder

(* Nothing is queued after the end of its window, and no goroutine is left *)
(* that could queue when Stop has returned: see Flow.                      *)
PlannedInTime == Planner!QueuedInTime /\ Planner!QuietAfterStop

(* A route is served only while a find of its path is good, and one that   *)
(* was announced is counted: see MultiHop.                                 *)
ServedIsVouched == Detector!ServedIsVouched /\ Detector!DiscoveredIsCounted

(* The log of startHybridP2P says that the detector has started: see       *)
(* MultiHop.                                                               *)
DetectorIsStarted == Detector!DetectorIsStarted

(* A recent swap stays in the impact on its pool: see Mempool.             *)
RecentImpactKept == Impacts!RecentImpactKept

(* Answers come in the order of their queries, each at most once (see      *)
(* ActiveCognition), and the hash network attends over whole requests in   *)
(* their order (see Backend).                                              *)
AnswersInOrder == Mind!AnswersInOrder /\ Service!AttendedAreWhole

(* No answer is lost from the collapse context: see Backend.               *)
ContextOnlyGrows == Service!ContextOnlyGrows

(* BroadcastPending never falls behind the work that is queued: see        *)
(* Cognition.                                                              *)
PendingCoversQueue == Unified!PendingCoversQueue

(* Nobody scores past a paddle the ball was not compared with: see Pong.   *)
PointsAreMisses == Game!PointsAreMisses
=============================================================================
