-------------------------------- MODULE Flow --------------------------------
(***************************************************************************)
(* The FlowOrchestrator (arb/orchestrator.go) with its engine              *)
(* (arb/flow_engine.go, arb/flow_state.go), the strategies                 *)
(* (arb/strategy_*.go) and the ExecutionPlanner                            *)
(* (arb/execution_planner.go).  The engine turns events of the network     *)
(* into signals for the strategies, each a goroutine with a channel of its *)
(* own; what a strategy makes of a signal goes to the planner, and from    *)
(* there, at once or after a wait for a flashblock, to the queue.          *)
(*                                                                         *)
(* The parser of the mempool attributes no swap to a pool, so there are no *)
(* forecasts and the only signal that leads to an intent is a coherence    *)
(* drift, in the CrossChainStrategy.  Pressures are "low" or "high" with   *)
(* respect to CoherenceDriftThreshold.                                     *)
(***************************************************************************)
EXTENDS Naturals, Sequences, FiniteSets

CONSTANTS
    Strategy,       \* the registered strategies
    CrossChain,     \* those that are a CrossChainStrategy
    Chain,
    Base,           \* the chain whose intents wait for a flashblock
    TargetChains,
    Spread,         \* pairs of chains the price feed may show a spread for
    SignalBuffer,
    PrunePeriod,    \* signals between two calls of PruneExpired: 100
    Window,         \* ExecutionWindowDuration
    Timeout,        \* FlashblockTimeout
    DedupWindow,
    MaxPending,     \* MaxPendingValidation
    Bucket,         \* how long ComputeID takes two times for the same
    None,
    MaxEvents, MaxNow   \* bounds

VARIABLES
    now,
    main,        \* the thread that starts and stops the orchestrator
    stopCh,      \* fo.stopCh is closed
    feed,        \* feedSub.C: [open, waiting]
    loop,        \* eventLoop: "off", "waiting", "sampling", "drifting", "done"
    pressure,    \* e.chainPressure, of the chains that had a block
    signals,     \* the channel of each subscribed strategy; None: closed
    strategy,    \* each goroutine of runStrategy: [pc, signal, count]
    pending,     \* ep.pendingValidation: intents
    recent,      \* ep.recentIDs: when each ID was queued
    queued,      \* history: what went to the queue: [intent, at]
    events

vars == <<now, main, stopCh, feed, loop, pressure, signals, strategy, pending, recent,
          queued, events>>

ID == Spread \X (0..(MaxNow \div Bucket))
Off == [pc |-> "off", signal |-> None, count |-> 0]

Init ==
    /\ now = 0 /\ main = "new" /\ stopCh = FALSE /\ events = 0
    /\ feed = [open |-> FALSE, waiting |-> 0]
    /\ loop = "off"
    /\ pressure = [c \in Chain |-> None]
    /\ signals = [s \in Strategy |-> None]
    /\ strategy = [s \in Strategy |-> Off]
    /\ pending = {} /\ queued = {}
    /\ recent = [i \in ID |-> None]

Tick ==
    /\ now < MaxNow
    /\ now' = now + 1
    /\ UNCHANGED <<main, stopCh, feed, loop, pressure, signals, strategy, pending, recent,
                   queued, events>>

-----------------------------------------------------------------------------
(* Start: the engine first, which listens and emits from then on, ...      *)
StartEngine ==
    /\ main = "new"
    /\ main' = "starting"
    /\ feed' = [feed EXCEPT !.open = TRUE]
    /\ loop' = "waiting"
    /\ UNCHANGED <<now, stopCh, pressure, signals, strategy, pending, recent, queued, events>>

(* ... then one channel and one goroutine for each strategy in turn.       *)
StartStrategy(s) ==
    /\ main = "starting"
    /\ strategy[s] = Off
    /\ signals' = [signals EXCEPT ![s] = << >>]
    /\ strategy' = [strategy EXCEPT ![s].pc = "waiting"]
    /\ main' = IF \A t \in Strategy \ {s} : strategy[t] # Off THEN "running" ELSE "starting"
    /\ UNCHANGED <<now, stopCh, feed, loop, pressure, pending, recent, queued, events>>

(* Stop closes stopCh, ...                                                 *)
Stop ==
    /\ main = "running"
    /\ main' = "closing"
    /\ stopCh' = TRUE
    /\ UNCHANGED <<now, feed, loop, pressure, signals, strategy, pending, recent, queued, events>>

(* engine.Stop unsubscribes from the feed, ...                             *)
Unsubscribe ==
    /\ main = "closing"
    /\ main' = "unsubscribed"
    /\ feed' = [feed EXCEPT !.open = FALSE]
    /\ UNCHANGED <<now, stopCh, loop, pressure, signals, strategy, pending, recent, queued, events>>

(* waits for the loop and closes the channels of the strategies, ...       *)
EngineStopped ==
    /\ main = "unsubscribed"
    /\ loop = "done"
    /\ main' = "waiting"
    /\ signals' = [s \in Strategy |-> None]
    /\ UNCHANGED <<now, stopCh, feed, loop, pressure, strategy, pending, recent, queued, events>>

(* Mutant: the orchestrator does not wait for its strategies.              *)
StoppedUnawaited ==
    /\ main = "waiting"
    /\ main' = "stopped"
    /\ UNCHANGED <<now, stopCh, feed, loop, pressure, signals, strategy, pending, recent,
                   queued, events>>

(* and the orchestrator waits for its goroutines.                          *)
Stopped ==
    /\ main = "waiting"
    /\ \A s \in Strategy : strategy[s].pc = "done"
    /\ main' = "stopped"
    /\ UNCHANGED <<now, stopCh, feed, loop, pressure, signals, strategy, pending, recent,
                   queued, events>>

-----------------------------------------------------------------------------
(* The feed delivers an event.                                             *)
Deliver ==
    /\ feed.open
    /\ events < MaxEvents
    /\ events' = events + 1
    /\ feed' = [feed EXCEPT !.waiting = @ + 1]
    /\ UNCHANGED <<now, main, stopCh, loop, pressure, signals, strategy, pending, recent, queued>>

(* eventLoop takes an event; only a block changes what the engine keeps    *)
(* and signals depend on: handleBlock.  A closed channel is drained first. *)
HandleEvent ==
    /\ loop = "waiting"
    /\ feed.waiting > 0
    /\ feed' = [feed EXCEPT !.waiting = @ - 1]
    /\ \/ UNCHANGED pressure
       \/ \E c \in Chain, p \in {"low", "high"} : pressure' = [pressure EXCEPT ![c] = p]
    /\ loop' = "sampling"
    /\ UNCHANGED <<now, main, stopCh, signals, strategy, pending, recent, queued, events>>

(* emitSignal: a subscriber whose channel is full misses the signal.       *)
EmitSignal(signal) ==
    signals' = [s \in Strategy |->
        IF signals[s] # None /\ Len(signals[s]) < SignalBuffer
        THEN Append(signals[s], signal) ELSE signals[s]]

(* samplePressure and checkGradientSignals: a spike or a steep gradient is *)
(* signalled; which strategies do with it is the same, nothing.            *)
SamplePressure ==
    /\ loop = "sampling"
    /\ \/ EmitSignal([kind |-> "pressure", chains |-> {}])
       \/ UNCHANGED signals
    /\ loop' \in {"drifting", "waiting"}
    /\ UNCHANGED <<now, main, stopCh, feed, pressure, strategy, pending, recent, queued, events>>

(* checkCoherenceDrift, every 100 events or 10 s: one chain low while the  *)
(* mean is high.                                                           *)
CheckCoherenceDrift ==
    LET known == {c \in Chain : pressure[c] # None}
        low == {c \in known : pressure[c] = "low"}
    IN  /\ loop = "drifting"
        /\ \/ /\ low # {} /\ low # known
              /\ \E drifted \in SUBSET known :
                   /\ low \subseteq drifted
                   /\ EmitSignal([kind |-> "drift", chains |-> drifted])
           \/ UNCHANGED signals
        /\ loop' = "waiting"
        /\ UNCHANGED <<now, main, stopCh, feed, pressure, strategy, pending, recent, queued, events>>

LoopEnds ==
    /\ loop = "waiting"
    /\ ~ feed.open /\ feed.waiting = 0
    /\ loop' = "done"
    /\ UNCHANGED <<now, main, stopCh, feed, pressure, signals, strategy, pending, recent,
                   queued, events>>

-----------------------------------------------------------------------------
(* runStrategy selects between stopCh and the signals, at random when both *)
(* are ready.                                                              *)
StrategyEnds(s) ==
    /\ strategy[s].pc = "waiting"
    /\ stopCh \/ signals[s] = None
    /\ strategy' = [strategy EXCEPT ![s].pc = "done"]
    /\ UNCHANGED <<now, main, stopCh, feed, loop, pressure, signals, pending, recent, queued, events>>

TakeSignal(s) ==
    /\ strategy[s].pc = "waiting"
    /\ signals[s] # None
    /\ signals[s] # << >>
    /\ strategy' = [strategy EXCEPT ![s].pc = "working", ![s].signal = Head(signals[s])]
    /\ signals' = [signals EXCEPT ![s] = Tail(@)]
    /\ UNCHANGED <<now, main, stopCh, feed, loop, pressure, pending, recent, queued, events>>

(* OnSignal of the CrossChainStrategy: onCoherenceDrift takes one target   *)
(* chain that drifted, findCrossChainSpread a spread that buys on it, if   *)
(* there is one and the confidence suffices.  The other strategies need a  *)
(* forecast.                                                               *)
OnSignal(s, signal) ==
    IF s \in CrossChain /\ signal.kind = "drift"
    THEN {None} \union
         {[id |-> <<p, now \div Bucket>>, earliest |-> now, latest |-> now + Window,
           validate |-> p[1] = Base] : p \in {q \in Spread : q[1] \in signal.chains \intersect TargetChains}}
    ELSE {None}

IsExpired(i) == now > i.latest

(* enqueueIntent: the queue may refuse.                                    *)
Enqueue(I) ==
    \E taken \in SUBSET I :
        /\ queued' = queued \union {[intent |-> i, at |-> now] : i \in taken}
        /\ recent' = [j \in ID |-> IF \E i \in taken : i.id = j THEN now ELSE recent[j]]

Recently(id) == recent[id] # None /\ now < recent[id] + DedupWindow

(* SubmitIntent.  Without room among the pending an intent is queued at    *)
(* once.                                                                   *)
SubmitIntent(i) ==
    \/ /\ Recently(i.id) \/ IsExpired(i)
       /\ UNCHANGED <<pending, recent, queued>>
    \/ /\ ~ Recently(i.id) /\ ~ IsExpired(i)
       /\ i.validate /\ Cardinality(pending) < MaxPending
       /\ pending' = {j \in pending : j.id # i.id} \union {i}
       /\ UNCHANGED <<recent, queued>>
    \/ /\ ~ Recently(i.id) /\ ~ IsExpired(i)
       /\ ~ i.validate \/ Cardinality(pending) >= MaxPending
       /\ Enqueue({i})
       /\ UNCHANGED pending

Work(s) ==
    /\ strategy[s].pc = "working"
    /\ \E i \in OnSignal(s, strategy[s].signal) :
         \/ i # None /\ SubmitIntent(i)
         \/ i = None /\ UNCHANGED <<pending, recent, queued>>
    /\ strategy' = [strategy EXCEPT ![s] =
         IF @.count + 1 >= PrunePeriod
         THEN [pc |-> "pruning", signal |-> None, count |-> 0]
         ELSE [pc |-> "waiting", signal |-> None, count |-> @.count + 1]]
    /\ UNCHANGED <<now, main, stopCh, feed, loop, pressure, signals, events>>

TimedOut(i) == now > i.earliest + Timeout

(* Mutant: an intent whose flashblock is overdue is queued, expired or not. *)
DueAtTimeout == {i \in pending : TimedOut(i)}

(* The pending intents that PruneExpired queues.                           *)
Due == {i \in pending : ~ IsExpired(i) /\ TimedOut(i)}

(* PruneExpired.                                                           *)
PruneExpired(s) ==
    /\ strategy[s].pc = "pruning"
    /\ strategy' = [strategy EXCEPT ![s].pc = "waiting"]
    /\ pending' = {i \in pending : ~ IsExpired(i) /\ ~ TimedOut(i)}
    /\ \E taken \in SUBSET Due :
         /\ queued' = queued \union {[intent |-> i, at |-> now] : i \in taken}
         /\ recent' = [j \in ID |->
              CASE \E i \in taken : i.id = j -> now
                [] recent[j] # None /\ now > recent[j] + DedupWindow -> None
                [] OTHER -> recent[j]]
    /\ UNCHANGED <<now, main, stopCh, feed, loop, pressure, signals, events>>

Next ==
    \/ Tick \/ StartEngine \/ Stop \/ Unsubscribe \/ EngineStopped \/ Stopped
    \/ Deliver \/ HandleEvent \/ SamplePressure \/ CheckCoherenceDrift \/ LoopEnds
    \/ \E s \in Strategy : \/ StartStrategy(s) \/ StrategyEnds(s)
                           \/ TakeSignal(s) \/ Work(s) \/ PruneExpired(s)

Spec == Init /\ [][Next]_vars

-----------------------------------------------------------------------------
(* Whatever an intent waits for, nothing reaches the queue after the end   *)
(* of its window (LatestTime).                                             *)
QueuedInTime == \A q \in queued : q.at <= q.intent.latest

(* Once Stop of the orchestrator has returned, no goroutine is left that   *)
(* could signal, plan or queue.                                            *)
QuietAfterStop ==
    main = "stopped" => loop = "done" /\ \A s \in Strategy : strategy[s].pc = "done"
=============================================================================
