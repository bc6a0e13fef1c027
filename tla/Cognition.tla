----------------------------- MODULE Cognition ------------------------------
(***************************************************************************)
(* UnifiedCognition (ngac/unified_cognition.go): concepts that users and   *)
(* broadcasts strengthen and that fade, a bounded queue of work that one   *)
(* goroutine broadcasts on the network feed, and the dynamics that tell    *)
(* whether to act.  Its FlowPatternDetector (node/flow_pattern.go) turns   *)
(* the events of the feed into a pressure over a sliding window.           *)
(*                                                                         *)
(* Weights run from 0 to MaxWeight, pressures from 0 to Full.  The         *)
(* entropy pool is left out: every operation xors something into it and    *)
(* none decides anything by it.  The variance behind the tension is any.   *)
(***************************************************************************)
EXTENDS Integers, Sequences, FiniteSets, SequencesExt

CONSTANTS
    Caller,         \* goroutines that call Query or SubmitWork
    Concept,
    MaxWeight, UserStrength, ResultStrength,    \* 1, 0.8 and 0.3
    QueueSize,      \* capacity of pendingWork
    Full,           \* events of a window at which the pressure is 1
    Window,         \* windowSize
    MaxCalls,       \* bound: calls of Query and SubmitWork
    MaxEvents,      \* bound: events of the feed
    MaxNow          \* bound on the clock

VARIABLES
    running, stopCh,
    monitor, cycle, worker,     \* flowMonitorLoop, cognitionLoop, workLoop
    stopper,
    caller,         \* what each caller has still to do
    pendingWork,    \* the channel
    item,           \* the work item of workLoop
    concepts,       \* weight of each concept
    pending,        \* dynamics.BroadcastPending
    activeQuery, userActivity, flowPressure, flowTension, readyToAct,
    txTimes, pressure, tension, measuredAt,     \* the detector
    calls, events, now

vars == <<running, stopCh, monitor, cycle, worker, stopper, caller, pendingWork, item,
          concepts, pending, activeQuery, userActivity, flowPressure, flowTension,
          readyToAct, txTimes, pressure, tension, measuredAt, calls, events, now>>

loops == <<monitor, cycle, worker>>
dynamics == <<activeQuery, userActivity, flowPressure, flowTension, readyToAct>>
detector == <<txTimes, pressure, tension, measuredAt>>
bounds == <<calls, events, now>>

Idle == [at |-> "idle", query |-> FALSE, low |-> FALSE, concept |-> {}]

Init ==
    /\ running = FALSE /\ stopCh = FALSE
    /\ monitor = "off" /\ cycle = "off" /\ worker = "off" /\ stopper = "idle"
    /\ caller = [c \in Caller |-> Idle] /\ pendingWork = <<>> /\ item = Idle
    /\ concepts = [c \in Concept |-> 0]
    /\ pending = 0 /\ activeQuery = FALSE /\ userActivity = 0
    /\ flowPressure = 0 /\ flowTension = 0 /\ readyToAct = FALSE
    /\ txTimes = <<>> /\ pressure = 0 /\ tension = 0 /\ measuredAt = 0
    /\ calls = 0 /\ events = 0 /\ now = 0

Start ==
    /\ ~ running /\ monitor = "off"
    /\ running' = TRUE
    /\ monitor' = "on" /\ cycle' = "on" /\ worker' = "waiting"
    /\ UNCHANGED <<stopCh, stopper, caller, pendingWork, item, concepts, pending,
                   dynamics, detector, bounds>>

(* Stop closes stopCh and waits for the three loops.                       *)
Stop ==
    /\ running /\ stopper = "idle"
    /\ running' = FALSE /\ stopCh' = TRUE /\ stopper' = "waiting"
    /\ UNCHANGED <<loops, caller, pendingWork, item, concepts, pending,
                   dynamics, detector, bounds>>

StopReturns ==
    /\ stopper = "waiting"
    /\ monitor = "ended" /\ cycle = "ended" /\ worker = "ended"
    /\ stopper' = "returned"
    /\ UNCHANGED <<running, stopCh, loops, caller, pendingWork, item, concepts, pending,
                   dynamics, detector, bounds>>

-----------------------------------------------------------------------------
(* flowMonitorLoop and the detector.                                       *)

InWindow(times, t) == SelectSeq(times, LAMBDA x : x > t - Window)

(* RecordTxBatch: the new events, then trimOldEvents, then updateDynamics. *)
Record(times) ==
    /\ txTimes' = InWindow(times, now)
    /\ pressure' = Min({Full, Len(txTimes')})
    /\ measuredAt' = now

MonitorEvent ==
    /\ monitor = "on" /\ events < MaxEvents
    /\ events' = events + 1
    /\ \E n \in 1 .. 2 : Record(txTimes \o [i \in 1 .. n |-> now])
    /\ tension' \in {0, Full}
    /\ UNCHANGED <<running, stopCh, loops, stopper, caller, pendingWork, item, concepts,
                   pending, dynamics, calls, now>>

MonitorEnds ==
    /\ monitor = "on" /\ stopCh
    /\ monitor' = "ended"
    /\ UNCHANGED <<running, stopCh, cycle, worker, stopper, caller, pendingWork, item,
                   concepts, pending, dynamics, detector, bounds>>

-----------------------------------------------------------------------------
(* cognitionLoop.                                                          *)

(* A weight loses a twentieth, a step of the scale here, and the concept   *)
(* goes when nothing is left.                                              *)
Faded(w) == IF w = 0 THEN 0 ELSE w - 1

(* 0.4 of the flow's pressure, 0.4 of the users' activity, which counts in *)
(* halves, 0.1 for each pending broadcast and 0.1 of the tension.          *)
PressureExceeds(f, u, p, t) == 8 * f + 4 * Full * u + 2 * Full * p + 2 * t > 6 * Full

ProcessCycle ==
    /\ cycle = "on"
    /\ flowPressure' = pressure /\ flowTension' = tension
    /\ concepts' = [c \in Concept |-> Faded(concepts[c])]
    /\ readyToAct' = (/\ PressureExceeds(pressure, userActivity, pending, tension)
                      /\ pending > 0 \/ activeQuery)
    /\ UNCHANGED <<running, stopCh, loops, stopper, caller, pendingWork, item, pending,
                   activeQuery, userActivity, detector, bounds>>

CycleEnds ==
    /\ cycle = "on" /\ stopCh
    /\ cycle' = "ended"
    /\ UNCHANGED <<running, stopCh, monitor, worker, stopper, caller, pendingWork, item,
                   concepts, pending, dynamics, detector, bounds>>

-----------------------------------------------------------------------------
(* Callers.                                                                *)

Strengthened(cs, by) ==
    [c \in Concept |-> IF c \in cs THEN Min({MaxWeight, concepts[c] + by}) ELSE concepts[c]]

(* Query: InjectUserInput is a critical section of its own.                *)
Query(c) ==
    /\ caller[c].at = "idle" /\ calls < MaxCalls
    /\ calls' = calls + 1
    /\ \E x \in Concept :
        /\ concepts' = Strengthened({x}, UserStrength)
        /\ caller' = [caller EXCEPT ![c] =
                        [at |-> "count", query |-> TRUE, low |-> FALSE, concept |-> {x}]]
    /\ userActivity' = Min({2, userActivity + 1})
    /\ UNCHANGED <<running, stopCh, loops, stopper, pendingWork, item, pending,
                   activeQuery, flowPressure, flowTension, readyToAct, detector, events, now>>

SubmitWork(c) ==
    /\ caller[c].at = "idle" /\ calls < MaxCalls
    /\ calls' = calls + 1
    /\ \E low \in BOOLEAN :
        caller' = [caller EXCEPT ![c] =
                     [at |-> "count", query |-> FALSE, low |-> low, concept |-> {}]]
    /\ UNCHANGED <<running, stopCh, loops, stopper, pendingWork, item, concepts, pending,
                   dynamics, detector, events, now>>

\* Mutant: the item is sent before it is counted.
SubmitSendsFirst(c) ==
    \/ /\ caller[c].at = "count"
       /\ pendingWork' = IF Len(pendingWork) < QueueSize
                         THEN Append(pendingWork, caller[c]) ELSE pendingWork
       /\ caller' = [caller EXCEPT ![c].at = "send"]
       /\ UNCHANGED <<pending, activeQuery>>
    \/ /\ caller[c].at = "send"
       /\ pending' = pending + 1
       /\ activeQuery' = (activeQuery \/ caller[c].query)
       /\ caller' = [caller EXCEPT ![c] = Idle]
       /\ UNCHANGED pendingWork

(* Both count the item, and then send it or, when the channel is full,     *)
(* drop it; a dropped item stays counted, and its query stays active.      *)
Submit(c) ==
    \/ /\ caller[c].at = "count"
       /\ pending' = pending + 1
       /\ activeQuery' = (activeQuery \/ caller[c].query)
       /\ caller' = [caller EXCEPT ![c].at = "send"]
       /\ UNCHANGED pendingWork
    \/ /\ caller[c].at = "send"
       /\ pendingWork' = IF Len(pendingWork) < QueueSize
                         THEN Append(pendingWork, caller[c]) ELSE pendingWork
       /\ caller' = [caller EXCEPT ![c] = Idle]
       /\ UNCHANGED <<pending, activeQuery>>

CallerGoesOn(c) ==
    /\ Submit(c)
    /\ UNCHANGED <<running, stopCh, loops, stopper, item, concepts, userActivity,
                   flowPressure, flowTension, readyToAct, detector, bounds>>

-----------------------------------------------------------------------------
(* workLoop.                                                               *)

TakeWork ==
    /\ worker = "waiting" /\ pendingWork # <<>>
    /\ item' = Head(pendingWork) /\ pendingWork' = Tail(pendingWork)
    /\ worker' = "taken"
    /\ UNCHANGED <<running, stopCh, monitor, cycle, stopper, caller, concepts, pending,
                   dynamics, detector, bounds>>

CountWork ==
    /\ worker = "taken"
    /\ pending' = pending - 1
    /\ worker' = IF item.low THEN "conditions" ELSE "mixing"
    /\ UNCHANGED <<running, stopCh, monitor, cycle, stopper, caller, pendingWork, item,
                   concepts, dynamics, detector, bounds>>

(* waitForGoodConditions: until the flow is good, two seconds or the stop. *)
WaitForGoodConditions ==
    /\ worker = "conditions"
    /\ worker' = "mixing"
    /\ UNCHANGED <<running, stopCh, monitor, cycle, stopper, caller, pendingWork, item,
                   concepts, pending, dynamics, detector, bounds>>

(* The payload is mixed with the pool; unless stopped, it is broadcast.    *)
BroadcastWork ==
    /\ worker = "mixing"
    /\ worker' = IF stopCh THEN "waiting" ELSE "broadcast"
    /\ UNCHANGED <<running, stopCh, monitor, cycle, stopper, caller, pendingWork, item,
                   concepts, pending, dynamics, detector, bounds>>

(* ingestBroadcastResult, and the callback of a query.                     *)
ResultArrives ==
    /\ worker = "broadcast"
    /\ \/ /\ concepts' = Strengthened(item.concept, ResultStrength)
          /\ activeQuery' = (activeQuery /\ ~ item.query)
       \/ UNCHANGED <<concepts, activeQuery>>       \* result.Err
    /\ worker' = "waiting"
    /\ UNCHANGED <<running, stopCh, monitor, cycle, stopper, caller, pendingWork, item,
                   pending, userActivity, flowPressure, flowTension, readyToAct, detector,
                   bounds>>

\* Mutant: the wait for the result has no other way out.
GiveUpNever == FALSE /\ UNCHANGED vars

(* ctx.Done or stopCh: the result is not waited for any longer.            *)
GiveUp ==
    /\ worker = "broadcast"
    /\ worker' = "waiting"
    /\ UNCHANGED <<running, stopCh, monitor, cycle, stopper, caller, pendingWork, item,
                   concepts, pending, dynamics, detector, bounds>>

WorkEnds ==
    /\ worker = "waiting" /\ stopCh
    /\ worker' = "ended"
    /\ UNCHANGED <<running, stopCh, monitor, cycle, stopper, caller, pendingWork, item,
                   concepts, pending, dynamics, detector, bounds>>

Tick ==
    /\ now < MaxNow
    /\ now' = now + 1
    /\ UNCHANGED <<running, stopCh, loops, stopper, caller, pendingWork, item, concepts,
                   pending, dynamics, detector, calls, events>>

Working == CountWork \/ WaitForGoodConditions \/ BroadcastWork \/ GiveUp

Next ==
    \/ Start \/ Stop \/ StopReturns
    \/ MonitorEvent \/ MonitorEnds \/ ProcessCycle \/ CycleEnds
    \/ \E c \in Caller : Query(c) \/ SubmitWork(c) \/ CallerGoesOn(c)
    \/ TakeWork \/ Working \/ ResultArrives \/ WorkEnds
    \/ Tick

(* The scheduler runs each goroutine; the timeouts come.  A select with    *)
(* several ready cases chooses at random, so stopCh is not passed over for *)
(* ever, and the feed need not answer.                                     *)
Fairness ==
    /\ WF_vars(Working) /\ SF_vars(WorkEnds) /\ SF_vars(CycleEnds) /\ SF_vars(MonitorEnds)
    /\ WF_vars(StopReturns)

Spec == Init /\ [][Next]_vars /\ Fairness

-----------------------------------------------------------------------------
(* BroadcastPending counts at least the items in the channel and the one   *)
(* workLoop has taken and not yet counted down: it never goes below zero,  *)
(* however callers, who count and send in two steps, and the loop          *)
(* interleave.  (It may count more: a dropped item is counted for ever.)   *)
PendingCoversQueue ==
    pending >= Len(pendingWork) + (IF worker = "taken" THEN 1 ELSE 0)

(* Stop returns: none of the three loops keeps it waiting, the one that    *)
(* waits for a broadcast's result included.                                *)
StopEnds == (stopper = "waiting") ~> (stopper = "returned")
=============================================================================
