-------------------------- MODULE ActiveCognition ---------------------------
(***************************************************************************)
(* ActiveCognition (ngac/active_cognition.go): concepts gain weight by     *)
(* what is injected and lose it with every cycle of the process loop; a    *)
(* query is answered with the heaviest.  Injections and answers go through *)
(* channels that drop when they are full.  A second goroutine records what *)
(* the network feed brings.                                                *)
(*                                                                         *)
(* Weights are whole steps: a cycle takes one (the code five per cent, and *)
(* what is below one per cent is forgotten).  The flow of the network is   *)
(* "low" or "high" with respect to the pressure that makes it ready.       *)
(***************************************************************************)
EXTENDS Naturals, Sequences, FiniteSets, SequencesExt

CONSTANTS
    Concept,
    Heaviest,       \* weight 1.0
    Strength,       \* of a query, and of what is steered
    InjectionSize, OutputSize,  \* the channels: 10 and 10
    Active, Named,  \* how many concepts are kept active, 10, and answered, 5
    MaxInjections, MaxEvents    \* bounds

VARIABLES
    running, stopCh,
    loop, monitor,  \* processLoop and flowMonitorLoop: "off", "on", "done"
    waiting,        \* events in the channel of the feed
    flow,           \* what the detector has of the network
    injections, outputs,
    weights,        \* state.ConceptWeights; 0: not in the map
    state,          \* [active, ready] of CognitiveState
    accepted,       \* history: the queries that Inject put in the channel
    answered,       \* history: those whose answers a reader took or can take
    events

vars == <<running, stopCh, loop, monitor, waiting, flow, injections, outputs, weights,
          state, accepted, answered, events>>

Init ==
    /\ running = FALSE /\ stopCh = FALSE /\ loop = "off" /\ monitor = "off"
    /\ waiting = 0 /\ flow = "low" /\ events = 0
    /\ injections = << >> /\ outputs = << >>
    /\ weights = [c \in Concept |-> 0]
    /\ state = [active |-> {}, ready |-> FALSE]
    /\ accepted = << >> /\ answered = << >>

Start ==
    /\ ~ running /\ ~ stopCh
    /\ running' = TRUE
    /\ loop' = "on" /\ monitor' = "on"
    /\ UNCHANGED <<stopCh, waiting, flow, injections, outputs, weights, state, accepted,
                   answered, events>>

(* Stop closes stopCh and the subscription and waits for both goroutines.  *)
Stop ==
    /\ running
    /\ running' = FALSE /\ stopCh' = TRUE
    /\ UNCHANGED <<loop, monitor, waiting, flow, injections, outputs, weights, state, accepted,
                   answered, events>>

LoopEnds ==
    /\ stopCh
    /\ \/ loop = "on" /\ loop' = "done" /\ UNCHANGED monitor
       \/ monitor = "on" /\ monitor' = "done" /\ UNCHANGED loop
    /\ UNCHANGED <<running, stopCh, waiting, flow, injections, outputs, weights, state,
                   accepted, answered, events>>

-----------------------------------------------------------------------------
(* flowMonitorLoop: an event, here what it makes of the flow.              *)
Deliver ==
    /\ monitor = "on" /\ ~ stopCh
    /\ events < MaxEvents
    /\ events' = events + 1 /\ waiting' = waiting + 1
    /\ UNCHANGED <<running, stopCh, loop, monitor, flow, injections, outputs, weights, state,
                   accepted, answered>>

MonitorTakes ==
    /\ monitor = "on" /\ waiting > 0
    /\ waiting' = waiting - 1
    /\ flow' \in {"low", "high"}
    /\ UNCHANGED <<running, stopCh, loop, monitor, injections, outputs, weights, state,
                   accepted, answered, events>>

(* Inject, of Query, Steer and Focus: dropped when the channel is full.    *)
Inject(kind, concepts) ==
    LET inj == [kind |-> kind, concepts |-> concepts, nr |-> Len(accepted) + 1] IN
    /\ Len(accepted) < MaxInjections
    /\ Len(injections) < InjectionSize
    /\ injections' = Append(injections, inj)
    /\ accepted' = Append(accepted, kind)
    /\ UNCHANGED <<running, stopCh, loop, monitor, waiting, flow, outputs, weights, state,
                   answered, events>>

(* The concepts topConcepts(n) can return: the n heaviest, in any order of *)
(* the equally heavy.                                                      *)
TopConcepts(w, n) ==
    {s \in SUBSET {c \in Concept : w[c] > 0} :
        /\ Cardinality(s) = n \/ (Cardinality(s) < n /\ \A c \in Concept : w[c] > 0 => c \in s)
        /\ \A c \in s, d \in Concept \ s : w[c] >= w[d]}

Decayed(w) == [c \in Concept |-> IF w[c] > 0 THEN w[c] - 1 ELSE 0]

(* Mutant: the active concepts are chosen before the weights decay.        *)
ProcessCycleChoosesFirst ==
    /\ loop = "on"
    /\ weights' = Decayed(weights)
    /\ \E top \in TopConcepts(weights, Active) :
         state' = [active |-> top, ready |-> flow = "high" /\ top # {}]
    /\ UNCHANGED <<running, stopCh, loop, monitor, waiting, flow, injections, outputs,
                   accepted, answered, events>>

(* processCycle, at every tick.                                            *)
ProcessCycle ==
    /\ loop = "on"
    /\ weights' = Decayed(weights)
    /\ \E top \in TopConcepts(weights', Active) :
         state' = [active |-> top, ready |-> flow = "high" /\ top # {}]
    /\ UNCHANGED <<running, stopCh, loop, monitor, waiting, flow, injections, outputs,
                   accepted, answered, events>>

Strengthened(inj) ==
    [c \in Concept |->
        CASE c \notin inj.concepts -> weights[c]
          [] c \in inj.concepts /\ inj.kind = "focus" -> Heaviest
          [] c \in inj.concepts /\ inj.kind # "focus" ->
               IF weights[c] + Strength > Heaviest THEN Heaviest ELSE weights[c] + Strength]

(* generateResponse: an answer that finds the channel full is dropped.     *)
GenerateResponse(inj, w) ==
    IF Len(outputs) < OutputSize
    THEN \E top \in TopConcepts(w, Named) :
            /\ outputs' = Append(outputs, [nr |-> inj.nr, concepts |-> top])
            /\ answered' = Append(answered, inj.nr)
    ELSE UNCHANGED <<outputs, answered>>

(* handleInjection.                                                        *)
HandleInjection ==
    /\ loop = "on" /\ injections # << >>
    /\ injections' = Tail(injections)
    /\ weights' = Strengthened(Head(injections))
    /\ IF Head(injections).kind = "query"
       THEN GenerateResponse(Head(injections), weights')
       ELSE UNCHANGED <<outputs, answered>>
    /\ UNCHANGED <<running, stopCh, loop, monitor, waiting, flow, state, accepted, events>>

(* Somebody reads Outputs().                                               *)
ReadOutput ==
    /\ outputs # << >>
    /\ outputs' = Tail(outputs)
    /\ UNCHANGED <<running, stopCh, loop, monitor, waiting, flow, injections, weights, state,
                   accepted, answered, events>>

Next ==
    \/ Start \/ Stop \/ LoopEnds \/ Deliver \/ MonitorTakes
    \/ \E kind \in {"query", "steer", "focus"}, s \in (SUBSET Concept) \ {{}} : Inject(kind, s)
    \/ ProcessCycle \/ HandleInjection \/ ReadOutput

Spec == Init /\ [][Next]_vars

-----------------------------------------------------------------------------
(* What a cycle forgets it does not leave active, whatever is injected     *)
(* between two cycles; and answers come in the order of their queries,     *)
(* each at most once, though either channel may drop.                      *)
AnswersInOrder ==
    /\ \A c \in state.active : weights[c] > 0
    /\ \A i, j \in DOMAIN answered :
         /\ accepted[answered[i]] = "query"
         /\ i < j => answered[i] < answered[j]
=============================================================================
