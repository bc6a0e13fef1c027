----------------------------- MODULE Execution -----------------------------
(***************************************************************************)
(* arb/zeam_executor.go, arb/executor.go and arb/positions.go over the     *)
(* OpportunityQueue: the loop of the ZEAMExecutor takes an opportunity     *)
(* from the queue and submits it to the channel of the Executor, whose     *)
(* workers lock the positions they trade from, send the transactions, give *)
(* the positions back and report; the result processor marks the           *)
(* opportunity complete.  Between two calls that take a mutex or use a     *)
(* channel everything else may happen, so each such call is one action.    *)
(*                                                                         *)
(* A position is a token on a chain.  What a transaction contains and the  *)
(* nonce it uses are left out: a step of a path is sent or fails.          *)
(***************************************************************************)
EXTENDS OpportunityQueue

CONSTANTS Worker,         \* the workers of the Executor
          Position,       \* positions of the PositionManager
          Balance,        \* Amount of each position
          Path,           \* the position each step of an opportunity pays from
          CrossChain,     \* opportunities with IsCrossChain
          InputAmount,    \* opp.InputAmount; 0: not set
          CheckInterval,  \* ze.checkInterval
          QueueSize,      \* capacity of e.queue
          ResultsSize,    \* capacity of e.results
          MaxAge,         \* CleanCompleted's argument
          Detections,     \* pairs of ID and priority a detector reports
          Forced,         \* IDs ForceExecute is called with
          MaxDetected     \* bound: opportunities detected or forced

ASSUME ExecutionAssumption ==
  /\ Balance \in [Position -> Nat]
  /\ Path \in [ID -> Seq(Position)]
  /\ CrossChain \subseteq ID
  /\ Forced \subseteq ID
  /\ Detections \subseteq ID \X Priorities
  /\ InputAmount \in [ID -> Nat]
  /\ {CheckInterval, MaxAge, MaxDetected} \subseteq Nat
  /\ {QueueSize, ResultsSize} \subseteq Nat \ {0}

VARIABLES loop,       \* the goroutine of executionLoop
          queue,      \* e.queue
          worker,     \* the goroutines of worker
          results,    \* e.results
          processor,  \* the goroutine of resultProcessor
          locked,     \* Locked of each position
          running,    \* ze.running and e.running
          stop,       \* how far ze.Stop is
          detected,   \* bound: opportunities so far
          dropped     \* history: IDs whose result found the channel full

loopVars == <<loop>>
execVars == <<queue, worker, results, locked>>
ctlVars == <<processor, running, stop>>
vars == <<queueVars, now, loopVars, execVars, ctlVars, detected, dropped>>

(* Available is Amount - Locked: Lock and Unlock move between the two.     *)
Available(p) == Balance[p] - locked[p]

LoopIdle == [pc |-> "idle"]
WorkerIdle == [pc |-> "idle"]

Steps(id) == 1 .. Len(Path[id])
MaxPath == Max({Len(Path[id]) : id \in ID})

Init ==
  /\ QueueInit
  /\ loop = LoopIdle
  /\ queue = <<>>
  /\ worker = [w \in Worker |-> WorkerIdle]
  /\ results = <<>>
  /\ processor = "running"
  /\ locked = [p \in Position |-> 0]
  /\ running = [zeam |-> TRUE, base |-> TRUE]
  /\ stop = "none"
  /\ detected = 0
  /\ dropped = {}

-----------------------------------------------------------------------------
(* The detector's callback, and the calls open to the owner of the queue.  *)
HandleOpportunity(id, priority) ==
  /\ detected < MaxDetected
  /\ detected' = detected + 1
  /\ Enqueue([id |-> id, priority |-> priority, detectedAt |-> now])
  /\ UNCHANGED <<now, loopVars, execVars, ctlVars, dropped>>

ManageQueue ==
  /\ \/ \E id \in ID, p \in Priorities : UpdatePriority(id, p)
     \/ \E id \in ID : RemoveByID(id)
     \/ CleanCompleted(MaxAge)
  /\ UNCHANGED <<now, loopVars, execVars, ctlVars, detected, dropped>>

(* The channel refuses what it has no room for; nothing checks whether the *)
(* opportunity is being executed already.  A Stop between the check of     *)
(* running and the send would only leave an opportunity that nobody takes. *)
ForceExecute(id) ==
  /\ detected < MaxDetected
  /\ running.base
  /\ Len(queue) < QueueSize
  /\ detected' = detected + 1
  /\ queue' = Append(queue, id)
  /\ UNCHANGED <<queueVars, now, loopVars, worker, results, locked, ctlVars, dropped>>

-----------------------------------------------------------------------------
(* tryExecute, cut where it takes and releases a mutex.                    *)
LoopTo(state) ==
  /\ loop' = state
  /\ UNCHANGED <<now, results, worker, locked, ctlVars, detected, dropped>>

LoopCanExecute ==
  /\ loop.pc = "idle"
  /\ CanExecute
  /\ LoopTo([pc |-> "peek"])
  /\ UNCHANGED <<queueVars, queue>>

(* The loop waits for a better flow only while the opportunity lasts.      *)
MayWait == items # <<>> /\ ExpiresAt(items[1]) - now > 2 * CheckInterval

LoopPeek ==
  /\ loop.pc = "peek"
  /\ \/ (items = <<>> \/ MayWait) /\ LoopTo(LoopIdle)
     \/ items # <<>> /\ LoopTo([pc |-> "dequeue"])
  /\ UNCHANGED <<queueVars, queue>>

(* The slot that CanExecute saw is still free: only the loop takes slots.  *)
LoopDequeue ==
  /\ loop.pc = "dequeue"
  /\ Dequeue
  /\ LoopTo(IF Dequeued = Never THEN LoopIdle
                                ELSE [pc |-> "submit", id |-> Dequeued.id])
  /\ UNCHANGED queue

LoopSubmit ==
  /\ loop.pc = "submit"
  /\ LoopTo([loop EXCEPT !.pc = IF running.base THEN "send" ELSE "refused"])
  /\ UNCHANGED <<queueVars, queue>>

LoopSend ==
  /\ loop.pc = "send"
  /\ \/ /\ Len(queue) < QueueSize
        /\ queue' = Append(queue, loop.id)
        /\ LoopTo(LoopIdle)
     \/ /\ Len(queue) >= QueueSize
        /\ UNCHANGED queue
        /\ LoopTo([loop EXCEPT !.pc = "refused"])
  /\ UNCHANGED queueVars

(* Mutant: a refused opportunity is not taken out of executing.            *)
KeepSlot(id) == UNCHANGED queueVars

ReleaseSlot(id) == MarkComplete(id)

LoopRefused ==
  /\ loop.pc = "refused"
  /\ ReleaseSlot(loop.id)
  /\ LoopTo(LoopIdle)
  /\ UNCHANGED queue

LoopExit ==
  /\ loop.pc = "idle"
  /\ ~running.zeam
  /\ LoopTo([pc |-> "exited"])
  /\ UNCHANGED <<queueVars, queue>>

Loop == LoopCanExecute \/ LoopPeek \/ LoopDequeue \/ LoopSubmit \/ LoopSend
        \/ LoopRefused \/ LoopExit

-----------------------------------------------------------------------------
(* A worker executes an opportunity.  "held" lists the positions locked,   *)
(* in the order of the deferred unlocks' registration; "step" the fate of  *)
(* each step of the path.                                                  *)
WorkerTo(w, state) ==
  /\ worker' = [worker EXCEPT ![w] = state]
  /\ UNCHANGED <<queueVars, now, loopVars, ctlVars, detected>>

Take(w) ==
  /\ worker[w].pc = "idle"
  /\ queue # <<>>
  /\ queue' = Tail(queue)
  /\ WorkerTo(w, [pc |-> "size", id |-> Head(queue), amount |-> 0, held |-> <<>>,
                  step |-> [i \in Steps(Head(queue)) |-> "none"]])
  /\ UNCHANGED <<results, locked, dropped>>

(* GetMaxTradeSize with a tenth of the position, if no amount is given.    *)
TradeSize(id) ==
  LET p == Path[id][1]
      tenth == Balance[p] \div 10
  IN  IF InputAmount[id] > 0 THEN InputAmount[id]
      ELSE IF tenth < Available(p) THEN tenth ELSE Available(p)

Size(w) ==
  LET me == worker[w]
      amount == TradeSize(me.id)
  IN  /\ me.pc = "size"
      /\ WorkerTo(w, IF Len(Path[me.id]) < 2 \/ amount = 0
                     THEN [me EXCEPT !.pc = "unlock"]
                     ELSE [me EXCEPT !.pc = "lock", !.amount = amount])
      /\ UNCHANGED <<queue, results, locked, dropped>>

(* Mutant: a failed second lock returns before the first is deferred.      *)
ForgetHeld(me) == [me EXCEPT !.pc = "unlock", !.held = <<>>]

LockFailed(me) == [me EXCEPT !.pc = "unlock"]

LocksWanted(id) == IF id \in CrossChain THEN 2 ELSE 1

(* The amount was read before the position is locked; the lock checks it.  *)
Lock(w) ==
  LET me == worker[w]
      p == Path[me.id][Len(me.held) + 1]
      held == Append(me.held, p)
  IN  /\ me.pc = "lock"
      /\ \/ /\ Available(p) >= me.amount
            /\ locked' = [locked EXCEPT ![p] = @ + me.amount]
            /\ WorkerTo(w, [me EXCEPT !.held = held,
                              !.pc = IF Len(held) = LocksWanted(me.id) THEN "trade" ELSE "lock"])
         \/ /\ Available(p) < me.amount
            /\ UNCHANGED locked
            /\ WorkerTo(w, LockFailed(me))
      /\ UNCHANGED <<queue, results, dropped>>

(* The steps of a cross-chain opportunity, two of them, run side by side;  *)
(* otherwise each one starts when the one before was sent.                 *)
MayStart(me, i) ==
  /\ me.step[i] = "none"
  /\ IF me.id \in CrossChain THEN i <= 2 ELSE \A j \in 1 .. i - 1 : me.step[j] = "sent"

TradeOver(me) == \A i \in Steps(me.id) : ~MayStart(me, i)

ExecuteStep(w, i) ==
  LET me == worker[w]
  IN  /\ me.pc = "trade"
      /\ i \in Steps(me.id)
      /\ MayStart(me, i)
      /\ \E outcome \in {"sent", "failed"} :
            LET after == [me EXCEPT !.step[i] = outcome]
            IN  WorkerTo(w, [after EXCEPT !.pc = IF TradeOver(after) THEN "unlock"
                                                                    ELSE "trade"])
      /\ UNCHANGED <<queue, results, locked, dropped>>

Unlock(w) ==
  LET me == worker[w]
  IN  /\ me.pc = "unlock"
      /\ me.held # <<>>
      /\ locked' = [locked EXCEPT ![Last(me.held)] = @ - me.amount]
      /\ WorkerTo(w, [me EXCEPT !.held = Front(me.held)])
      /\ UNCHANGED <<queue, results, dropped>>

(* Mutant: only the buy side's error is looked at.                         *)
BuySent(me) == me.step # <<>> /\ me.step[1] = "sent"

Succeeded(me) ==
  /\ Len(me.step) >= 2
  /\ \A i \in DOMAIN me.step : (me.id \in CrossChain => i <= 2) => me.step[i] = "sent"

Report(w) ==
  LET me == worker[w]
  IN  /\ me.pc = "unlock"
      /\ me.held = <<>>
      /\ \/ /\ Len(results) < ResultsSize
            /\ results' = Append(results, [id |-> me.id, success |-> Succeeded(me),
                                           step |-> me.step])
            /\ UNCHANGED dropped
         \/ /\ Len(results) >= ResultsSize
            /\ UNCHANGED results
            /\ dropped' = dropped \cup {me.id}
      /\ WorkerTo(w, WorkerIdle)
      /\ UNCHANGED <<queue, locked>>

WorkerExit(w) ==
  /\ worker[w].pc = "idle"
  /\ ~running.base
  /\ WorkerTo(w, [pc |-> "exited"])
  /\ UNCHANGED <<queue, results, locked, dropped>>

Work(w) == Take(w) \/ Size(w) \/ Lock(w) \/ (\E i \in 1 .. MaxPath : ExecuteStep(w, i))
           \/ Unlock(w) \/ Report(w) \/ WorkerExit(w)

-----------------------------------------------------------------------------
ProcessResult ==
  /\ processor = "running"
  /\ results # <<>>
  /\ results' = Tail(results)
  /\ MarkComplete(Head(results).id)
  /\ UNCHANGED <<now, loopVars, queue, worker, locked, ctlVars, detected, dropped>>

(* On stopCh, or on the closed results channel.                            *)
ProcessorExit ==
  /\ processor = "running"
  /\ ~running.zeam
  /\ processor' = "exited"
  /\ UNCHANGED <<queueVars, now, loopVars, execVars, running, stop, detected, dropped>>

-----------------------------------------------------------------------------
(* ze.Stop: its own flag and channel, then those of the Executor, whose    *)
(* workers it waits for, then its own two goroutines.                      *)
StopTo(next) ==
  /\ stop' = next
  /\ UNCHANGED <<queueVars, now, loopVars, execVars, processor, detected, dropped>>

BeginStop ==
  /\ stop = "none"
  /\ running' = [running EXCEPT !.zeam = FALSE]
  /\ StopTo("base")

(* Mutant: the Executor waits for its workers before it tells them.        *)
WaitThenStop ==
  /\ stop = "base"
  /\ \A w \in Worker : worker[w].pc = "exited"
  /\ running' = [running EXCEPT !.base = FALSE]
  /\ StopTo("workers")

StopExecutor ==
  /\ stop = "base"
  /\ running' = [running EXCEPT !.base = FALSE]
  /\ StopTo("workers")

WorkersStopped ==
  /\ stop = "workers"
  /\ \A w \in Worker : worker[w].pc = "exited"
  /\ StopTo("loops")
  /\ UNCHANGED running

LoopsStopped ==
  /\ stop = "loops"
  /\ loop.pc = "exited"
  /\ processor = "exited"
  /\ StopTo("done")
  /\ UNCHANGED running

Stopping == StopExecutor \/ WorkersStopped \/ LoopsStopped

Clock == Tick /\ UNCHANGED <<loopVars, execVars, ctlVars, detected, dropped>>

Next ==
  \/ \E d \in Detections : HandleOpportunity(d[1], d[2])
  \/ ManageQueue
  \/ \E id \in Forced : ForceExecute(id)
  \/ Loop
  \/ \E w \in Worker : Work(w)
  \/ ProcessResult
  \/ ProcessorExit
  \/ BeginStop
  \/ Stopping
  \/ Clock

Spec == Init /\ [][Next]_vars

(* The goroutines are scheduled, and a broadcast returns.  A loop that     *)
(* finds both its ticker and stopCh ready picks at random, so that it does *)
(* not overlook stopCh for ever.                                           *)
Fairness ==
  /\ WF_vars(Loop)
  /\ SF_vars(LoopExit)
  /\ \A w \in Worker : WF_vars(Work(w))
  /\ WF_vars(ProcessResult \/ ProcessorExit)
  /\ WF_vars(Stopping)

FairSpec == Spec /\ Fairness

-----------------------------------------------------------------------------
WorkerState ==
  [pc : {"idle", "exited"}]
    \cup [pc : {"size", "lock", "trade", "unlock"}, id : ID, amount : Nat,
          held : Seq(Position), step : Seq({"none", "sent", "failed"})]

(* The queue, the channels and the goroutines keep their types, and the    *)
(* queue and the two channels their capacities.                            *)
TypeOK ==
  /\ items \in Seq(Opportunity) /\ Len(items) <= MaxSize
  /\ byID \subseteq ID
  /\ executing \in [ID -> 0 .. MaxTime \cup {Never}]
  /\ completed \in [ID -> 0 .. MaxTime \cup {Never}]
  /\ now \in 0 .. MaxTime
  /\ loop \in [pc : {"idle", "peek", "dequeue", "exited"}]
              \cup [pc : {"submit", "send", "refused"}, id : ID]
  /\ queue \in Seq(ID) /\ Len(queue) <= QueueSize
  /\ worker \in [Worker -> WorkerState]
  /\ Len(results) <= ResultsSize
  /\ processor \in {"running", "exited"}
  /\ locked \in [Position -> Nat]
  /\ running \in [zeam : BOOLEAN, base : BOOLEAN]
  /\ stop \in {"none", "base", "workers", "loops", "done"}
  /\ detected \in 0 .. MaxDetected
  /\ dropped \subseteq ID

Busy == {w \in Worker : worker[w].pc \notin {"idle", "exited"}}

HeldBy(w, p) ==
  worker[w].amount * Cardinality({i \in DOMAIN worker[w].held : worker[w].held[i] = p})

(* What a position has locked is what the workers hold of it, and never    *)
(* more than its balance: no error path of an execution, with one lock     *)
(* taken and the other refused, with one step sent and the other failed,   *)
(* leaves an amount locked or gives one back twice.                        *)
LockedIsHeld ==
  \A p \in Position :
     /\ locked[p] = FoldSet(LAMBDA w, sum : sum + HeldBy(w, p), 0, Busy)
     /\ locked[p] <= Balance[p]

(* The limit on concurrent executions, as the queue counts them, holds at  *)
(* every moment.                                                           *)
SlotsBounded == Cardinality(Executing) <= MaxConcurrent

InFlight ==
  (IF loop.pc \in {"submit", "send", "refused"} THEN {loop.id} ELSE {})
    \cup ToSet(queue) \cup {worker[w].id : w \in Busy} \cup {r.id : r \in ToSet(results)}

(* An opportunity counted as executing is somewhere on its way to be       *)
(* marked complete, unless its result was dropped at a full channel.       *)
SlotsOwned == Executing \subseteq InFlight \cup dropped

(* One failed step of a cross-chain trade is never hidden by the success   *)
(* of the other: a result says success only if every step was sent.        *)
SuccessIsWhole ==
  \A r \in ToSet(results) : r.success => \A i \in DOMAIN r.step : r.step[i] = "sent"

(* The queue agrees with itself at every moment: its map with its heap, and *)
(* the heap with the order of Less.                                        *)
QueueConsistent == TypeOK /\ IndexAgrees /\ HeapOrdered

(* No path through an execution, with one step refused, failed or dropped, *)
(* leaks a lock or a slot or reports a success it did not have.            *)
NothingLeaks == LockedIsHeld /\ SlotsBounded /\ SlotsOwned /\ SuccessIsWhole

(* A slot is given back, unless its result was dropped or Stop is called.  *)
SlotsReleased ==
  \A id \in ID : id \in Executing ~> id \notin Executing \/ id \in dropped \/ ~running.zeam

(* Stop returns, with opportunities queued, submitted and being traded.    *)
StopReturns == stop # "none" ~> stop = "done"
=============================================================================
