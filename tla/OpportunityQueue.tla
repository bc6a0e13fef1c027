-------------------------- MODULE OpportunityQueue --------------------------
(***************************************************************************)
(* arb/opportunity_queue.go: opportunities in a heap by priority, the ones *)
(* being executed, and the ones completed lately.  Every operation runs    *)
(* under q.mu and is one action; queueVars is all it changes.              *)
(*                                                                         *)
(* The heap is the array of container/heap, counted from 1.  An            *)
(* opportunity's ID says what is traded and only roughly when it was       *)
(* detected, so that one detected again has the same ID.                   *)
(***************************************************************************)
EXTENDS Integers, SequencesExt

CONSTANTS ID,               \* IDs of opportunities
          Priorities,       \* priorities a detector may give
          Lifetime,         \* from DetectedAt to ExpiresAt
          MaxSize,          \* q.maxSize
          MaxConcurrent,    \* q.maxConcurrent
          ExecutionTimeout, \* q.executionTimeout
          CooldownPeriod,   \* q.cooldownPeriod
          MaxTime,          \* bound: the clock
          Never             \* an ID that is not in a map of times

ASSUME QueueAssumption ==
  /\ Priorities \subseteq Int
  /\ {Lifetime, ExecutionTimeout, CooldownPeriod, MaxTime} \subseteq Nat
  /\ {MaxSize, MaxConcurrent} \subseteq Nat \ {0}
  /\ Never \notin 0 .. MaxTime

VARIABLES items,      \* q.items
          byID,       \* the keys of q.byID
          executing,  \* q.executing
          completed,  \* q.completed
          now         \* time.Now()

queueVars == <<items, byID, executing, completed>>

Opportunity == [id : ID, priority : Priorities, detectedAt : 0 .. MaxTime]
ExpiresAt(o) == o.detectedAt + Lifetime

Executing == {id \in ID : executing[id] # Never}
IDs(h) == {h[i].id : i \in 1 .. Len(h)}

QueueInit ==
  /\ items = <<>>
  /\ byID = {}
  /\ executing = [id \in ID |-> Never]
  /\ completed = [id \in ID |-> Never]
  /\ now = 0

-----------------------------------------------------------------------------
(* container/heap, with the order of opportunityHeap.Less.                 *)
Less(a, b) == \/ a.priority > b.priority
              \/ a.priority = b.priority /\ a.detectedAt < b.detectedAt

Swap(h, i, j) == [h EXCEPT ![i] = h[j], ![j] = h[i]]

Up[h \in Seq(Opportunity), i \in Nat] ==
  IF i > 1 /\ Less(h[i], h[i \div 2]) THEN Up[Swap(h, i, i \div 2), i \div 2]
                                      ELSE h

(* The child of i among the first n elements that comes first.             *)
FirstChild(h, i, n) ==
  IF 2 * i + 1 <= n /\ Less(h[2 * i + 1], h[2 * i]) THEN 2 * i + 1 ELSE 2 * i

Down[h \in Seq(Opportunity), i \in Nat, n \in Nat] ==
  LET child == FirstChild(h, i, n)
  IN  IF 2 * i <= n /\ Less(h[child], h[i]) THEN Down[Swap(h, i, child), child, n]
                                            ELSE h

(* Mutant: an element that moved is only sifted down.                      *)
SiftDown(h, i, n) == Down[h, i, n]

Sift(h, i, n) == LET d == Down[h, i, n] IN IF d # h THEN d ELSE Up[h, i]

HeapPush(h, o) == Up[Append(h, o), Len(h) + 1]

HeapRemove(h, i) ==
  IF i = Len(h) THEN Front(h)
                ELSE Front(Sift(Swap(h, i, Len(h)), i, Len(h) - 1))

IndexOf(id) == CHOOSE i \in 1 .. Len(items) : items[i].id = id

-----------------------------------------------------------------------------
CoolingDown(id) == completed[id] # Never /\ now - completed[id] < CooldownPeriod

(* Mutant: off by one.                                                     *)
RoomForOneMore == Len(items) <= MaxSize

HasRoom == Len(items) < MaxSize

(* Mutant: what is evicted stays in the map.                               *)
ForgetEvicted(o) == byID \cup {o.id}

ByIDAfterEviction(o) == (byID \ {Last(items).id}) \cup {o.id}

(* Of a full queue the last element of the array makes room, if the new    *)
(* one has a higher priority; otherwise the new one is refused, its        *)
(* cooldown forgotten all the same.  What is being executed is not looked  *)
(* at.                                                                     *)
Enqueue(o) ==
  /\ o.id \notin byID
  /\ ~CoolingDown(o.id)
  /\ completed' = [completed EXCEPT ![o.id] = Never]
  /\ \/ /\ HasRoom
        /\ items' = HeapPush(items, o)
        /\ byID' = byID \cup {o.id}
     \/ /\ ~HasRoom
        /\ o.priority > Last(items).priority
        /\ items' = HeapPush(Front(items), o)
        /\ byID' = ByIDAfterEviction(o)
     \/ /\ ~HasRoom
        /\ o.priority <= Last(items).priority
        /\ UNCHANGED <<items, byID>>
  /\ UNCHANGED executing

TimedOut == {id \in Executing : now - executing[id] > ExecutionTimeout}

(* The positions of what has expired are collected first; then they are    *)
(* removed from the last to the first.                                     *)
WithoutExpired ==
  LET expired == {i \in 1 .. Len(items) : now > ExpiresAt(items[i])}
  IN  FoldLeft(HeapRemove, items, SetToSortSeq(expired, >))

(* Mutant: the limit is passed by one.                                     *)
OneSlotMore == Cardinality(Executing) <= MaxConcurrent

SlotFree == Cardinality(Executing) < MaxConcurrent

CanExecute == SlotFree /\ Len(items) > 0

(* Nothing, not even what timed out, is removed while no slot is free.     *)
Dequeue ==
  LET rest == WithoutExpired
      top == rest[1]
      still == [id \in ID |-> IF id \in TimedOut THEN Never ELSE executing[id]]
  IN  /\ SlotFree
      /\ completed' = [id \in ID |-> IF id \in TimedOut THEN now ELSE completed[id]]
      /\ \/ /\ rest = <<>>
            /\ items' = <<>>
            /\ byID' = {}
            /\ executing' = still
         \/ /\ rest # <<>>
            /\ items' = HeapRemove(rest, 1)
            /\ byID' = (byID \ (IDs(items) \ IDs(rest))) \ {top.id}
            /\ executing' = [still EXCEPT ![top.id] = now]

(* What Dequeue returns, Never when it returns nil.                        *)
Dequeued == IF WithoutExpired = <<>> THEN Never ELSE WithoutExpired[1]

MarkComplete(id) ==
  /\ executing' = [executing EXCEPT ![id] = Never]
  /\ completed' = [completed EXCEPT ![id] = now]
  /\ UNCHANGED <<items, byID>>

CleanCompleted(maxAge) ==
  /\ completed' = [id \in ID |-> IF completed[id] # Never /\ completed[id] < now - maxAge
                                 THEN Never ELSE completed[id]]
  /\ UNCHANGED <<items, byID, executing>>

UpdatePriority(id, priority) ==
  /\ id \in byID
  /\ items' = LET i == IndexOf(id)
              IN  Sift([items EXCEPT ![i].priority = priority], i, Len(items))
  /\ UNCHANGED <<byID, executing, completed>>

RemoveByID(id) ==
  /\ id \in byID
  /\ items' = HeapRemove(items, IndexOf(id))
  /\ byID' = byID \ {id}
  /\ UNCHANGED <<executing, completed>>

Tick ==
  /\ now < MaxTime
  /\ now' = now + 1
  /\ UNCHANGED queueVars

-----------------------------------------------------------------------------
(* The map and the array of the queue name the same opportunities, each    *)
(* once, whatever was evicted, expired, removed or re-prioritised.         *)
IndexAgrees == byID = IDs(items) /\ Cardinality(byID) = Len(items)

(* Peek and Dequeue see the best opportunity: the array is a heap after    *)
(* every operation.                                                        *)
HeapOrdered == \A i \in 2 .. Len(items) : ~Less(items[i], items[i \div 2])
=============================================================================
