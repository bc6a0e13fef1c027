-------------------------------- MODULE Feed --------------------------------
(***************************************************************************)
(* The event feed and its users: EventFanOut (node/river.go) hands every   *)
(* event to every subscriber whose buffer has room; MempoolFlow            *)
(* (node/flow_harvester.go) keeps the recent hashes in a ring and folds    *)
(* them into an entropy pool; Dispatcher (node/dispatcher.go) broadcasts a *)
(* payload and collects the hashes that go by until it has settled.        *)
(*                                                                         *)
(* A dispatch is numbered; the number names its subscription, its stop     *)
(* channel and its collector goroutine, which reads d.stopCh afresh on     *)
(* every turn and so watches whatever channel is current then.             *)
(***************************************************************************)
EXTENDS Naturals, Sequences, FiniteSets, SequencesExt

CONSTANTS
    Caller,        \* goroutines that call Dispatch
    Hash,
    BufSize,       \* capacity of a subscription
    RingSize,      \* capacity of recentHashes
    MaxEvents,     \* bound: events emitted
    MaxDispatches, \* bound: dispatches begun
    None

Dispatch == 1 .. MaxDispatches

VARIABLES
    ring, ringIdx, hashCount, pool, \* MempoolFlow
    ingested,                       \* the hashes ingested so far, oldest first
    subs,                           \* the subscriptions in the fan-out
    buffer, closed,                 \* of each subscription: its channel
    collecting, gen, list,          \* Dispatcher: collecting, current dispatch, hashList
    stopped,                        \* the dispatches whose stopCh is closed
    caller,                         \* each caller: [pc, d, result]
    watch,                          \* the stop channel each collector waits on
    panicked                        \* a closed channel was closed again

flow == <<ring, ringIdx, hashCount, pool, ingested>>
dispatcher == <<collecting, gen, list, stopped>>
vars == <<flow, subs, buffer, closed, dispatcher, caller, watch, panicked>>

Idle == [pc |-> "idle", d |-> 0, result |-> <<>>]

Init ==
    /\ ring = [i \in 0 .. RingSize - 1 |-> None] /\ ringIdx = 0 /\ hashCount = 0
    /\ pool = {} /\ ingested = <<>>
    /\ subs = {} /\ closed = {} /\ buffer = [d \in Dispatch |-> <<>>]
    /\ collecting = FALSE /\ gen = 0 /\ list = <<>> /\ stopped = {}
    /\ caller = [c \in Caller |-> Idle]
    /\ watch = [d \in Dispatch |-> None]
    /\ panicked = FALSE

-----------------------------------------------------------------------------
(* Ingest: the xor of the pool, and the ring.                              *)
Ingest(h) ==
    /\ pool' = IF h \in pool THEN pool \ {h} ELSE pool \cup {h}
    /\ ring' = [ring EXCEPT ![ringIdx] = h]
    /\ ringIdx' = (ringIdx + 1) % RingSize
    /\ hashCount' = hashCount + 1
    /\ ingested' = Append(ingested, h)

(* Harvest hands out the pool and clears it; the ring stays.               *)
Harvest ==
    /\ ~ panicked /\ pool # {}
    /\ pool' = {}
    /\ UNCHANGED <<ring, ringIdx, hashCount, ingested, subs, buffer, closed, dispatcher,
                   caller, watch, panicked>>

(* Mutant: the entries that are not filled yet are counted.                *)
RecentHashesFromFront(n) ==
    LET k == IF n > RingSize THEN RingSize ELSE n IN
    [i \in 1 .. k |-> ring[(ringIdx + RingSize - i) % RingSize]]

(* RecentHashes(n), newest first, as the indexes of the ring give them.    *)
RecentHashes(n) ==
    LET k == IF n > RingSize THEN RingSize ELSE n
        m == IF k > hashCount THEN hashCount ELSE k IN
    [i \in 1 .. m |-> ring[(ringIdx + RingSize - i) % RingSize]]

(* Emit never waits: a subscriber that is full misses the event.           *)
Delivered(h) == [d \in Dispatch |->
    IF d \in subs /\ Len(buffer[d]) < BufSize THEN Append(buffer[d], h) ELSE buffer[d]]

(* The handler for hashes: the flow first, then the feed.                  *)
HashArrives(h) ==
    /\ ~ panicked /\ hashCount < MaxEvents
    /\ Ingest(h)
    /\ buffer' = Delivered(h)
    /\ UNCHANGED <<subs, closed, dispatcher, caller, watch, panicked>>

-----------------------------------------------------------------------------
At(c, pc) == ~ panicked /\ caller[c].pc = pc
Goes(c, pc) == caller' = [caller EXCEPT ![c].pc = pc]

(* Dispatch, under the lock.  While another one collects it returns an     *)
(* error and changes nothing.                                              *)
BeginDispatch(c) ==
    /\ At(c, "idle") /\ ~ collecting /\ gen < MaxDispatches
    /\ collecting' = TRUE /\ gen' = gen + 1 /\ list' = <<>>
    /\ caller' = [caller EXCEPT ![c] = [pc |-> "begun", d |-> gen + 1, result |-> <<>>]]
    /\ UNCHANGED <<flow, subs, buffer, closed, stopped, watch, panicked>>

(* Subscribe, and start the collector.                                     *)
Subscribes(c) ==
    /\ At(c, "begun")
    /\ subs' = subs \cup {caller[c].d}
    /\ watch' = [watch EXCEPT ![caller[c].d] = gen]
    /\ Goes(c, "subscribed")
    /\ UNCHANGED <<flow, buffer, closed, dispatcher, panicked>>

(* The broadcast fails, and the deferred calls run; or it is done.         *)
Broadcasts(c) ==
    /\ At(c, "subscribed")
    /\ \/ Goes(c, "collecting")
       \/ Goes(c, "leaving")
    /\ UNCHANGED <<flow, subs, buffer, closed, dispatcher, watch, panicked>>

(* Settled, timed out, cancelled or stopped: the list as it is now.        *)
Settles(c) ==
    /\ At(c, "collecting")
    /\ caller' = [caller EXCEPT ![c].pc = "leaving", ![c].result = list]
    /\ UNCHANGED <<flow, subs, buffer, closed, dispatcher, watch, panicked>>

(* Mutant: a dispatch that failed keeps its subscription.                  *)
UnsubscribesAfterResult(c) ==
    /\ At(c, "leaving")
    /\ IF caller[c].result = <<>>
       THEN UNCHANGED <<subs, closed>>
       ELSE /\ subs' = subs \ {caller[c].d}
            /\ closed' = closed \cup ({caller[c].d} \cap subs)
    /\ Goes(c, "left")
    /\ UNCHANGED <<flow, buffer, dispatcher, watch, panicked>>

(* The deferred calls, last one first: Unsubscribe closes the channel and  *)
(* removes the subscription, then collecting is cleared.                   *)
Unsubscribes(c) ==
    /\ At(c, "leaving")
    /\ subs' = subs \ {caller[c].d}
    /\ closed' = closed \cup ({caller[c].d} \cap subs)
    /\ Goes(c, "left")
    /\ UNCHANGED <<flow, buffer, dispatcher, watch, panicked>>

DispatchReturns(c) ==
    /\ At(c, "left")
    /\ collecting' = FALSE
    /\ caller' = [caller EXCEPT ![c] = Idle]
    /\ UNCHANGED <<flow, subs, buffer, closed, gen, list, stopped, watch, panicked>>

-----------------------------------------------------------------------------
(* The collector of dispatch d takes an event: collectHashes appends what  *)
(* is new to the list of whatever dispatch is collecting now.  When the    *)
(* processor wants no more, the stop channel is closed without a look at   *)
(* whether it is closed already.                                           *)
Collects(d) ==
    /\ ~ panicked /\ watch[d] # None /\ buffer[d] # <<>>
    /\ LET h == Head(buffer[d])
           new == collecting /\ ~ Contains(list, h) IN
       /\ list' = IF new THEN Append(list, h) ELSE list
       /\ \/ UNCHANGED <<stopped, panicked>>
          \/ /\ new
             /\ stopped' = stopped \cup {gen}
             /\ panicked' = (gen \in stopped)
    /\ buffer' = [buffer EXCEPT ![d] = Tail(@)]
    /\ watch' = [watch EXCEPT ![d] = gen]
    /\ UNCHANGED <<flow, subs, closed, collecting, gen, caller>>

CollectorEnds(d) ==
    /\ ~ panicked /\ watch[d] # None
    /\ \/ watch[d] \in stopped
       \/ d \in closed /\ buffer[d] = <<>>
    /\ watch' = [watch EXCEPT ![d] = None]
    /\ UNCHANGED <<flow, subs, buffer, closed, dispatcher, caller, panicked>>

(* Dispatcher.Stop, which does look.                                       *)
StopDispatcher ==
    /\ ~ panicked /\ collecting /\ gen \notin stopped
    /\ stopped' = stopped \cup {gen}
    /\ UNCHANGED <<flow, subs, buffer, closed, collecting, gen, list, caller, watch, panicked>>

(* NetworkFeedImpl.Stop closes every subscription; the transport's         *)
(* handlers may still emit, to nobody.                                     *)
CloseFeed ==
    /\ ~ panicked /\ subs # {}
    /\ closed' = closed \cup subs
    /\ subs' = {}
    /\ UNCHANGED <<flow, buffer, dispatcher, caller, watch, panicked>>

Next ==
    \/ \E h \in Hash : HashArrives(h)
    \/ Harvest
    \/ \E c \in Caller : \/ BeginDispatch(c) \/ Subscribes(c) \/ Broadcasts(c)
                         \/ Settles(c) \/ Unsubscribes(c) \/ DispatchReturns(c)
    \/ \E d \in Dispatch : Collects(d) \/ CollectorEnds(d)
    \/ StopDispatcher
    \/ CloseFeed

Spec == Init /\ [][Next]_vars

-----------------------------------------------------------------------------
(* The ring and its indexes give back the last hashes ingested, newest     *)
(* first, at every fill and after every wrap, as many as are asked for or  *)
(* there are (RecentHashes, which RecentHashes of every feed user calls).  *)
RecentIsLatest ==
    \A n \in 0 .. RingSize + 1 :
        LET r == RecentHashes(n)
            m == Len(r) IN
        /\ m = IF n > RingSize \/ n > hashCount
               THEN (IF RingSize < hashCount THEN RingSize ELSE hashCount) ELSE n
        /\ \A i \in 1 .. m : r[i] = ingested[Len(ingested) + 1 - i]

(* Every way out of Dispatch gives the subscription back: when no dispatch *)
(* is collecting the fan-out holds no subscription of the dispatcher, and  *)
(* each collector left has its end in sight, a closed channel.             *)
SubscriptionsReturned ==
    ~ collecting =>
        /\ subs = {}
        /\ \A d \in Dispatch : watch[d] # None => d \in closed
=============================================================================
