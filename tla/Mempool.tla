------------------------------ MODULE Mempool ------------------------------
(***************************************************************************)
(* The ZEAMDetector (arb/zeam_detector.go) behind a MempoolParser          *)
(* (arb/mempool_parser.go).  Callers inject transactions concurrently; a   *)
(* transaction to a known router is parsed, remembered as a pending swap   *)
(* and handed to handlePendingSwap, which takes the detector's lock for    *)
(* one part of its work at a time: it removes what has aged, adds the      *)
(* swap to the impact expected on its pool, looks for a spread and keeps   *)
(* an opportunity that the shotgun filter lets through.                    *)
(*                                                                         *)
(* A call is one of the selectors parseCalldata knows, well formed.  The   *)
(* parser leaves PoolAddress zero, so there is one impact for each chain.  *)
(* Impacts count hundredths of a basis point.  Counters kept for Stats and *)
(* scores, which order the opportunities and decide nothing, are left out. *)
(***************************************************************************)
EXTENDS Naturals, FiniteSets

CONSTANTS
    Caller,           \* goroutines that call InjectTransaction
    Tx,
    ChainOf,          \* the chain of each transaction
    Call,             \* the function each transaction calls, "none" if not of a router
    AmountIn,         \* the amount in each transaction's calldata
    Chain,            \* GetEnabledChains
    TxHash,           \* hashes the transport announces
    Passing,          \* pairs <<tx, pool>> whose combined hash is below the threshold
    MinPredictedImpact,
    ImpactWindow,
    OpportunityTimeout,
    SwapAge,          \* the age at which cleanup drops a parsed swap: 5 minutes
    Bucket,           \* how long ComputeID takes two times for the same
    None,
    MaxParsed, MaxNow \* bounds

VARIABLES
    now,
    running,          \* of the detector
    wired,            \* the detector is the parser's and the transport's callback
    pendingSwaps,     \* of the parser: the swap parsed from each transaction
    handler,          \* each caller: [pc, swap, opp]
    pendingImpacts,   \* of each chain: [swaps, cumulative, lastUpdate]
    opportunities,    \* records, one for each ID
    shotgunPool,      \* the xor of the announced hashes: those announced an odd number of times
    parsed,           \* how many swaps were parsed
    tracked           \* history: the swaps given to trackPendingImpact, and when

vars == <<now, running, wired, pendingSwaps, handler, pendingImpacts, opportunities, shotgunPool,
          parsed, tracked>>

Idle == [pc |-> "idle", swap |-> None, opp |-> None]

Init ==
    /\ now = 0 /\ running = FALSE /\ wired = FALSE
    /\ pendingSwaps = [t \in Tx |-> None]
    /\ handler = [c \in Caller |-> Idle]
    /\ pendingImpacts = [c \in Chain |-> None]
    /\ opportunities = {}
    /\ shotgunPool = {}
    /\ parsed = 0
    /\ tracked = {}

Tick ==
    /\ now < MaxNow
    /\ now' = now + 1
    /\ UNCHANGED <<running, wired, pendingSwaps, handler, pendingImpacts,
                   opportunities, shotgunPool, tracked, parsed>>

(* Start sets the callbacks; Stop leaves them set.                         *)
Start ==
    /\ ~running
    /\ running' = TRUE /\ wired' = TRUE
    /\ UNCHANGED <<now, pendingSwaps, handler, pendingImpacts, opportunities, shotgunPool,
                   tracked, parsed>>

Stop ==
    /\ running
    /\ running' = FALSE
    /\ UNCHANGED <<now, wired, pendingSwaps, handler, pendingImpacts, opportunities,
                   shotgunPool, tracked, parsed>>

-----------------------------------------------------------------------------
(* What parseCalldata makes of a call: of the V2 and V3 swaps both tokens  *)
(* and the amount, but no amount where the transaction's value is spent;   *)
(* of a multicall or the universal router's execute only that it swaps.    *)
WithAmount == {"swapExactTokensForTokens", "swapExactTokensForETH", "exactInputSingle", "exactInput"}
WithTokens == WithAmount \cup {"swapExactETHForTokens"}
Wrapped == {"multicall", "execute"}

ParseCalldata(t) ==
    IF Call[t] \in WithTokens \cup Wrapped
    THEN [tx |-> t, chain |-> ChainOf[t], tokens |-> Call[t] \in WithTokens,
          amount |-> IF Call[t] \in WithAmount THEN AmountIn[t] ELSE None,
          detectedAt |-> now]
    ELSE None

(* amountEth * (1 + amountEth / 100), in hundredths.                       *)
EstimateSwapImpact(swap) ==
    IF swap.amount = None THEN 0 ELSE swap.amount * (100 + swap.amount)

(* ParseTransaction remembers the swap and calls the detector, once it is  *)
(* started; a transaction seen again replaces what was parsed from it.     *)
ParseTransaction(c, t) ==
    /\ handler[c].pc = "idle"
    /\ parsed < MaxParsed
    /\ parsed' = parsed + 1
    /\ LET swap == ParseCalldata(t) IN
       /\ swap # None
       /\ pendingSwaps' = [pendingSwaps EXCEPT ![t] = swap]
       /\ handler' = IF wired
                     THEN [handler EXCEPT ![c] = [pc |-> "cleanup", swap |-> swap, opp |-> None]]
                     ELSE handler
    /\ UNCHANGED <<now, running, wired, pendingImpacts, opportunities, shotgunPool,
                   tracked>>

(* cleanup, under the detector's lock.  A swap without tokens goes no      *)
(* further.                                                                *)
Cleanup(c) ==
    /\ handler[c].pc = "cleanup"
    /\ opportunities' = {o \in opportunities : now <= o.expiresAt}
    /\ pendingImpacts' = [h \in Chain |->
           IF pendingImpacts[h] # None
           THEN IF pendingImpacts[h].lastUpdate + ImpactWindow < now THEN None ELSE pendingImpacts[h]
           ELSE None]
    /\ pendingSwaps' = [t \in Tx |->
           IF pendingSwaps[t] # None
           THEN IF pendingSwaps[t].detectedAt + SwapAge < now THEN None ELSE pendingSwaps[t]
           ELSE None]
    /\ handler' = [handler EXCEPT ![c] = IF @.swap.tokens THEN [@ EXCEPT !.pc = "track"] ELSE Idle]
    /\ UNCHANGED <<now, running, wired, shotgunPool, tracked, parsed>>

(* Mutant: only the first swap of a pool sets the time of the impact.      *)
TrackedFirstUpdate(impact, swap) ==
    IF impact = None
    THEN [swaps |-> {swap}, cumulative |-> EstimateSwapImpact(swap), lastUpdate |-> now]
    ELSE [impact EXCEPT !.swaps = @ \cup {swap}, !.cumulative = @ + EstimateSwapImpact(swap)]

(* The impact on a pool with one more swap.                                *)
Tracked(impact, swap) ==
    IF impact = None
    THEN [swaps |-> {swap}, cumulative |-> EstimateSwapImpact(swap), lastUpdate |-> now]
    ELSE [swaps |-> impact.swaps \cup {swap},
          cumulative |-> impact.cumulative + EstimateSwapImpact(swap), lastUpdate |-> now]

TrackPendingImpact(c) ==
    /\ handler[c].pc = "track"
    /\ LET swap == handler[c].swap IN
       /\ pendingImpacts' = [pendingImpacts EXCEPT ![swap.chain] = Tracked(@, swap)]
       /\ tracked' = tracked \cup {[swap |-> swap, at |-> now]}
    /\ handler' = [handler EXCEPT ![c].pc = "detect"]
    /\ UNCHANGED <<now, running, wired, pendingSwaps, opportunities, shotgunPool, parsed>>

-----------------------------------------------------------------------------
(* detectOpportunity on the prices of this moment: a pair of chains with   *)
(* enough spread, two different ones or twice the swap's own, if there is  *)
(* one.  ComputeID sees the pair and the time.                             *)
Pairs(swap) == {p \in Chain \X Chain : p[1] = p[2] => p[1] = swap.chain}

DetectOpportunity(c) ==
    /\ handler[c].pc = "detect"
    /\ LET swap == handler[c].swap IN
       \/ handler' = [handler EXCEPT ![c] = Idle]
       \/ /\ EstimateSwapImpact(swap) >= MinPredictedImpact
          /\ \E p \in Pairs(swap) :
                handler' = [handler EXCEPT ![c].pc = "filter",
                               ![c].opp = [id |-> <<p, now \div Bucket>>, trigger |-> swap,
                                           expiresAt |-> now + OpportunityTimeout]]
    /\ UNCHANGED <<now, running, wired, pendingSwaps, pendingImpacts, opportunities,
                   shotgunPool, tracked, parsed>>

(* applyShotgunFilter reads the pool under the lock; what passes is kept   *)
(* under another one.                                                      *)
ApplyShotgunFilter(c) ==
    /\ handler[c].pc = "filter"
    /\ handler' = [handler EXCEPT ![c] =
           IF <<@.swap.tx, shotgunPool>> \in Passing THEN [@ EXCEPT !.pc = "keep"] ELSE Idle]
    /\ UNCHANGED <<now, running, wired, pendingSwaps, pendingImpacts, opportunities,
                   shotgunPool, tracked, parsed>>

Keep(c) ==
    /\ handler[c].pc = "keep"
    /\ opportunities' = {o \in opportunities : o.id # handler[c].opp.id} \cup {handler[c].opp}
    /\ handler' = [handler EXCEPT ![c] = Idle]
    /\ UNCHANGED <<now, running, wired, pendingSwaps, pendingImpacts, shotgunPool,
                   tracked, parsed>>

(* handleTxHashes: a hash announced twice cancels itself.                  *)
HandleTxHashes(h) ==
    /\ wired
    /\ shotgunPool' = IF h \in shotgunPool THEN shotgunPool \ {h} ELSE shotgunPool \cup {h}
    /\ UNCHANGED <<now, running, wired, pendingSwaps, handler, pendingImpacts,
                   opportunities, tracked, parsed>>

Next ==
    \/ Tick \/ Start \/ Stop
    \/ \E c \in Caller, t \in Tx : ParseTransaction(c, t)
    \/ \E c \in Caller :
          Cleanup(c) \/ TrackPendingImpact(c) \/ DetectOpportunity(c) \/ ApplyShotgunFilter(c) \/ Keep(c)
    \/ \E h \in TxHash : HandleTxHashes(h)

Spec == Init /\ [][Next]_vars

-----------------------------------------------------------------------------
(* Every swap tracked within the last ImpactWindow is in the impact on its *)
(* pool, whatever other handlers cleaned up since: an impact is dropped    *)
(* with all of its swaps, so it may go only when the last one is old.      *)
RecentImpactKept ==
    \A r \in tracked :
       now <= r.at + ImpactWindow =>
          /\ pendingImpacts[r.swap.chain] # None
          /\ r.swap \in pendingImpacts[r.swap.chain].swaps
=============================================================================
