----------------------------- MODULE Presigned -----------------------------
(***************************************************************************)
(* Where the transactions of the Executor get their nonces                 *)
(* (arb/presigned.go and executeStep of arb/executor.go), on one chain.    *)
(* The PreSignedCache signs transactions ahead, each with the next nonce,  *)
(* and hands them out; executeStep broadcasts what it gets and tells the   *)
(* cache, or else signs a transaction with a nonce of the Executor's own   *)
(* counter.  psc.mu makes each method of the cache one step.               *)
(*                                                                         *)
(* A shelf is a DEX with a direction; on it lie lists of transactions, one *)
(* for each configured amount.  Every transaction has the same lifetime,   *)
(* so they expire in the order they were signed, which is that of their    *)
(* nonces: expired is the first nonce still alive.                         *)
(***************************************************************************)
EXTENDS Naturals, Sequences, SequencesExt

CONSTANTS
    Shelves,      \* config.DEXs and directions, a sequence, in their order
    Routed,       \* the shelves whose DEX has a router on this chain
    Amounts,      \* config.Amounts, a sequence
    Wanted,       \* the amounts that steps of a path ask for
    CacheDepth,
    Step,         \* goroutines in executeStep
    None,
    MaxSteps,     \* bound: calls of executeStep
    MaxSigned,    \* bound: nonces signed ahead
    Reported      \* nonces that a node reports to SetNonce

VARIABLES
    cache,        \* psc.cache: a list of nonces for each shelf and amount
    currentNonce,
    maxNonce,
    expired,      \* the transactions with lower nonces are past ExpiresAt
    psc,          \* "new", "running" or "stopped"
    nonces,       \* e.nonces: the counter of the Executor
    step,         \* each goroutine in executeStep: [pc, tx]
    handed,       \* history: every nonce GetPreSignedTx returned, in order
    steps

vars == <<cache, currentNonce, maxNonce, expired, psc, nonces, step, handed, steps>>

Key == ToSet(Shelves) \X ToSet(Amounts)

Init ==
    /\ cache = [k \in Key |-> << >>]
    /\ currentNonce = 0 /\ maxNonce = 0 /\ expired = 0
    /\ psc = "new" /\ nonces = 0 /\ steps = 0
    /\ step = [s \in Step |-> [pc |-> "idle", tx |-> None]]
    /\ handed = << >>

-----------------------------------------------------------------------------
Alive(n) == n >= expired

(* preSignTx for the missing depth: each call takes a nonce.               *)
Sign(first, depth) == [i \in 1..depth |-> first + (i - 1)]

(* ensureCacheDepth on a cache and a counter.  For a DEX without a router  *)
(* the first preSignTx takes a nonce and fails.                            *)
EnsureCacheDepth(c, k) ==
    LET valid == Len(SelectSeq(c.cache[k], Alive))
        missing == IF valid < CacheDepth THEN CacheDepth - valid ELSE 0
    IN  CASE missing = 0 -> c
          [] missing > 0 /\ k[1] \in Routed ->
               [cache |-> [c.cache EXCEPT ![k] = @ \o Sign(c.next, missing)],
                next  |-> c.next + missing]
          [] OTHER -> [c EXCEPT !.next = @ + 1]

(* populateCache: every shelf, every amount, in the order of the config.   *)
PopulateCache(c) ==
    LET keys == FlattenSeq([i \in 1..Len(Shelves) |->
                              [j \in 1..Len(Amounts) |-> <<Shelves[i], Amounts[j]>>]])
    IN  FoldLeft(EnsureCacheDepth, c, keys)

PruneExpired(c) == [k \in Key |-> SelectSeq(c[k], Alive)]

Populated(c) ==
    LET after == PopulateCache([cache |-> c, next |-> maxNonce])
    IN  /\ after.next <= MaxSigned
        /\ cache' = after.cache
        /\ maxNonce' = after.next

Start ==
    /\ psc = "new"
    /\ psc' = "running"
    /\ Populated(cache)
    /\ UNCHANGED <<currentNonce, expired, nonces, step, handed, steps>>

(* refreshLoop's tick prunes, unlocks and populates; nothing that happens  *)
(* in between can see the pruned transactions.                             *)
RefreshLoop ==
    /\ psc = "running"
    /\ Populated(PruneExpired(cache))
    /\ UNCHANGED <<currentNonce, expired, psc, nonces, step, handed, steps>>

Stop ==
    /\ psc = "running"
    /\ psc' = "stopped"
    /\ UNCHANGED <<cache, currentNonce, maxNonce, expired, nonces, step, handed, steps>>

(* TxLifetime passes for the transactions signed first.                    *)
Expire ==
    /\ expired < maxNonce
    /\ expired' \in (expired + 1)..maxNonce
    /\ UNCHANGED <<cache, currentNonce, maxNonce, psc, nonces, step, handed, steps>>

(* Mutant: the nonce of the chain also resets what has been signed ahead.  *)
SetNonceRestarts(n) ==
    /\ nonces' = n
    /\ currentNonce' = n
    /\ maxNonce' = n
    /\ UNCHANGED <<cache, expired, psc, step, handed, steps>>

(* Executor.SetNonce, which passes the nonce on to the cache.              *)
SetNonce(n) ==
    /\ nonces' = n
    /\ currentNonce' = n
    /\ maxNonce' = IF maxNonce < n THEN n ELSE maxNonce
    /\ UNCHANGED <<cache, expired, psc, step, handed, steps>>

-----------------------------------------------------------------------------
(* findClosestAmount: the first of the amounts that are nearest.           *)
FindClosestAmount(target) ==
    LET Diff(a) == IF a < target THEN target - a ELSE a - target
        nearest == {i \in DOMAIN Amounts :
                      \A j \in DOMAIN Amounts : Diff(Amounts[i]) <= Diff(Amounts[j])}
    IN  Amounts[CHOOSE i \in nearest : \A j \in nearest : i <= j]

Usable(n) == Alive(n) /\ n >= currentNonce

(* GetPreSignedTx takes the first usable transaction off the list.         *)
GetPreSignedTx(s, shelf, amount) ==
    LET k == <<shelf, FindClosestAmount(amount)>>
        usable == {i \in DOMAIN cache[k] : Usable(cache[k][i])}
        i == CHOOSE j \in usable : \A l \in usable : j <= l
    IN  /\ step[s].pc = "idle"
        /\ steps < MaxSteps
        /\ steps' = steps + 1
        /\ \/ /\ usable # {}
              /\ cache' = [cache EXCEPT ![k] = RemoveAt(@, i)]
              /\ handed' = Append(handed, cache[k][i])
              /\ step' = [step EXCEPT ![s] = [pc |-> "broadcast", tx |-> cache[k][i]]]
           \/ /\ usable = {}
              /\ step' = [step EXCEPT ![s].pc = "fallback"]
              /\ UNCHANGED <<cache, handed>>
        /\ UNCHANGED <<currentNonce, maxNonce, expired, psc, nonces>>

Broadcast(s) ==
    /\ step[s].pc = "broadcast"
    /\ \/ step' = [step EXCEPT ![s].pc = "mark"]
       \/ step' = [step EXCEPT ![s] = [pc |-> "fallback", tx |-> None]]
    /\ UNCHANGED <<cache, currentNonce, maxNonce, expired, psc, nonces, handed, steps>>

MarkNonceUsed(s) ==
    LET n == step[s].tx
        Other(m) == m # n
    IN  /\ step[s].pc = "mark"
        /\ currentNonce' = IF n >= currentNonce THEN n + 1 ELSE currentNonce
        /\ cache' = [k \in Key |-> SelectSeq(cache[k], Other)]
        /\ step' = [step EXCEPT ![s] = [pc |-> "idle", tx |-> None]]
        /\ UNCHANGED <<maxNonce, expired, psc, nonces, handed, steps>>

(* buildSwapTx, signTx and the broadcast: nextNonce counts on its own, and *)
(* is not told whether the broadcast failed.                               *)
Fallback(s) ==
    /\ step[s].pc = "fallback"
    /\ nonces' = nonces + 1
    /\ step' = [step EXCEPT ![s].pc = "idle"]
    /\ UNCHANGED <<cache, currentNonce, maxNonce, expired, psc, handed, steps>>

-----------------------------------------------------------------------------
Next ==
    \/ Start \/ RefreshLoop \/ Stop \/ Expire
    \/ \E n \in Reported : SetNonce(n)
    \/ \E s \in Step : \/ \E shelf \in ToSet(Shelves), a \in Wanted : GetPreSignedTx(s, shelf, a)
                       \/ Broadcast(s) \/ MarkNonceUsed(s) \/ Fallback(s)

Spec == Init /\ [][Next]_vars

-----------------------------------------------------------------------------
(* No two steps get transactions with the same nonce, and none gets one    *)
(* that lies on a shelf still: whichever way the reported nonce jumps,     *)
(* transactions expire and broadcasts fail, what the cache hands out never *)
(* replaces an earlier transaction of its own.                             *)
HandedOutOnce ==
    /\ IsInjective(handed)
    /\ \A k \in Key : ToSet(cache[k]) \intersect ToSet(handed) = {}
=============================================================================
