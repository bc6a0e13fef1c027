------------------------------- MODULE DevP2P -------------------------------
(***************************************************************************)
(* The direct transport: DevP2PNode (node/devp2p.go) gossips signed ZEAM   *)
(* transactions between peers, P2PTransport (node/transport_p2p.go) gives  *)
(* them their meaning, and startP2P (cmd/main.go) answers queries and asks *)
(* the mesh for the blocks of its own fork.                                *)
(*                                                                         *)
(* A transaction is a record: what it says, who signed it, and a number    *)
(* that stands for its nonce.  The fork of an identity is named by the     *)
(* node that holds the identity.  A connection carries its messages in     *)
(* order; the announcing goroutines write to it whenever they are run.     *)
(***************************************************************************)
EXTENDS Naturals, Sequences, FiniteSets

CONSTANTS
    Node,        \* the processes
    Kinds,       \* what the users of the nodes ask to broadcast
    Batch, Keys, \* payloads of a batch, and keys they are signed with
    MaxTxs,      \* bound: transactions signed in a behaviour
    MaxCuts      \* bound: connections lost and processes restarted

VARIABLES
    peer,        \* peer[n][p]: n's runPeer for p: "none", "added", "sent" or "loop"
    wire,        \* wire[n][p]: the messages n has written for p and p has not read
    sending,     \* sending[n]: pairs <<p, message>>, goroutines about to write to p
    wanted,      \* wanted[n][p]: the hashes found unseen by a handler and not yet marked
    seen, pool,  \* seenTxs and txPool
    known,       \* knownTxs of each ethPeer
    cache,       \* the blocks of ForkCache: pairs <<fork, transaction number>>
    sync,        \* the goroutine of startP2P that looks for the node's own fork
    handled,     \* handled[n]: the transactions dispatched to n's callbacks
    lost,        \* lost[n]: those announced to n over a connection that broke
    signed, cuts \* the bounded counters

vars == <<peer, wire, sending, wanted, seen, pool, known, cache, sync,
          handled, lost, signed, cuts>>

Tx(kind, n, blocks) == [kind |-> kind, from |-> n, nr |-> signed, blocks |-> blocks]

Msg(type, txs) == [type |-> type, txs |-> txs]
Status == Msg("status", {})

Peers(n) == {p \in Node : peer[n][p] # "none"}

Init ==
    /\ peer = [n \in Node |-> [p \in Node |-> "none"]]
    /\ wire = [n \in Node |-> [p \in Node |-> <<>>]]
    /\ sending = [n \in Node |-> {}]
    /\ wanted = [n \in Node |-> [p \in Node |-> {}]]
    /\ seen = [n \in Node |-> {}]
    /\ pool = [n \in Node |-> {}]
    /\ known = [n \in Node |-> [p \in Node |-> {}]]
    /\ cache = [n \in Node |-> {}]
    /\ sync = [n \in Node |-> "waiting"]
    /\ handled = [n \in Node |-> {}]
    /\ lost = [n \in Node |-> {}]
    /\ signed = 0 /\ cuts = 0

-----------------------------------------------------------------------------
(* Mutant: what is announced is not kept for those who ask for it.         *)
BroadcastUnpooled(n, txs) ==
    /\ seen' = [seen EXCEPT ![n] = @ \cup txs]
    /\ pool' = pool
    /\ known' = [known EXCEPT ![n] = [p \in Node |->
                    IF p \in Peers(n) THEN @[p] \cup txs ELSE @[p]]]
    /\ sending' = [sending EXCEPT ![n] = @ \cup (Peers(n) \X {Msg("announce", txs)})]
    /\ signed' = signed + Cardinality(txs)

(* BroadcastZEAM: the pool, the seen set, and one announcement to every    *)
(* peer of the map, whatever stage its handshake is in.                    *)
BroadcastZEAM(n, txs) ==
    /\ seen' = [seen EXCEPT ![n] = @ \cup txs]
    /\ pool' = [pool EXCEPT ![n] = @ \cup txs]
    /\ known' = [known EXCEPT ![n] = [p \in Node |->
                    IF p \in Peers(n) THEN @[p] \cup txs ELSE @[p]]]
    /\ sending' = [sending EXCEPT ![n] = @ \cup (Peers(n) \X {Msg("announce", txs)})]
    /\ signed' = signed + Cardinality(txs)

(* The HTTP handlers of cmd/main.go that broadcast a block, a query or the *)
(* input of a collapse.                                                    *)
UserBroadcasts(n, kind) ==
    /\ signed < MaxTxs
    /\ BroadcastZEAM(n, {Tx(kind, n, {})})
    /\ UNCHANGED <<peer, wire, wanted, cache, sync, handled, lost, cuts>>

(* BroadcastZEAMBatchFastMultiKey: payloads nobody answers, split among    *)
(* the keys and signed by a goroutine for each of them; all are announced  *)
(* together.  A key that would get no payload signs nothing.               *)
PerKey == (Batch + Keys - 1) \div Keys
Share(k) == {i \in 0 .. Batch - 1 : k * PerKey <= i /\ i < (k + 1) * PerKey}

BroadcastBatch(n) ==
    /\ signed + Batch <= MaxTxs
    /\ BroadcastZEAM(n, UNION {{[Tx("batch", n, {}) EXCEPT !.nr = signed + i] : i \in Share(k)} : k \in 0 .. Keys - 1})
    /\ UNCHANGED <<peer, wire, wanted, cache, sync, handled, lost, cuts>>

(* BroadcastRawTx, for the trades: the peers get the transaction itself.   *)
BroadcastRawTx(n) ==
    /\ signed < MaxTxs
    /\ LET tx == Tx("raw", n, {}) IN
       /\ seen' = [seen EXCEPT ![n] = @ \cup {tx}]
       /\ pool' = [pool EXCEPT ![n] = @ \cup {tx}]
       /\ known' = [known EXCEPT ![n] = [p \in Node |->
                       IF p \in Peers(n) THEN @[p] \cup {tx} ELSE @[p]]]
       /\ sending' = [sending EXCEPT ![n] = @ \cup (Peers(n) \X {Msg("full", {tx})})]
    /\ signed' = signed + 1
    /\ UNCHANGED <<peer, wire, wanted, cache, sync, handled, lost, cuts>>

(* go p2p.Send(ep.rw, ...): the announcement, or the transaction.          *)
SendToPeer(n) == \E s \in sending[n] :
    /\ sending' = [sending EXCEPT ![n] = @ \ {s}]
    /\ wire' = IF s[1] \in Peers(n)
               THEN [wire EXCEPT ![n][s[1]] = Append(@, s[2])]
               ELSE wire
    /\ UNCHANGED <<peer, wanted, seen, pool, known, cache, sync, handled, lost, signed, cuts>>

-----------------------------------------------------------------------------
(* runPeer: the peer enters the map, then OnPeerConnect, then the status.  *)
Connect(n, p) ==
    /\ n # p /\ peer[n][p] = "none" /\ peer[p][n] = "none"
    /\ peer' = [peer EXCEPT ![n][p] = "added", ![p][n] = "added"]
    /\ UNCHANGED <<wire, sending, wanted, seen, pool, known, cache, sync,
                   handled, lost, signed, cuts>>

SendStatus(n, p) ==
    /\ peer[n][p] = "added"
    /\ peer' = [peer EXCEPT ![n][p] = "sent"]
    /\ wire' = [wire EXCEPT ![n][p] = Append(@, Status)]
    /\ UNCHANGED <<sending, wanted, seen, pool, known, cache, sync, handled, lost,
                   signed, cuts>>

(* The rest of doHandshake: the first message must be the peer's status;   *)
(* a foreign network is accepted all the same.                             *)
ReadStatus(n, p) ==
    /\ peer[n][p] = "sent" /\ wire[p][n] # <<>> /\ Head(wire[p][n]) = Status
    /\ peer' = [peer EXCEPT ![n][p] = "loop"]
    /\ wire' = [wire EXCEPT ![p][n] = Tail(@)]
    /\ UNCHANGED <<sending, wanted, seen, pool, known, cache, sync, handled, lost,
                   signed, cuts>>

(* What a node p was promised over its connection with n: hashes announced *)
(* or about to be, requested, or on their way.                             *)
Coming(n, p) ==
    UNION {wire[n][p][i].txs : i \in DOMAIN wire[n][p]}
        \cup UNION {wire[p][n][i].txs : i \in {j \in DOMAIN wire[p][n] : wire[p][n][j].type = "get"}}
        \cup UNION {s[2].txs : s \in {t \in sending[n] : t[1] = p}}
        \cup wanted[p][n]

(* The connection ends for both sides: removePeer drops the peer with what *)
(* it is known to know, and what was on the wire is gone.                  *)
Disconnected(S) ==
    /\ peer' = [n \in Node |-> [p \in Node |->
                    IF {n, p} \in S THEN "none" ELSE peer[n][p]]]
    /\ wire' = [n \in Node |-> [p \in Node |->
                    IF {n, p} \in S THEN <<>> ELSE wire[n][p]]]
    /\ wanted' = [n \in Node |-> [p \in Node |->
                    IF {n, p} \in S THEN {} ELSE wanted[n][p]]]

Link(n, p) == peer[n][p] # "none" /\ peer[p][n] # "none"

(* A read error, or a first message that is not a status ("expected        *)
(* status"): an announcement written before the status fails the handshake.*)
Drop(n, p) ==
    /\ Link(n, p)
    /\ \/ cuts < MaxCuts /\ cuts' = cuts + 1
       \/ /\ peer[n][p] = "sent" /\ wire[p][n] # <<>> /\ Head(wire[p][n]) # Status
          /\ UNCHANGED cuts
    /\ Disconnected({{n, p}})
    /\ known' = [known EXCEPT ![n][p] = {}, ![p][n] = {}]
    /\ sending' = [sending EXCEPT ![n] = {s \in @ : s[1] # p}, ![p] = {s \in @ : s[1] # n}]
    /\ lost' = [lost EXCEPT ![n] = @ \cup Coming(p, n), ![p] = @ \cup Coming(n, p)]
    /\ UNCHANGED <<seen, pool, cache, sync, handled, signed>>

-----------------------------------------------------------------------------
(* The two messages of a fork's recovery, and the others: what the         *)
(* callbacks of startP2P broadcast in answer to a transaction.  The type   *)
(* byte of a genesis is the one of price gossip, for which the transport   *)
(* has no callback.                                                        *)
Answers(n, tx) ==
    CASE tx.kind = "query" -> {Tx("response", n, {})}
      [] tx.kind = "collapseIn" -> {Tx("collapseOut", n, {})}
      [] tx.kind = "request" /\ \E b \in cache[n] : b[1] = tx.from
           -> {Tx("sync", n, {b \in cache[n] : b[1] = tx.from})}
      [] OTHER -> {}

(* handleZEAMMessage adds to the cache what a sync carries, and nothing    *)
(* else: a block is reported to OnZEAMBlock, which logs it.                *)
Cached(n, tx) == IF tx.kind = "sync" THEN cache[n] \cup tx.blocks ELSE cache[n]

(* Read one message in the loop of runPeer.                                *)
Read(n, p, type) ==
    /\ peer[n][p] = "loop" /\ wanted[n][p] = {}
    /\ wire[p][n] # <<>> /\ Head(wire[p][n]).type = type

(* handleNewPooledTxHashes, up to the release of the read lock.            *)
HandleHashes(n, p) ==
    /\ Read(n, p, "announce")
    /\ wanted' = [wanted EXCEPT ![n][p] = Head(wire[p][n]).txs \ seen[n]]
    /\ wire' = [wire EXCEPT ![p][n] = Tail(@)]
    /\ UNCHANGED <<peer, sending, seen, pool, known, cache, sync, handled, lost, signed, cuts>>

(* The rest of it: the hashes are marked as seen, and asked for.           *)
RequestWanted(n, p) ==
    /\ wanted[n][p] # {}
    /\ seen' = [seen EXCEPT ![n] = @ \cup wanted[n][p]]
    /\ wire' = [wire EXCEPT ![n][p] = Append(@, Msg("get", wanted[n][p]))]
    /\ wanted' = [wanted EXCEPT ![n][p] = {}]
    /\ UNCHANGED <<peer, sending, pool, known, cache, sync, handled, lost, signed, cuts>>

(* handleGetPooledTransactions: an answer without transactions changes     *)
(* nothing where it arrives.                                               *)
HandleGet(n, p) ==
    /\ Read(n, p, "get")
    /\ LET txs == Head(wire[p][n]).txs \cap pool[n] IN
       wire' = [wire EXCEPT ![p][n] = Tail(@),
                            ![n][p] = IF txs # {} THEN Append(@, Msg("pooled", txs)) ELSE @]
    /\ UNCHANGED <<peer, sending, wanted, seen, pool, known, cache, sync, handled, lost,
                   signed, cuts>>

(* handleTransactions, for a transaction that comes unasked.               *)
HandleTransactions(n, p) ==
    /\ Read(n, p, "full")
    /\ LET new == Head(wire[p][n]).txs \ seen[n] IN
       /\ seen' = [seen EXCEPT ![n] = @ \cup new]
       /\ known' = [known EXCEPT ![n][p] = @ \cup new]
       /\ handled' = [handled EXCEPT ![n] = @ \cup new]
    /\ wire' = [wire EXCEPT ![p][n] = Tail(@)]
    /\ UNCHANGED <<peer, sending, wanted, pool, cache, sync, lost, signed, cuts>>

(* handlePooledTransactions, with the callbacks it runs.                   *)
HandlePooled(n, p) ==
    /\ Read(n, p, "pooled")
    /\ LET txs == Head(wire[p][n]).txs
           answers == UNION {Answers(n, tx) : tx \in txs} IN
       /\ handled' = [handled EXCEPT ![n] = @ \cup txs]
       /\ cache' = [cache EXCEPT ![n] = UNION {Cached(n, tx) : tx \in txs}]
       /\ seen' = [seen EXCEPT ![n] = @ \cup answers]
       /\ pool' = [pool EXCEPT ![n] = @ \cup answers]
       /\ known' = [known EXCEPT ![n] = [q \in Node |->
                      @[q] \cup (IF q = p THEN txs ELSE {})
                           \cup (IF q \in Peers(n) THEN answers ELSE {})]]
       /\ sending' = [sending EXCEPT ![n] = @ \cup (Peers(n) \X {Msg("announce", {a}) : a \in answers})]
       /\ signed' = signed + Cardinality(answers)
    /\ wire' = [wire EXCEPT ![p][n] = Tail(@)]
    /\ UNCHANGED <<peer, wanted, sync, lost, cuts>>

-----------------------------------------------------------------------------
(* The recovery goroutine of startP2P: WaitForPeers, then RequestForkSync. *)
NoPeers(n) ==
    /\ sync[n] = "waiting" /\ Peers(n) = {}
    /\ sync' = [sync EXCEPT ![n] = "no peers"]
    /\ UNCHANGED <<peer, wire, sending, wanted, seen, pool, known, cache, handled, lost,
                   signed, cuts>>

RequestForkSync(n) ==
    /\ sync[n] = "waiting" /\ Peers(n) # {} /\ signed < MaxTxs
    /\ BroadcastZEAM(n, {Tx("request", n, {})})
    /\ sync' = [sync EXCEPT ![n] = "asked"]
    /\ UNCHANGED <<peer, wire, wanted, cache, handled, lost, cuts>>

SyncReturns(n) ==
    /\ sync[n] = "asked"
    /\ sync' = [sync EXCEPT ![n] =
                  IF \E b \in cache[n] : b[1] = n THEN "recovered" ELSE "fresh"]
    /\ UNCHANGED <<peer, wire, sending, wanted, seen, pool, known, cache, handled, lost,
                   signed, cuts>>

(* The process ends and starts again: everything above lives in memory.    *)
Restart(n) ==
    /\ cuts < MaxCuts /\ cuts' = cuts + 1
    /\ Disconnected({{n, p} : p \in Node})
    /\ seen' = [seen EXCEPT ![n] = {}]
    /\ pool' = [pool EXCEPT ![n] = {}]
    /\ cache' = [cache EXCEPT ![n] = {}]
    /\ sync' = [sync EXCEPT ![n] = "waiting"]
    /\ handled' = [handled EXCEPT ![n] = {}]
    /\ known' = [q \in Node |-> IF q = n THEN [p \in Node |-> {}]
                                ELSE [known[q] EXCEPT ![n] = {}]]
    /\ sending' = [q \in Node |-> IF q = n THEN {} ELSE {s \in sending[q] : s[1] # n}]
    /\ lost' = [q \in Node |-> IF q = n THEN {} ELSE lost[q] \cup Coming(n, q)]
    /\ UNCHANGED signed

Next ==
    \/ \E n \in Node :
         \/ \E kind \in Kinds : UserBroadcasts(n, kind)
         \/ SendToPeer(n) \/ BroadcastRawTx(n) \/ BroadcastBatch(n)
         \/ NoPeers(n) \/ RequestForkSync(n) \/ SyncReturns(n) \/ Restart(n)
    \/ \E n, p \in Node :
         \/ Connect(n, p) \/ SendStatus(n, p) \/ ReadStatus(n, p) \/ Drop(n, p)
         \/ HandleHashes(n, p) \/ RequestWanted(n, p)
         \/ HandleGet(n, p) \/ HandlePooled(n, p) \/ HandleTransactions(n, p)

Spec == Init /\ [][Next]_vars

-----------------------------------------------------------------------------
(* A hash is marked as seen when it is announced, before its transaction   *)
(* is there, and nothing asks for a seen hash again: so whatever a node has *)
(* marked has reached its callbacks, or is still promised by the peer that *)
(* announced it, or went down with a connection.                           *)
SeenIsHandledOrComing ==
    \A n \in Node : \A tx \in seen[n] :
        \/ tx.from = n
        \/ tx \in handled[n] \cup lost[n]
        \/ \E p \in Node : tx \in Coming(p, n)
=============================================================================
