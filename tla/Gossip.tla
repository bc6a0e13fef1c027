------------------------------- MODULE Gossip -------------------------------
(***************************************************************************)
(* OpNodeGossip (node/opnode_gossip.go), the gossip of L2 blocks and of    *)
(* prices, and NetworkFeedImpl (node/river_impl.go), which turns it and    *)
(* the L1 transport into one stream of events.                             *)
(*                                                                         *)
(* A chain has a topic per version and a goroutine per topic; only the     *)
(* first topic and its subscription are kept and closed by Stop, so the    *)
(* other goroutines end by the context alone.  None of them is waited for. *)
(* What the pubsub library does (Join, Subscribe, Next, Cancel) is         *)
(* external; a message is own, a block with or without transactions in     *)
(* RLP, a block in SSZ, or something that does not decode.                 *)
(***************************************************************************)
EXTENDS Naturals, Sequences, FiniteSets, SequencesExt

CONSTANTS
    Chain, Version,
    Price,          \* stands for the price topic's handler
    BufSize,        \* capacity of the subscriber's channel
    MaxMessages     \* bound: messages that arrive

Message == {"own", "rlp", "empty", "ssz", "bad"}

Topic == Chain \X Version
Handler == Topic \cup {Price}

VARIABLES
    feed,           \* NetworkFeedImpl: "new", "hybrid", "up", "stopping", ..., "stopped"
    ctx,            \* the context is cancelled
    topics,         \* g.topics and g.subs: the first version of each chain
    priceSub, onPriceGossip,
    cancelled,      \* subscriptions that have been cancelled
    handler,        \* each handleMessages: [at, msg]
    blocksReceived, decodeErrors, pricesReceived, txCount,
    inbox, closed,  \* the subscriber's channel
    round,          \* a handler went round after an error
    arrived         \* messages so far

vars == <<feed, ctx, topics, priceSub, onPriceGossip, cancelled, handler, blocksReceived,
          decodeErrors, pricesReceived, txCount, inbox, closed, round, arrived>>

counts == <<blocksReceived, decodeErrors, pricesReceived, txCount>>
channel == <<inbox, closed>>
subscriptions == <<topics, priceSub, onPriceGossip, cancelled>>

Off == [at |-> "off", msg |-> "own"]

Init ==
    /\ feed = "new" /\ ctx = FALSE
    /\ topics = <<>> /\ priceSub = FALSE /\ onPriceGossip = FALSE /\ cancelled = {}
    /\ handler = [h \in Handler |-> Off]
    /\ blocksReceived = [c \in Chain |-> 0] /\ decodeErrors = 0
    /\ pricesReceived = 0 /\ txCount = 0
    /\ inbox = <<>> /\ closed = FALSE /\ round = FALSE /\ arrived = 0

-----------------------------------------------------------------------------
(* Starting, and subscribing.                                              *)

(* hybrid.Start may fail; the gossip's own Start cannot.                   *)
Start ==
    /\ feed = "new"
    /\ feed' \in {"up", "failed"}
    /\ UNCHANGED <<ctx, subscriptions, handler, counts, channel, round, arrived>>

First(vs) == CHOOSE v \in vs : \A w \in vs : v <= w

(* SubscribeChain: every version is tried, those that can be joined and    *)
(* subscribed to get a goroutine, and the first of them is kept.  A chain  *)
(* that is there already is not tried again.                               *)
SubscribeChain(c) ==
    /\ feed = "up" /\ c \notin DOMAIN topics
    /\ \E vs \in SUBSET Version :
        /\ handler' = [h \in Handler |->
                          IF h \in {<<c, v>> : v \in vs} /\ handler[h].at = "off"
                          THEN [at |-> "waiting", msg |-> "own"] ELSE handler[h]]
        /\ topics' = IF vs = {} THEN topics
                     ELSE [d \in DOMAIN topics \cup {c} |->
                              IF d = c THEN First(vs) ELSE topics[d]]
    /\ UNCHANGED <<feed, ctx, priceSub, onPriceGossip, cancelled, counts, channel, round, arrived>>

SubscribePriceGossip ==
    /\ feed = "up" /\ ~ priceSub
    /\ \/ /\ priceSub' = TRUE
          /\ handler' = [handler EXCEPT ![Price].at = "waiting"]
       \/ UNCHANGED <<priceSub, handler>>           \* Join or Subscribe failed
    /\ UNCHANGED <<feed, ctx, topics, onPriceGossip, cancelled, counts, channel, round, arrived>>

(* The transport sets OnPriceGossip after it has subscribed.               *)
SetOnPriceGossip ==
    /\ priceSub /\ ~ onPriceGossip
    /\ onPriceGossip' = TRUE
    /\ UNCHANGED <<feed, ctx, topics, priceSub, cancelled, handler, counts, channel, round, arrived>>

-----------------------------------------------------------------------------
(* handleMessages and handlePriceMessages.                                 *)

(* Next fails when its subscription or the context is cancelled.           *)
NextFails(h) == ctx \/ h \in cancelled

Receive(h) ==
    /\ handler[h].at = "waiting" /\ ~ NextFails(h) /\ arrived < MaxMessages
    /\ arrived' = arrived + 1
    /\ \E m \in IF h = Price THEN {"own", "rlp"} ELSE Message :
        handler' = [handler EXCEPT ![h] =
                       [at |-> IF m = "own" THEN "waiting" ELSE "decoding", msg |-> m]]
    /\ UNCHANGED <<feed, ctx, subscriptions, counts, channel, round>>

(* After an error a handler ends if the context is cancelled, and goes     *)
(* round if not.                                                           *)
ReceiveFails(h) ==
    /\ handler[h].at = "waiting" /\ NextFails(h)
    /\ handler' = [handler EXCEPT ![h].at = IF ctx THEN "ended" ELSE "waiting"]
    /\ round' = (round \/ ~ ctx)
    /\ UNCHANGED <<feed, ctx, subscriptions, counts, channel, arrived>>

(* decodeBlockGossip: snappy or plain, RLP, then the fixed offsets of SSZ. *)
DecodeBlock(c, v) ==
    /\ handler[<<c, v>>].at = "decoding"
    /\ IF handler[<<c, v>>].msg = "bad"
       THEN /\ decodeErrors' = decodeErrors + 1
            /\ handler' = [handler EXCEPT ![<<c, v>>].at = "waiting"]
            /\ UNCHANGED blocksReceived
       ELSE /\ blocksReceived' = [blocksReceived EXCEPT ![c] = @ + 1]
            /\ handler' = [handler EXCEPT ![<<c, v>>].at = "block"]
            /\ UNCHANGED decodeErrors
    /\ UNCHANGED <<feed, ctx, subscriptions, pricesReceived, txCount, channel, round, arrived>>

HandlePrice ==
    /\ handler[Price].at = "decoding"
    /\ pricesReceived' = pricesReceived + 1
    /\ handler' = [handler EXCEPT ![Price].at = "waiting"]
    /\ UNCHANGED <<feed, ctx, subscriptions, blocksReceived, decodeErrors, txCount, channel,
                   round, arrived>>

-----------------------------------------------------------------------------
(* The feed's handler: the block, and then the hashes of its transactions. *)

(* EventFanOut.Emit: a full channel misses the event; after Close there is *)
(* no subscription left to send to.                                        *)
Emit(e) ==
    inbox' = IF closed \/ Len(inbox) = BufSize THEN inbox ELSE Append(inbox, e)

EmitBlock(c, v) ==
    /\ handler[<<c, v>>].at = "block"
    /\ Emit([type |-> "L2Block", chain |-> c])
    /\ handler' = [handler EXCEPT ![<<c, v>>].at =
                      IF handler[<<c, v>>].msg = "rlp" THEN "hashes" ELSE "waiting"]
    /\ UNCHANGED <<feed, ctx, subscriptions, counts, closed, round, arrived>>

EmitHashes(c, v) ==
    /\ handler[<<c, v>>].at = "hashes"
    /\ txCount' = txCount + 1
    /\ Emit([type |-> "TxHashes", chain |-> c])
    /\ handler' = [handler EXCEPT ![<<c, v>>].at = "waiting"]
    /\ UNCHANGED <<feed, ctx, subscriptions, blocksReceived, decodeErrors, pricesReceived,
                   closed, round, arrived>>

Read ==
    /\ inbox # <<>>
    /\ inbox' = Tail(inbox)
    /\ UNCHANGED <<feed, ctx, subscriptions, handler, counts, closed, round, arrived>>

-----------------------------------------------------------------------------
(* Stopping.                                                               *)

Kept == {<<c, topics[c]>> : c \in DOMAIN topics}

\* Mutant: the subscriptions are cancelled before the context.
StopSubsFirst ==
    \/ /\ feed = "up"
       /\ cancelled' = Kept /\ feed' = "cancelled"
       /\ UNCHANGED ctx
    \/ /\ feed = "cancelled"
       /\ ctx' = TRUE /\ feed' = "gossip stopped"
       /\ UNCHANGED cancelled

(* OpNodeGossip.Stop: the context, then the subscriptions that are kept.   *)
StopGossip ==
    \/ /\ feed = "up"
       /\ ctx' = TRUE /\ feed' = "cancelled"
       /\ UNCHANGED cancelled
    \/ /\ feed = "cancelled"
       /\ cancelled' = Kept /\ feed' = "gossip stopped"
       /\ UNCHANGED ctx

Stop ==
    /\ StopGossip
    /\ UNCHANGED <<topics, priceSub, onPriceGossip, handler, counts, channel, round, arrived>>

(* hybrid.Stop, and fanOut.Close, which closes the channels it forgets.    *)
CloseFanOut ==
    /\ feed = "gossip stopped"
    /\ closed' = TRUE /\ feed' = "stopped"
    /\ UNCHANGED <<ctx, subscriptions, handler, counts, inbox, round, arrived>>

Next ==
    \/ Start \/ SubscribePriceGossip \/ SetOnPriceGossip
    \/ \E c \in Chain : SubscribeChain(c)
    \/ \E h \in Handler : Receive(h) \/ ReceiveFails(h)
    \/ \E c \in Chain, v \in Version : DecodeBlock(c, v) \/ EmitBlock(c, v) \/ EmitHashes(c, v)
    \/ HandlePrice \/ Read \/ Stop \/ CloseFanOut

Spec == Init /\ [][Next]_vars

-----------------------------------------------------------------------------
(* No handler goes round after an error: whatever fails Next, the context  *)
(* has been cancelled by then and the goroutine ends.  A handler whose     *)
(* subscription is cancelled before the context would spin, since every    *)
(* further Next fails at once.                                             *)
ErrorsEndHandlers == ~ round
=============================================================================
