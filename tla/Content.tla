------------------------------ MODULE Content ------------------------------
(***************************************************************************)
(* The content package (store, DAG, providers, protocol, websites), the    *)
(* HTTP handlers of cmd/main.go on top of it, on several nodes.            *)
(*                                                                         *)
(* A content ID is the hash of a node of the DAG and stands for it: ID is  *)
(* the set of those nodes, Children the leaves of an internal one and      *)
(* Files the contents that a manifest names.  DAGBuilder.Add makes two     *)
(* levels at most.  A stored node is how much of its encoding there is: 0  *)
(* when it does not decode, one more than the number of children (of an    *)
(* internal node) that decode, Whole(id) when nothing is missing.  Only a  *)
(* crash in Flush leaves less than Whole(id) in a file; no reader compares *)
(* what it reads, from a file or from a peer, with the hash it is under.   *)
(***************************************************************************)
EXTENDS Integers, Sequences, FiniteSets, SequencesExt

CONSTANTS Node,       \* peers that run this code
          Children,   \* leaves of each ID; <<>>: the ID is a leaf
          Files,      \* contents a manifest names; <<>>: not a manifest
          Published,  \* what the users of each node publish, roots and manifests
          Fetcher,    \* requests served at the same time
          TTL,        \* how long an announcement is good for
          MaxTime,    \* bound: the clock
          MaxTorn,    \* bound: chunks torn by a crash
          Disk,       \* nodes whose store has a directory
          None        \* absent

ID == DOMAIN Children
Root == UNION {Published[n] : n \in Node}

VARIABLES store,      \* Store.chunks of each node
          publishers, \* the IDs an upload has still to Put, of each node
          announced,  \* nodes that have seen the announcement of a root
          providers,  \* ProviderRegistry.providers of each node
          fetchers,   \* FetchContent and GetFile calls
          clock,
          torn        \* chunks of which a crash left the front only

vars == <<store, publishers, announced, providers, fetchers, clock, torn>>

Internal(id) == Children[id] # <<>>
Whole(id) == IF Internal(id) THEN Len(Children[id]) + 1 ELSE 2

Idle == [pc |-> "idle"]

Init ==
  /\ store = [n \in Node |-> [id \in ID |-> None]]
  /\ publishers = [n \in Node |-> <<>>]
  /\ announced = [id \in ID |-> {}]
  /\ providers = [n \in Node |-> [id \in ID |-> <<>>]]
  /\ fetchers = [f \in Fetcher |-> Idle]
  /\ clock = 0
  /\ torn = {}

Has(n, id) == store[n][id] # None
Put(n, id, data) == [store EXCEPT ![n][id] = data]

-----------------------------------------------------------------------------
(* DAGBuilder                                                              *)

(* The children that decodeNode finds.                                     *)
Decoded(n, id) == SubSeq(Children[id], 1, store[n][id] - 1)

(* Mutant: a child that is missing is left out of the result.              *)
GetWhatIsThere(n, root) ==
  IF ~Has(n, root) \/ store[n][root] = 0 THEN None
  ELSE IF ~Internal(root) THEN <<<<root, store[n][root]>>>>
  ELSE LET there == SelectSeq(Decoded(n, root), LAMBDA c : Has(n, c))
       IN  [i \in DOMAIN there |-> <<there[i], store[n][there[i]]>>]

(* What Get returns: the leaves and how much of each there is.             *)
Get(n, root) ==
  IF ~Has(n, root) \/ store[n][root] = 0 THEN None
  ELSE IF ~Internal(root) THEN <<<<root, store[n][root]>>>>
  ELSE LET found == Decoded(n, root)
       IN  IF \E i \in DOMAIN found : ~Has(n, found[i]) \/ store[n][found[i]] = 0
           THEN None
           ELSE [i \in DOMAIN found |-> <<found[i], store[n][found[i]]>>]

(* MissingChunks; None when the node does not decode.                      *)
MissingChunks(n, root) ==
  CASE ~Has(n, root) -> <<root>>
    [] Has(n, root) /\ store[n][root] = 0 -> None
    [] Has(n, root) /\ store[n][root] # 0 ->
         IF Internal(root) THEN SelectSeq(Decoded(n, root), LAMBDA c : ~Has(n, c))
                           ELSE <<>>

(* Add puts the leaves and then the node above them.                       *)
Parts(root) == Append(Children[root], root)

(* PublishTarGz adds every file and then the manifest.                     *)
Uploads(root) == FlattenSeq([i \in DOMAIN Files[root] |-> Parts(Files[root][i])])
                   \o Parts(root)

BeginPublish(n, root) ==
  /\ publishers[n] = <<>>
  /\ root \in Published[n]
  /\ announced[root] = {}
  /\ publishers' = [publishers EXCEPT ![n] = Uploads(root)]
  /\ UNCHANGED <<store, announced, providers, fetchers, clock, torn>>

(* The last Put is followed by Announce, whose error is ignored.           *)
PublisherPuts(n) ==
  LET id == Head(publishers[n])
  IN  /\ publishers[n] # <<>>
      /\ store' = Put(n, id, Whole(id))
      /\ publishers' = [publishers EXCEPT ![n] = Tail(@)]
      /\ announced' = IF Len(publishers[n]) = 1
                      THEN [announced EXCEPT ![id] = @ \cup {n}] ELSE announced
      /\ UNCHANGED <<providers, fetchers, clock, torn>>

(* An archive that turns out to be bad: what was Put stays.                *)
PublisherFails(n) ==
  /\ publishers[n] # <<>>
  /\ publishers' = [publishers EXCEPT ![n] = <<>>]
  /\ UNCHANGED <<store, announced, providers, fetchers, clock, torn>>

-----------------------------------------------------------------------------
(* ProviderRegistry                                                        *)

Fresh(records) == SelectSeq(records, LAMBDA r : clock - r.at < TTL)

Added(records, peer) ==
  IF \E i \in DOMAIN records : records[i].peer = peer
  THEN [i \in DOMAIN records |->
          IF records[i].peer = peer THEN [records[i] EXCEPT !.at = clock] ELSE records[i]]
  ELSE Append(records, [peer |-> peer, at |-> clock])

(* Gossip hands an announcement on from node to node; the provider that is *)
(* recorded is the one it was received from.                               *)
ListenAnnouncements(n, root, from) ==
  /\ from \in announced[root]
  /\ n \notin announced[root]
  /\ announced' = [announced EXCEPT ![root] = @ \cup {n}]
  /\ providers' = [providers EXCEPT ![n][root] = Added(@, from)]
  /\ UNCHANGED <<store, publishers, fetchers, clock, torn>>

Prune(n) ==
  /\ providers' = [providers EXCEPT ![n] = [id \in ID |-> Fresh(@[id])]]
  /\ UNCHANGED <<store, publishers, announced, fetchers, clock, torn>>

-----------------------------------------------------------------------------
(* FetchContent.  from is the snapshot of the providers, next the one to   *)
(* ask, need the chunks still to be asked for.                             *)

Asking(f, need) == [fetchers[f] EXCEPT !.pc = "ask", !.need = need, !.next = 1]
Done(n, root, data) == [pc |-> "done", node |-> n, root |-> root, data |-> data]

BeginFetch(f, n, root) ==
  LET known == Fresh(providers[n][root])
  IN  /\ fetchers[f].pc \in {"idle", "done"}
      /\ fetchers' = [fetchers EXCEPT ![f] =
           IF Get(n, root) # None \/ known = <<>> THEN Done(n, root, Get(n, root))
           ELSE [pc |-> IF Has(n, root) THEN "missing" ELSE "root", node |-> n,
                 root |-> root, from |-> known, next |-> 1, need |-> <<>>]]
      /\ UNCHANGED <<store, publishers, announced, providers, clock, torn>>

(* RequestChunk and, at the peer, handleStream: the peer answers with what *)
(* it has, or has nothing, or the stream fails.                            *)
Requested(peer, id, answered) == IF answered THEN store[peer][id] ELSE None

(* The root is asked of every provider until one has it; that none has is  *)
(* found out by MissingChunks.                                             *)
FetchRoot(f, answered) ==
  LET me == fetchers[f]
      got == Requested(me.from[me.next].peer, me.root, answered)
  IN  /\ me.pc = "root"
      /\ store' = IF got = None THEN store ELSE Put(me.node, me.root, got)
      /\ fetchers' = [fetchers EXCEPT ![f] =
                        IF got = None /\ me.next < Len(me.from)
                        THEN [me EXCEPT !.next = @ + 1] ELSE [me EXCEPT !.pc = "missing"]]
      /\ UNCHANGED <<publishers, announced, providers, clock, torn>>

FindMissing(f) ==
  LET me == fetchers[f]
      missing == MissingChunks(me.node, me.root)
  IN  /\ me.pc = "missing"
      /\ fetchers' = [fetchers EXCEPT ![f] =
                        IF missing = None THEN Done(me.node, me.root, None)
                                          ELSE Asking(f, missing)]
      /\ UNCHANGED <<store, publishers, announced, providers, clock, torn>>

FetchChunk(f, answered) ==
  LET me == fetchers[f]
      got == Requested(me.from[me.next].peer, Head(me.need), answered)
  IN  /\ me.pc = "ask"
      /\ me.need # <<>>
      /\ store' = IF got = None THEN store ELSE Put(me.node, Head(me.need), got)
      /\ fetchers' = [fetchers EXCEPT ![f] =
                        IF got # None THEN Asking(f, Tail(me.need))
                        ELSE IF me.next < Len(me.from) THEN [me EXCEPT !.next = @ + 1]
                        ELSE Done(me.node, me.root, None)]
      /\ UNCHANGED <<publishers, announced, providers, clock, torn>>

FinishFetch(f) ==
  LET me == fetchers[f]
  IN  /\ me.pc = "ask"
      /\ me.need = <<>>
      /\ fetchers' = [fetchers EXCEPT ![f] = Done(me.node, me.root, Get(me.node, me.root))]
      /\ UNCHANGED <<store, publishers, announced, providers, clock, torn>>

(* GetFile, of /site/ and of a pinned root: the manifest, then the file.  *)
(* Nothing is asked of a peer.                                             *)
GetFile(f, n, manifest, i) ==
  /\ fetchers[f].pc \in {"idle", "done"}
  /\ i \in DOMAIN Files[manifest]
  /\ Get(n, manifest) = <<<<manifest, Whole(manifest)>>>>
  /\ fetchers' = [fetchers EXCEPT ![f] =
                    Done(n, Files[manifest][i], Get(n, Files[manifest][i]))]
  /\ UNCHANGED <<store, publishers, announced, providers, clock, torn>>

-----------------------------------------------------------------------------
Tick ==
  /\ clock < MaxTime
  /\ clock' = clock + 1
  /\ UNCHANGED <<store, publishers, announced, providers, fetchers, torn>>

(* What Load finds: the chunks written, and the front of one.              *)
Loaded(n, written, id, front) ==
  [other \in ID |-> IF other = id THEN front
                    ELSE IF other \in written THEN store[n][other] ELSE None]

(* Flush may have been called at any time and ended by an error, so that   *)
(* any of the chunks may be in files.  A crash while it writes leaves the  *)
(* front of one file.  The node starts again with what Load finds; what    *)
(* its callers waited for is lost.                                         *)
CrashInFlush(n, written, id, front) ==
  /\ n \in Disk
  /\ Cardinality(torn) < MaxTorn
  /\ Has(n, id)
  /\ front < store[n][id]
  /\ written \subseteq {other \in ID \ {id} : Has(n, other)}
  /\ store' = [store EXCEPT ![n] = Loaded(n, written, id, front)]
  /\ publishers' = [publishers EXCEPT ![n] = <<>>]
  /\ providers' = [providers EXCEPT ![n] = [r \in ID |-> <<>>]]
  /\ fetchers' = [f \in Fetcher |-> IF fetchers[f].pc # "idle" /\ fetchers[f].node = n
                                     THEN Idle ELSE fetchers[f]]
  /\ torn' = torn \cup {id}
  /\ UNCHANGED <<announced, clock>>

Next ==
  \/ Tick
  \/ \E n \in Node :
       \/ PublisherPuts(n) \/ PublisherFails(n) \/ Prune(n)
       \/ \E root \in Root : BeginPublish(n, root)
       \/ \E root \in ID, from \in Node : ListenAnnouncements(n, root, from)
       \/ \E id \in ID : \E written \in SUBSET ID, front \in 0 .. Whole(id) - 1 :
            CrashInFlush(n, written, id, front)
  \/ \E f \in Fetcher :
       \/ FindMissing(f) \/ FinishFetch(f)
       \/ \E answered \in BOOLEAN : FetchRoot(f, answered) \/ FetchChunk(f, answered)
       \/ \E n \in Node, root \in Root :
            \/ BeginFetch(f, n, root)
            \/ \E i \in DOMAIN Files[root] : GetFile(f, n, root, i)

Spec == Init /\ [][Next]_vars

-----------------------------------------------------------------------------
Contents(root) == IF Internal(root) THEN Children[root] ELSE <<root>>

(* What a request returns for a root is all of what was published under    *)
(* it, however uploads, other requests, expiring providers and failing     *)
(* peers interleave with its steps; the exception is a content of which a  *)
(* crash tore a chunk, on whatever node.                                   *)
FetchedIsWhole ==
  \A f \in Fetcher :
    LET me == fetchers[f]
    IN  me.pc = "done" /\ me.data # None =>
          \/ me.data = [i \in DOMAIN Contents(me.root) |-> <<Contents(me.root)[i], 2>>]
          \/ Range(Parts(me.root)) \cap torn # {}
=============================================================================
