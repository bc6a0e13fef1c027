------------------------------- MODULE MCNode -------------------------------
(***************************************************************************)
(* The node, for TLC: what it keeps of its fork (ForkState, extended), the *)
(* contents it stores and fetches, storage challenges, the transports, the *)
(* feed and its dispatcher, the IPC server, updates and the start of the   *)
(* process.                                                                *)
(* These hold their state apart from each other: a behaviour is one of the *)
(* part that MCInit chooses.                                               *)
(*                                                                         *)
(* The fork has an owner and two other addresses that may be guardians,    *)
(* candidates for the recovery, or both.  Node n1 publishes a root r of    *)
(* two chunks, n2 a manifest m.  Users u1 and u2 may unlock the process.   *)
(***************************************************************************)
EXTENDS ForkState, TLC

CONSTANTS owner, g1, g2, salt0, salt1, price, NoHash, Current, Backup, Temp,
          Part

VARIABLES part,
          store, publishers, announced, providers, fetchers, clock, torn,
          offered, holds, addresses, contributors, snapshot, challenges,
          reporting, rounds,
          peer, wire, sending, wanted, seen, txPool, known, cache, sync,
          handled, lost, signed, cuts,
          transport, libp2p, hybrid, runPeer, monitor, gossip, http, joins,
          ring, ringIdx, hashCount, xorPool, ingested, subs, buffer,
          closedSubs, collecting, gen, list, stopped, caller, watch,
          panicked,
          feed, ctx, topics, priceSub, onPriceGossip, cancelled,
          handleMessages, blocksReceived, decodeErrors, pricesReceived,
          txCount, inbox, inboxClosed, round, arrived,
          listening, handleConn, gone, closedConns, subscribers, loop, out,
          requests, asked, ticks,
          registry, published, updating, checks, downloads, writing,
          failedReleases, binaries, rollback, executable, crashes,
          main, flags, unlocked, id, unifiedID, p2pTransport, multiChain,
          pongEngine, contentProtocol, collapseEnabled, derived, starter,
          content, inflight, told

MCAddress == {owner, g1, g2}
MCConfigs ==
  {[guardians |-> {}, threshold |-> 0,
    timelockEnabled |-> TRUE, timelockDuration |-> 2],
   [guardians |-> {g1, g2}, threshold |-> 2,
    timelockEnabled |-> FALSE, timelockDuration |-> 0],
   [guardians |-> {owner, g1}, threshold |-> 1,
    timelockEnabled |-> TRUE, timelockDuration |-> 1]}

CommandLine(cli, testPasskey, relay, ipc) ==
  [cli |-> cli, testPasskey |-> testPasskey, noP2P |-> FALSE, relay |-> relay,
   ipc |-> ipc, exportKey |-> cli = "u2"]

CommandLines ==
  {CommandLine(None, None, TRUE, TRUE), CommandLine("u1", None, TRUE, FALSE),
   CommandLine("u2", None, TRUE, FALSE), CommandLine(None, "u1", TRUE, FALSE),
   CommandLine(None, None, FALSE, FALSE)}

Contents == INSTANCE Content WITH
  Node <- {"n1", "n2"},
  Children <- [x |-> <<>>, y |-> <<>>, r |-> <<"x", "y">>, m |-> <<>>],
  Files <- [x |-> <<>>, y |-> <<>>, r |-> <<>>, m |-> <<"x">>],
  Published <- [n1 |-> {"r"}, n2 |-> {"m"}], Fetcher <- {"f1"}, TTL <- 1,
  MaxTime <- 1, MaxTorn <- 1, Disk <- {"n1"}

Tracker == INSTANCE StorageTracker WITH
  Peer <- {"p1"}, Root <- {"r1"}, Loaded <- {"r1"}, Account <- {"a1"},
  MaxIssued <- 2, MaxRounds <- 2, announced <- offered

Eth == INSTANCE DevP2P WITH
  Node <- {"n1", "n2"}, Kinds <- {"query"}, Batch <- 2, Keys <- 2,
  MaxTxs <- 2, MaxCuts <- 1, pool <- txPool

Chains == INSTANCE MultiChain WITH
  Chain <- {"c1"}, Peer <- {"p1", "p2"},
  ChainOf <- [p1 |-> "c1", p2 |-> "c1"], MaxJoins <- 3, main <- transport

River == INSTANCE Feed WITH
  Caller <- {"k1"}, Hash <- {"h1", "h2"}, BufSize <- 1, RingSize <- 2,
  MaxEvents <- 3, MaxDispatches <- 2, pool <- xorPool, closed <- closedSubs

Gossiping == INSTANCE Gossip WITH
  Chain <- {"c1"}, Version <- {2, 3}, Price <- price, BufSize <- 1,
  MaxMessages <- 2, handler <- handleMessages, closed <- inboxClosed

Server == INSTANCE Ipc WITH
  Conn <- {"c1", "c2"}, Channel <- {"flow", "arb"}, MaxRequests <- 1,
  MaxTicks <- 1, handler <- handleConn, closed <- closedConns

Updater == INSTANCE Update WITH
  Release <- {"r1", "r2"}, VersionOf <- [r1 |-> 1, r2 |-> 2],
  Supported <- {"r1", "r2"}, Check <- {"k1"}, Download <- {"d1", "d2"},
  MaxManifests <- 2, MaxCrashes <- 1, status <- updating,
  failed <- failedReleases, files <- binaries, running <- executable

Process == INSTANCE App WITH
  Secret <- {"u1", "u2"}, Flags <- CommandLines, Starter <- {"s1", "s2"}

-----------------------------------------------------------------------------
ofFork == vars
ofContent == <<store, publishers, announced, providers, fetchers, clock,
               torn>>
ofTracker == <<offered, holds, addresses, contributors, snapshot, challenges,
               reporting, rounds>>
ofDevp2p == <<peer, wire, sending, wanted, seen, txPool, known, cache, sync,
              handled, lost, signed, cuts>>
ofMultichain == <<transport, libp2p, hybrid, runPeer, monitor, gossip, http,
                  joins>>
ofFeed == <<ring, ringIdx, hashCount, xorPool, ingested, subs, buffer,
            closedSubs, collecting, gen, list, stopped, caller, watch,
            panicked>>
ofGossip == <<feed, ctx, topics, priceSub, onPriceGossip, cancelled,
              handleMessages, blocksReceived, decodeErrors, pricesReceived,
              txCount, inbox, inboxClosed, round, arrived>>
ofIpc == <<listening, handleConn, gone, closedConns, subscribers, loop, out,
           requests, asked, ticks>>
ofUpdate == <<registry, published, updating, checks, downloads, writing,
              failedReleases, binaries, rollback, executable, crashes>>
ofApp == <<main, flags, unlocked, id, unifiedID, p2pTransport, multiChain,
           pongEngine, contentProtocol, collapseEnabled, derived, starter,
           content, inflight, told>>

MCInit ==
  /\ part \in Part
  /\ Init /\ Contents!Init /\ Tracker!Init /\ Eth!Init
  /\ Chains!Init /\ River!Init /\ Gossiping!Init /\ Server!Init
  /\ Updater!Init /\ Process!Init
  /\ part # "fork" => config = CHOOSE c \in Configs : TRUE

(* The parts that do not run.                                              *)
Rest ==
  /\ UNCHANGED part
  /\ part # "fork" => UNCHANGED ofFork
  /\ part # "content" => UNCHANGED ofContent
  /\ part # "tracker" => UNCHANGED ofTracker
  /\ part # "devp2p" => UNCHANGED ofDevp2p
  /\ part # "multichain" => UNCHANGED ofMultichain
  /\ part # "feed" => UNCHANGED ofFeed
  /\ part # "gossip" => UNCHANGED ofGossip
  /\ part # "ipc" => UNCHANGED ofIpc
  /\ part # "update" => UNCHANGED ofUpdate
  /\ part # "app" => UNCHANGED ofApp

MCNext ==
  \/ part = "fork" /\ Next /\ Rest
  \/ part = "content" /\ Contents!Next /\ Rest
  \/ part = "tracker" /\ Tracker!Next /\ Rest
  \/ part = "devp2p" /\ Eth!Next /\ Rest
  \/ part = "multichain" /\ Chains!Next /\ Rest
  \/ part = "feed" /\ River!Next /\ Rest
  \/ part = "gossip" /\ Gossiping!Next /\ Rest
  \/ part = "ipc" /\ Server!Next /\ Rest
  \/ part = "update" /\ Updater!Next /\ Rest
  \/ part = "app" /\ Process!Next /\ Rest

MCvars == <<part, ofFork, ofContent, ofTracker, ofDevp2p, ofMultichain,
            ofFeed, ofGossip, ofIpc, ofUpdate, ofApp>>

MCSpec == MCInit /\ [][MCNext]_MCvars

-----------------------------------------------------------------------------
(* What a request returns for a root is all of what was published under    *)
(* it, unless a crash tore a chunk of it: see Content.                     *)
FetchedIsWhole == Contents!FetchedIsWhole

(* A peer that answered from the content it holds is not failed: see       *)
(* StorageTracker.                                                         *)
HolderIsNotFailed == Tracker!HolderIsNotFailed

(* A hash marked as seen is handled, on its way, or lost with a            *)
(* connection: see DevP2P.                                                 *)
SeenIsHandledOrComing == Eth!SeenIsHandledOrComing

(* Nothing of the transport runs once Stop has returned: see MultiChain.   *)
StoppedIsQuiet == Chains!StoppedIsQuiet

(* The feed gives back what was put into it: the newest hashes, in their   *)
(* order, from the ring of MempoolFlow (river.go), and every subscription  *)
(* a dispatch has taken (dispatcher.go); and no handler of the gossip goes *)
(* on with a subscription that has ended (opnode_gossip.go).  See Feed and *)
(* Gossip.                                                                 *)
FeedGivesBack ==
  /\ River!RecentIsLatest
  /\ River!SubscriptionsReturned
  /\ Gossiping!ErrorsEndHandlers

(* A client without a subscription reads whole frames, in order: see Ipc.  *)
QuietFramesAreWhole == Server!QuietFramesAreWhole

(* A binary is on disk at every moment, and at its own path whenever an    *)
(* update or a roll-back has ended: see Update.                            *)
BinaryNeverLost == Updater!BinaryNeverLost /\ Updater!EndsWithBinaryInPlace

(* The process has one identity, started once, whoever unlocks it: see     *)
(* App.                                                                    *)
OneIdentity == Process!OneIdentity
=============================================================================
