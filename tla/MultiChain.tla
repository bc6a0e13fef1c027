----------------------------- MODULE MultiChain -----------------------------
(***************************************************************************)
(* MultiChainTransport (node/multichain.go) with what it owns: one         *)
(* HybridTransport and its DevP2PNode per L1 chain, the gossip of the L2   *)
(* chains, and the libp2p host they share.  The module is about threads    *)
(* and locks: mct.mu, the wait groups, the stop channels, and the          *)
(* callbacks that startHybridP2P (cmd/main.go) installs, which ask for the *)
(* status of every chain and so take mct.mu again.                         *)
(*                                                                         *)
(* mct.mu is held for writing by the main thread from Start's first line   *)
(* to its last, and likewise in Stop; a Go read-write lock lets no new     *)
(* reader in while a writer waits.  A read lock that is taken and released *)
(* around a map lookup is one step.                                        *)
(***************************************************************************)
EXTENDS Naturals, FiniteSets

CONSTANTS
    Chain,     \* the enabled L1 chains
    Peer,      \* peers of the L1 chains
    ChainOf,   \* the chain a peer is found on
    MaxJoins   \* bound: connections made in a behaviour

VARIABLES
    main,      \* the thread that creates, starts and stops the transport
    libp2p,    \* the shared host: "off", "on" or "stopped"
    hybrid,    \* each HybridTransport: see Hybrids
    runPeer,   \* each runPeer goroutine: see RunPeers
    monitor,   \* monitorLoop
    gossip,    \* the goroutine of the L2 subscriptions
    http,      \* a request for /p2p: GetAllChainStatus
    joins

vars == <<main, libp2p, hybrid, runPeer, monitor, gossip, http, joins>>

(* "closing": stopCh is closed and wg awaited; "server": server.Stop runs. *)
Hybrids == {"none", "new", "running", "failed", "closing", "server", "stopped"}

(* "joining" and "leaving": in OnPeerEvent; "reading": in ReadMsg;         *)
(* "handling": in OnTxReceived.  wg counts the loop from its start until   *)
(* the deferred removePeer has returned.                                   *)
RunPeers == {"none", "joining", "handshake", "reading", "handling", "leaving", "failing"}

Counted(p) == runPeer[p] \in {"reading", "handling", "leaving"}

WriteLocked == main \in {"starting", "stopping", "waiting"}
MayReadLock == ~ WriteLocked /\ main # "locking"
ReadLocked == monitor = "updating" \/ http = "listing"

On(c) == {p \in Peer : ChainOf[p] = c}

Init ==
    /\ main = "new" /\ libp2p = "off" /\ monitor = "off" /\ gossip = "none"
    /\ http = "idle" /\ joins = 0
    /\ hybrid = [c \in Chain |-> "none"]
    /\ runPeer = [p \in Peer |-> "none"]

-----------------------------------------------------------------------------
(* What LibP2PTransport.Start comes to: one bootstrap node answers, or     *)
(* none does.                                                              *)
Bootstrap == {"on", "stopped"}

(* NewMultiChainTransport: the shared host must reach a bootstrap node; a  *)
(* chain or a gossip that cannot be created takes the host down with it.   *)
NewStartsHost ==
    /\ main = "new" /\ libp2p = "off"
    /\ libp2p' \in Bootstrap
    /\ main' = IF libp2p' = "on" THEN main ELSE "failed"
    /\ UNCHANGED <<hybrid, runPeer, monitor, gossip, http, joins>>

NewCreatesChain(c) ==
    /\ main = "new" /\ libp2p = "on" /\ hybrid[c] = "none"
    /\ \/ hybrid' = [hybrid EXCEPT ![c] = "new"] /\ UNCHANGED <<main, libp2p>>
       \/ UNCHANGED hybrid /\ libp2p' = "stopped" /\ main' = "failed"
    /\ UNCHANGED <<runPeer, monitor, gossip, http, joins>>

NewCreatesGossip ==
    /\ main = "new" /\ libp2p = "on" /\ \A c \in Chain : hybrid[c] = "new"
    /\ \/ gossip' = "new" /\ main' = "created" /\ UNCHANGED libp2p
       \/ UNCHANGED gossip /\ libp2p' = "stopped" /\ main' = "failed"
    /\ UNCHANGED <<hybrid, runPeer, monitor, http, joins>>

(* Start, holding the lock: the gossip first, then chain after chain; one  *)
(* that does not start is skipped.                                         *)
StartGossip ==
    /\ main = "created" /\ ~ ReadLocked
    /\ main' = "starting"
    /\ gossip' = "idle"
    /\ UNCHANGED <<libp2p, hybrid, runPeer, monitor, http, joins>>

(* HybridTransport.Start: running is set only when the devp2p server is up.*)
HybridStart == {"running", "failed"}

StartChain(c) ==
    /\ main = "starting" /\ hybrid[c] = "new"
    /\ \E result \in HybridStart : hybrid' = [hybrid EXCEPT ![c] = result]
    /\ UNCHANGED <<main, libp2p, runPeer, monitor, gossip, http, joins>>

StartReturns ==
    /\ main = "starting" /\ \A c \in Chain : hybrid[c] # "new"
    /\ main' = "running"
    /\ monitor' = "select"
    /\ UNCHANGED <<libp2p, hybrid, runPeer, gossip, http, joins>>

-----------------------------------------------------------------------------
(* runPeer: the peer enters the map and OnPeerConnect is called.           *)
PeerJoins(p) ==
    /\ runPeer[p] = "none" /\ hybrid[ChainOf[p]] \in {"running", "closing"} /\ joins < MaxJoins
    /\ joins' = joins + 1
    /\ runPeer' = [runPeer EXCEPT ![p] = "joining"]
    /\ UNCHANGED <<main, libp2p, hybrid, monitor, gossip, http>>

(* OnPeerEvent, which both peer handlers call, sums the peers over         *)
(* GetChainStatus of every chain: it cannot return while the lock is not   *)
(* to be had.                                                              *)
OnPeerEventReturns == MayReadLock

(* OnTxReceived does the same.                                             *)
OnTxReceivedReturns == MayReadLock

ConnectReported(p) ==
    /\ runPeer[p] = "joining" /\ OnPeerEventReturns
    /\ runPeer' = [runPeer EXCEPT ![p] = "handshake"]
    /\ UNCHANGED <<main, libp2p, hybrid, monitor, gossip, http, joins>>

Handshake(p) ==
    /\ runPeer[p] = "handshake"
    /\ \E s \in {"reading", "failing"} : runPeer' = [runPeer EXCEPT ![p] = s]
    /\ UNCHANGED <<main, libp2p, hybrid, monitor, gossip, http, joins>>

(* ReadMsg returns a message of transactions.                              *)
MessageArrives(p) ==
    /\ runPeer[p] = "reading" /\ hybrid[ChainOf[p]] # "server"
    /\ runPeer' = [runPeer EXCEPT ![p] = "handling"]
    /\ UNCHANGED <<main, libp2p, hybrid, monitor, gossip, http, joins>>

(* The handler's end, and the next turn of the loop, which looks at stopCh.*)
MessageHandled(p) ==
    /\ runPeer[p] = "handling" /\ OnTxReceivedReturns
    /\ runPeer' = [runPeer EXCEPT ![p] =
                     IF hybrid[ChainOf[p]] = "running" THEN "reading" ELSE "leaving"]
    /\ UNCHANGED <<main, libp2p, hybrid, monitor, gossip, http, joins>>

(* ReadMsg fails: the peer went away, or the server is being stopped.      *)
ReadFails(p) ==
    /\ runPeer[p] = "reading"
    /\ runPeer' = [runPeer EXCEPT ![p] = "leaving"]
    /\ UNCHANGED <<main, libp2p, hybrid, monitor, gossip, http, joins>>

(* removePeer, with the OnPeerEvent of the drop.                           *)
DropReported(p) ==
    /\ runPeer[p] \in {"leaving", "failing"} /\ OnPeerEventReturns
    /\ runPeer' = [runPeer EXCEPT ![p] = "none"]
    /\ UNCHANGED <<main, libp2p, hybrid, monitor, gossip, http, joins>>

(* handleMessages and createL2BlockHandler for a block of an L2 chain.     *)
BlockArrives ==
    /\ gossip = "idle"
    /\ gossip' = "handling"
    /\ UNCHANGED <<main, libp2p, hybrid, runPeer, monitor, http, joins>>

BlockHandled ==
    /\ gossip = "handling" /\ OnTxReceivedReturns
    /\ gossip' = IF libp2p = "on" THEN "idle" ELSE "done"
    /\ UNCHANGED <<main, libp2p, hybrid, runPeer, monitor, http, joins>>

(* monitorLoop: the select may take the ticker though stopCh is closed.    *)
MonitorTicks ==
    /\ monitor = "select"
    /\ monitor' = "ticked"
    /\ UNCHANGED <<main, libp2p, hybrid, runPeer, gossip, http, joins>>

MonitorUpdates ==
    /\ \/ monitor = "ticked" /\ MayReadLock /\ monitor' = "updating"
       \/ monitor = "updating" /\ monitor' = "select"
    /\ UNCHANGED <<main, libp2p, hybrid, runPeer, gossip, http, joins>>

MonitorStops ==
    /\ monitor = "select" /\ main \in {"stopping", "waiting"}
    /\ monitor' = "done"
    /\ UNCHANGED <<main, libp2p, hybrid, runPeer, gossip, http, joins>>

(* GetAllChainStatus holds the read lock while GetChainStatus takes it     *)
(* again for every chain.                                                  *)
ListChains ==
    /\ \/ http = "idle" /\ main \in {"running", "locking", "stopped"} /\ MayReadLock
          /\ http' = "listing"
       \/ http = "listing" /\ MayReadLock /\ http' = "idle"
    /\ UNCHANGED <<main, libp2p, hybrid, runPeer, monitor, gossip, joins>>

-----------------------------------------------------------------------------
(* Ctrl+C: main calls Stop, which waits for the lock.                      *)
Interrupt ==
    /\ main = "running"
    /\ main' = "locking"
    /\ UNCHANGED <<libp2p, hybrid, runPeer, monitor, gossip, http, joins>>

StopLocks ==
    /\ main = "locking" /\ ~ ReadLocked
    /\ main' = "stopping"
    /\ UNCHANGED <<libp2p, hybrid, runPeer, monitor, gossip, http, joins>>

(* HybridTransport.Stop and DevP2PNode.Stop: close the channel, wait for   *)
(* the loops, then stop the server, which waits for every runPeer.         *)
StopChain(c) ==
    /\ main = "stopping" /\ hybrid[c] = "running"
    /\ \A d \in Chain : hybrid[d] \notin {"closing", "server"}
    /\ hybrid' = [hybrid EXCEPT ![c] = "closing"]
    /\ UNCHANGED <<main, libp2p, runPeer, monitor, gossip, http, joins>>

LoopsEnded(c) == \A p \in On(c) : ~ Counted(p)

StopServer(c) ==
    /\ hybrid[c] = "closing" /\ LoopsEnded(c)
    /\ hybrid' = [hybrid EXCEPT ![c] = "server"]
    /\ UNCHANGED <<main, libp2p, runPeer, monitor, gossip, http, joins>>

PeersGone(c) == \A p \in On(c) : runPeer[p] = "none"

ServerStopped(c) ==
    /\ hybrid[c] = "server" /\ PeersGone(c)
    /\ hybrid' = [hybrid EXCEPT ![c] = "stopped"]
    /\ UNCHANGED <<main, libp2p, runPeer, monitor, gossip, http, joins>>

(* Then the gossip, whose goroutines nobody waits for, and the host.       *)
StopHost ==
    /\ main = "stopping" /\ \A c \in Chain : hybrid[c] \in {"failed", "stopped"}
    /\ main' = "waiting"
    /\ libp2p' = "stopped"
    /\ gossip' = IF gossip = "idle" THEN "done" ELSE gossip
    /\ UNCHANGED <<hybrid, runPeer, monitor, http, joins>>

(* Mutant: Stop does not wait for the monitor.                             *)
StopReturnsAtOnce ==
    /\ main = "waiting"
    /\ main' = "stopped"
    /\ UNCHANGED <<libp2p, hybrid, runPeer, monitor, gossip, http, joins>>

StopReturns ==
    /\ main = "waiting" /\ monitor = "done"
    /\ main' = "stopped"
    /\ UNCHANGED <<libp2p, hybrid, runPeer, monitor, gossip, http, joins>>

Next ==
    \/ NewStartsHost \/ NewCreatesGossip \/ StartGossip \/ StartReturns
    \/ \E c \in Chain : \/ NewCreatesChain(c) \/ StartChain(c)
                        \/ StopChain(c) \/ StopServer(c) \/ ServerStopped(c)
    \/ \E p \in Peer : \/ PeerJoins(p) \/ ConnectReported(p) \/ Handshake(p)
                       \/ MessageArrives(p) \/ MessageHandled(p)
                       \/ ReadFails(p) \/ DropReported(p)
    \/ BlockArrives \/ BlockHandled
    \/ MonitorTicks \/ MonitorUpdates \/ MonitorStops
    \/ ListChains
    \/ Interrupt \/ StopLocks \/ StopHost \/ StopReturns

Spec == Init /\ [][Next]_vars

-----------------------------------------------------------------------------
(* When Stop has returned, nothing of the transport runs but the handler   *)
(* of an L2 block that had begun: no runPeer is left to call back into the *)
(* application, and the monitor has ended (Stop waits for both).           *)
StoppedIsQuiet ==
    main = "stopped" =>
        /\ \A p \in Peer : runPeer[p] = "none"
        /\ monitor = "done" /\ libp2p = "stopped"
=============================================================================
