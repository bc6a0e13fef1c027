-------------------------------- MODULE App ---------------------------------
(***************************************************************************)
(* The process: main (cmd/main.go) from its flags to its shutdown, the     *)
(* three ways to unlock the identity (the terminal, a request over HTTP or *)
(* IPC, the -test-passkey flag), the startP2P goroutine that an unlock     *)
(* starts, the goroutine that brings the content protocol up, and the      *)
(* requests whose answer depends on how far all of that has come.          *)
(*                                                                         *)
(* app.mu is a read-write lock.  A request that locks it around its whole  *)
(* work, or around the fields it copies, is one step; main holds the read  *)
(* lock during the whole shutdown, so no writer gets in from then on.      *)
(* What an identity derives to is UnifiedIdentity's subject: here the      *)
(* derivation gives the identity of the secret, or an error.               *)
(***************************************************************************)
EXTENDS Naturals, FiniteSets

CONSTANTS
    Secret,     \* what users type
    Flags,      \* the command lines: see FlagSet
    Starter,    \* startP2P goroutines
    None

VARIABLES
    main,       \* the main goroutine
    flags,      \* the command line it was started with
    unlocked, id, unifiedID,                        \* fields of App
    p2pTransport, multiChain,
    pongEngine, contentProtocol,
    collapseEnabled,                                \* of the backend
    derived,    \* what -test-passkey has derived and not yet installed
    starter,    \* each startP2P goroutine: [at, id]
    content,    \* the goroutine that waits three seconds
    inflight,   \* a request that generates: [fork], its answer's fork_id
    told        \* history of the answers: the identities they named, whether one
                \* said locked after that, whether one went out under another fork

vars == <<main, flags, unlocked, id, unifiedID, p2pTransport, multiChain,
          pongEngine, contentProtocol, collapseEnabled, derived, starter, content,
          inflight, told>>

identity == <<unlocked, id, unifiedID>>
network == <<p2pTransport, multiChain, collapseEnabled>>
requests == <<pongEngine, inflight, told>>

FlagSet == [cli : {None} \cup Secret, testPasskey : {None} \cup Secret,
            noP2P : BOOLEAN, relay : BOOLEAN, ipc : BOOLEAN, exportKey : BOOLEAN]

Init ==
    /\ main = "flags" /\ flags = None
    /\ unlocked = FALSE /\ id = None /\ unifiedID = None
    /\ p2pTransport = None /\ multiChain = None
    /\ pongEngine = "none" /\ contentProtocol = "none"
    /\ collapseEnabled = FALSE /\ derived = None
    /\ starter = [s \in Starter |-> [at |-> "none", id |-> None]]
    /\ content = "none" /\ inflight = None
    /\ told = [ids |-> {}, relocked |-> FALSE, split |-> FALSE]

-----------------------------------------------------------------------------
(* Unlocking.                                                              *)

(* NewUnifiedIdentity: the identity of the secret, or an error.            *)
Derivations(secret) == {secret, None}

Install(u) ==
    /\ unifiedID' = u /\ id' = u /\ unlocked' = TRUE

(* go app.startP2P: a new goroutine.                                       *)
GoStartP2P ==
    \E s \in Starter :
        /\ starter[s].at = "none"
        /\ starter' = [starter EXCEPT ![s] = [at |-> "spawned", id |-> None]]

MaybeStartP2P == IF flags.noP2P THEN UNCHANGED starter ELSE GoStartP2P

(* main reads its flags; with -cli it asks for the secret on the terminal  *)
(* and derives before anything is served; an error there is fatal, and     *)
(* -export-key ends there.                                                 *)
ParseFlags ==
    /\ main = "flags"
    /\ flags' \in Flags
    /\ main' = IF flags'.cli = None THEN "setup" ELSE "cli"
    /\ UNCHANGED <<identity, network, requests, contentProtocol, derived, starter, content>>

DeriveOnTerminal ==
    /\ main = "cli"
    /\ \E u \in Derivations(flags.cli) :
        IF u = None
        THEN main' = "exited" /\ UNCHANGED identity
        ELSE main' = (IF flags.exportKey THEN "exited" ELSE "setup") /\ Install(u)
    /\ UNCHANGED <<flags, network, requests, contentProtocol, derived, starter, content>>

(* The handlers are registered and the content goroutine starts to sleep.  *)
Setup ==
    /\ main = "setup"
    /\ content' = "sleeping"
    /\ main' = "check"
    /\ UNCHANGED <<flags, identity, network, requests, contentProtocol, derived, starter>>

\* Mutant: the servers listen before main looks at unlocked.
StartAfterListening ==
    /\ main \in {"check", "listening"}
    /\ IF main = "check" THEN UNCHANGED starter
       ELSE IF unlocked THEN MaybeStartP2P ELSE UNCHANGED starter
    /\ main' = IF main = "check" THEN "listening" ELSE "serving"
    /\ UNCHANGED <<flags, identity, network, requests, contentProtocol, derived, content>>

(* An identity that is already there starts P2P, and only then do the HTTP *)
(* and the IPC server listen.                                              *)
StartUnlocked ==
    /\ main = "check"
    /\ IF unlocked THEN MaybeStartP2P ELSE UNCHANGED starter
    /\ main' = "serving"
    /\ UNCHANGED <<flags, identity, network, requests, contentProtocol, derived, content>>

Serving == main \notin {"flags", "cli", "setup", "check", "stopping", "exited", "crashed"}

(* /auth/unlock and the IPC method of the same name: app.mu is held from   *)
(* the look at unlocked to the answer, the derivation included.            *)
Unlock(secret, viaIpc) ==
    /\ Serving /\ (viaIpc => flags.ipc)
    /\ ~ unlocked
    /\ \E u \in Derivations(secret) :
        /\ u # None
        /\ Install(u) /\ MaybeStartP2P
    /\ UNCHANGED <<main, flags, network, requests, contentProtocol, derived, content>>

(* -test-passkey: main looks at unlocked without the lock, derives, and    *)
(* then installs under the lock without a second look.                     *)
TestDerives ==
    /\ main = "serving"
    /\ IF flags.testPasskey # None /\ ~ unlocked
       THEN derived' \in Derivations(flags.testPasskey)
       ELSE UNCHANGED derived
    /\ main' = IF derived' # None THEN "testing" ELSE "waiting"
    /\ UNCHANGED <<flags, identity, network, requests, contentProtocol, starter, content>>

TestInstalls ==
    /\ main = "testing"
    /\ Install(derived) /\ MaybeStartP2P
    /\ main' = "waiting"
    /\ UNCHANGED <<flags, network, requests, contentProtocol, derived, content>>

-----------------------------------------------------------------------------
(* startP2P and startHybridP2P.                                            *)

Running == main \notin {"stopping", "exited", "crashed"}
At(s, at) == starter[s].at = at /\ main \notin {"exited", "crashed"}
MoveTo(s, at) == starter' = [starter EXCEPT ![s].at = at]
KeepStart == UNCHANGED <<main, flags, identity, requests, contentProtocol, derived, content>>

StartReadsIdentity(s) ==
    /\ At(s, "spawned")
    /\ starter' = [starter EXCEPT ![s] =
                       [at |-> IF flags.relay THEN "hybrid" ELSE "direct", id |-> id]]
    /\ KeepStart /\ UNCHANGED network

(* -relay=false: one P2PTransport, which may fail to be made or to start.  *)
DirectStarts(s) ==
    /\ At(s, "direct")
    /\ \/ MoveTo(s, "ended") /\ UNCHANGED p2pTransport
       \/ Running /\ MoveTo(s, "collapse") /\ p2pTransport' = starter[s].id
    /\ KeepStart
    /\ UNCHANGED <<multiChain, collapseEnabled>>

(* The default: a MultiChainTransport, which may fail to be made or to     *)
(* start.  app.p2pTransport is not assigned on this path.                  *)
HybridStarts(s) ==
    /\ At(s, "hybrid")
    /\ \/ MoveTo(s, "ended") /\ UNCHANGED multiChain
       \/ Running /\ MoveTo(s, "collapse") /\ multiChain' = starter[s].id
    /\ KeepStart
    /\ UNCHANGED <<p2pTransport, collapseEnabled>>

EnableCollapseCompute(s) ==
    /\ At(s, "collapse")
    /\ collapseEnabled' = TRUE
    /\ MoveTo(s, IF flags.relay THEN "detector" ELSE "ended")
    /\ KeepStart
    /\ UNCHANGED <<p2pTransport, multiChain>>

(* The goroutine goes into the multi-hop detector's Start, which does not  *)
(* return (MultiHop): app.arbDetector, the flow orchestrator and what      *)
(* startHybridP2P does after them are never reached.                       *)
DetectorStarts(s) ==
    /\ At(s, "detector")
    /\ MoveTo(s, "in detector")
    /\ KeepStart /\ UNCHANGED network

(* The content goroutine looks for the network once, when it wakes up.     *)
ContentWakes ==
    /\ content = "sleeping" /\ main \notin {"exited", "crashed"}
    /\ content' = "ended"
    /\ IF multiChain = None THEN UNCHANGED contentProtocol
       ELSE contentProtocol' \in {"gossip", "local"}
    /\ UNCHANGED <<main, flags, identity, network, requests, derived, starter>>

-----------------------------------------------------------------------------
(* Requests.                                                               *)

(* The requests that only read: what they tell of the identity.            *)
Reads == UNCHANGED <<main, flags, identity, network, pongEngine, contentProtocol,
                     derived, starter, content>>

Tells(x) ==
    told' = IF x = None THEN [told EXCEPT !.relocked = @ \/ told.ids # {}]
            ELSE [told EXCEPT !.ids = @ \union {x}]

(* /broadcast copies the two fields under the lock and sends under the     *)
(* identity.  It refuses when either is missing, always as "not unlocked", *)
(* although relay mode never sets p2pTransport: that is no word about the  *)
(* identity.                                                               *)
Broadcast ==
    /\ Serving
    /\ IF p2pTransport = None THEN UNCHANGED told ELSE Tells(id)
    /\ Reads /\ UNCHANGED inflight

(* /auth/status answers with the flag alone, ...                           *)
AuthStatus(viaIpc) ==
    /\ Serving /\ (viaIpc => flags.ipc)
    /\ IF unlocked THEN UNCHANGED told ELSE Tells(None)
    /\ Reads /\ UNCHANGED inflight

(* /health with the identity's fork, if there is one, and over IPC with    *)
(* the flag as well, ...                                                   *)
Health(viaIpc) ==
    /\ Serving /\ (viaIpc => flags.ipc)
    /\ Tells(IF viaIpc /\ ~ unlocked THEN None ELSE id)
    /\ Reads /\ UNCHANGED inflight

(* /identity refuses without one.                                          *)
Identity ==
    /\ Serving
    /\ Tells(id)
    /\ Reads /\ UNCHANGED inflight

(* /hash generates and then looks up the fork; the network that computes   *)
(* the hashes may not have been enabled.                                   *)
HashRequest ==
    /\ Serving
    /\ IF id = None THEN UNCHANGED told ELSE Tells(id)
    /\ Reads /\ UNCHANGED inflight

(* /generate, and /collapse over HTTP and IPC once the backend can: the    *)
(* text is made first (Backend), then the fork for the answer is read, ... *)
Generate ==
    /\ Serving
    /\ inflight = None
    /\ inflight' = [fork |-> id]
    /\ Reads /\ UNCHANGED told

Collapse(viaIpc) ==
    /\ Serving /\ (viaIpc => flags.ipc)
    /\ collapseEnabled
    /\ inflight = None
    /\ inflight' = [fork |-> id]
    /\ Reads /\ UNCHANGED told

(* ... and the transport and the identity to broadcast with after that.    *)
GenerateAnswers ==
    /\ Serving
    /\ inflight # None
    /\ inflight' = None
    /\ \E broadcast \in BOOLEAN :
         told' = [told EXCEPT
             !.ids = IF inflight.fork = None THEN @ ELSE @ \union {inflight.fork},
             !.split = \/ @
                       \/ /\ broadcast /\ p2pTransport # None /\ id # None
                          /\ inflight.fork \notin {None, id}]
    /\ Reads

(* pong/start: without a network GetFlowCompute is called on nil.  The     *)
(* HTTP server recovers from the panic; the goroutine of an IPC connection *)
(* does not, and takes the process down.                                   *)
PongStart(viaIpc) ==
    /\ Serving /\ (viaIpc => flags.ipc)
    /\ IF multiChain # None
       THEN pongEngine' = "running" /\ UNCHANGED main
       ELSE /\ pongEngine' = IF pongEngine = "none" THEN "none" ELSE "stopped"
            /\ main' = IF viaIpc THEN "crashed" ELSE main
    /\ UNCHANGED <<flags, identity, network, inflight, told, contentProtocol, derived,
                   starter, content>>

(* pong/stop: the HTTP handler also forgets the engine.                    *)
PongStop(viaIpc) ==
    /\ Serving /\ (viaIpc => flags.ipc) /\ pongEngine # "none"
    /\ pongEngine' = IF viaIpc THEN "stopped" ELSE "none"
    /\ UNCHANGED <<main, flags, identity, network, inflight, told, contentProtocol,
                   derived, starter, content>>

(* Ctrl+C: main takes the read lock, stops what is there and returns.      *)
Interrupt ==
    /\ main = "waiting"
    /\ main' = "stopping"
    /\ UNCHANGED <<flags, identity, network, requests, contentProtocol, derived, starter, content>>

Shutdown ==
    /\ main = "stopping"
    /\ pongEngine' = IF pongEngine = "running" THEN "stopped" ELSE pongEngine
    /\ main' = "exited"
    /\ UNCHANGED <<flags, identity, network, inflight, told, contentProtocol, derived,
                   starter, content>>

Next ==
    \/ ParseFlags \/ DeriveOnTerminal \/ Setup \/ StartUnlocked
    \/ TestDerives \/ TestInstalls
    \/ \E s \in Secret, viaIpc \in BOOLEAN : Unlock(s, viaIpc)
    \/ \E s \in Starter :
           \/ StartReadsIdentity(s) \/ DirectStarts(s) \/ HybridStarts(s)
           \/ EnableCollapseCompute(s) \/ DetectorStarts(s)
    \/ ContentWakes \/ Broadcast \/ Interrupt \/ Shutdown
    \/ Identity \/ HashRequest \/ Generate \/ GenerateAnswers
    \/ \E viaIpc \in BOOLEAN :
           \/ PongStart(viaIpc) \/ PongStop(viaIpc)
           \/ AuthStatus(viaIpc) \/ Health(viaIpc) \/ Collapse(viaIpc)

Spec == Init /\ [][Next]_vars

-----------------------------------------------------------------------------
(* Without -test-passkey, P2P is started at most once however the identity *)
(* is unlocked; every part of the network that is up was started with the  *)
(* identity the requests see; and no two answers disagree: once one named  *)
(* an identity none names another or says locked, and nothing goes out     *)
(* under another fork than the answer gives.  The look at unlocked and the *)
(* assignment of the identity are one critical section, and main's own     *)
(* look comes before any request can be served.  With the flag there is a  *)
(* race: a request can unlock while main derives, and two transports start. *)
OneIdentity ==
    (flags # None => flags.testPasskey = None) =>
        /\ Cardinality({s \in Starter : starter[s].at # "none"}) <= 1
        /\ \A x \in {p2pTransport, multiChain} \ {None} :
               x = id /\ x = unifiedID
        /\ Cardinality(told.ids) <= 1
        /\ ~ told.relocked /\ ~ told.split
=============================================================================
