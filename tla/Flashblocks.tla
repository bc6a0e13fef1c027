---------------------------- MODULE Flashblocks ----------------------------
(***************************************************************************)
(* The FlashblocksClient (arb/flashblocks.go): one websocket, read by      *)
(* readLoop, pinged by pingLoop, and replaced by reconnectLoop when one of *)
(* them says that it failed.  They say so with a token in reconnectCh,     *)
(* which holds one.  What the messages contain does not matter here:       *)
(* processMessage counts them and keeps nothing else.                      *)
(*                                                                         *)
(* reconnectLoop closes a connection before it drops it, so a connection   *)
(* that readLoop still holds after that is a closed one.                   *)
(***************************************************************************)
EXTENDS Naturals

CONSTANT MaxReconnects

VARIABLES
    main,        \* the caller: "new", "dialling", "running", "closing", "waiting", "stopped"
    conn,        \* fc.conn: "nil", "open" or "failed", closed at either end
    token,       \* tokens in reconnectCh
    reader,      \* readLoop
    pinger,      \* pingLoop
    reconnect,   \* reconnectLoop: its place and its count
    stopCh       \* closed

vars == <<main, conn, token, reader, pinger, reconnect, stopCh>>

Init ==
    /\ main = "new" /\ conn = "nil" /\ token = 0 /\ stopCh = FALSE
    /\ reader = "off" /\ pinger = "off"
    /\ reconnect = [pc |-> "off", count |-> 0]

(* Mutant: a channel without room for a token passes it on only to a loop  *)
(* that waits for it.                                                      *)
TriggerUnbuffered == token' = IF reconnect.pc = "waiting" THEN 1 ELSE token

(* triggerReconnect: no second token.                                      *)
TriggerReconnect == token' = 1

-----------------------------------------------------------------------------
(* connect dials, stores the connection and then subscribes; one that      *)
(* cannot be subscribed is closed, and stays stored.                       *)

Start ==
    /\ main = "new"
    /\ main' = "dialling"
    /\ UNCHANGED <<conn, token, reader, pinger, reconnect, stopCh>>

(* Start runs the loops if it could connect and else leaves the client     *)
(* running without them.                                                   *)
StartConnects ==
    /\ main = "dialling"
    /\ main' = "running"
    /\ \/ /\ conn' = "open"
          /\ reader' = "top" /\ pinger' = "waiting"
          /\ reconnect' = [pc |-> "waiting", count |-> 0]
       \/ /\ conn' \in {"nil", "failed"}
          /\ UNCHANGED <<reader, pinger, reconnect>>
    /\ UNCHANGED <<token, stopCh>>

Stop ==
    /\ main = "running"
    /\ main' = "closing"
    /\ stopCh' = TRUE
    /\ UNCHANGED <<conn, token, reader, pinger, reconnect>>

(* Stop closes the connection it finds, ...                                *)
StopCloses ==
    /\ main = "closing"
    /\ main' = "waiting"
    /\ conn' = IF conn = "open" THEN "failed" ELSE conn
    /\ UNCHANGED <<token, reader, pinger, reconnect, stopCh>>

(* ... and waits for the loops.                                            *)
StopReturns ==
    /\ main = "waiting"
    /\ {reader, pinger, reconnect.pc} \subseteq {"off", "done"}
    /\ main' = "stopped"
    /\ UNCHANGED <<conn, token, reader, pinger, reconnect, stopCh>>

(* The server, or the network, drops the connection.                       *)
Drop ==
    /\ conn = "open"
    /\ conn' = "failed"
    /\ UNCHANGED <<main, token, reader, pinger, reconnect, stopCh>>

-----------------------------------------------------------------------------
(* readLoop: stopCh, then the connection, then a read with a deadline.     *)
ReaderChecksStop ==
    /\ reader = "top"
    /\ reader' = IF stopCh THEN "done" ELSE "lookup"
    /\ UNCHANGED <<main, conn, token, pinger, reconnect, stopCh>>

ReaderLooksUp ==
    /\ reader = "lookup"
    /\ reader' = IF conn = "nil" THEN "top" ELSE "reading"
    /\ UNCHANGED <<main, conn, token, pinger, reconnect, stopCh>>

ReadMessage ==
    /\ reader = "reading"
    /\ conn = "open"
    /\ reader' = "top"
    /\ UNCHANGED <<main, conn, token, pinger, reconnect, stopCh>>

(* The connection failed, was replaced, or was silent for ReadTimeout.     *)
ReadError ==
    /\ reader \in {"reading", "readingOld"}
    /\ reader' = "top"
    /\ TriggerReconnect
    /\ UNCHANGED <<main, conn, pinger, reconnect, stopCh>>

(* pingLoop: a ping finds out about a failed connection.                   *)
Ping ==
    /\ pinger = "waiting"
    /\ \/ conn = "failed" /\ TriggerReconnect
       \/ conn # "failed" /\ UNCHANGED token
    /\ UNCHANGED <<main, conn, reader, pinger, reconnect, stopCh>>

PingerEnds ==
    /\ pinger = "waiting" /\ stopCh
    /\ pinger' = "done"
    /\ UNCHANGED <<main, conn, token, reader, reconnect, stopCh>>

-----------------------------------------------------------------------------
(* reconnectLoop takes a token, even one put there about the connection    *)
(* before; after MaxReconnects failures in a row it ends.                  *)
TakeToken ==
    /\ reconnect.pc = "waiting"
    /\ token = 1
    /\ token' = 0
    /\ IF reconnect.count + 1 > MaxReconnects
       THEN /\ reconnect' = [pc |-> "done", count |-> reconnect.count + 1]
            /\ UNCHANGED <<conn, reader>>
       ELSE /\ reconnect' = [pc |-> "sleeping", count |-> reconnect.count + 1]
            /\ conn' = "nil"
            /\ reader' = IF reader = "reading" THEN "readingOld" ELSE reader
    /\ UNCHANGED <<main, pinger, stopCh>>

(* ReconnectInterval has passed.                                           *)
Dial ==
    /\ reconnect.pc = "sleeping"
    /\ reconnect' = [reconnect EXCEPT !.pc = "dialling"]
    /\ UNCHANGED <<main, conn, token, reader, pinger, stopCh>>

Reconnected ==
    /\ reconnect.pc = "dialling"
    /\ conn' = "open"
    /\ reconnect' = [pc |-> "waiting", count |-> 0]
    /\ UNCHANGED <<main, token, reader, pinger, stopCh>>

ReconnectFailed ==
    /\ reconnect.pc = "dialling"
    /\ conn' \in {"nil", "failed"}
    /\ reconnect' = [reconnect EXCEPT !.pc = "trigger"]
    /\ UNCHANGED <<main, token, reader, pinger, stopCh>>

TriggerItself ==
    /\ reconnect.pc = "trigger"
    /\ TriggerReconnect
    /\ reconnect' = [reconnect EXCEPT !.pc = "waiting"]
    /\ UNCHANGED <<main, conn, reader, pinger, stopCh>>

ReconnectEnds ==
    /\ reconnect.pc \in {"waiting", "sleeping"}
    /\ stopCh
    /\ reconnect' = [reconnect EXCEPT !.pc = "done"]
    /\ UNCHANGED <<main, conn, token, reader, pinger, stopCh>>

Reader == ReaderChecksStop \/ ReaderLooksUp \/ ReadMessage \/ ReadError
Pinger == Ping \/ PingerEnds
Reconnect == \/ TakeToken \/ Dial \/ Reconnected \/ ReconnectFailed
             \/ TriggerItself \/ ReconnectEnds
Main == Start \/ StartConnects \/ Stop \/ StopCloses \/ StopReturns

Next == Main \/ Drop \/ Reader \/ Pinger \/ Reconnect

(* Every goroutine goes on, every dial ends, and every read ends at its    *)
(* deadline; nobody has to call Start or Stop.                             *)
Fairness ==
    /\ WF_vars(Reader) /\ WF_vars(Reconnect)
    /\ WF_vars(PingerEnds)
    /\ WF_vars(StartConnects) /\ WF_vars(StopCloses) /\ WF_vars(StopReturns)

Spec == Init /\ [][Next]_vars /\ Fairness

-----------------------------------------------------------------------------
(* A client that runs is connected again and again, unless reconnectLoop   *)
(* has given up or Start could not connect: no token is lost in the races  *)
(* of the loops so that nobody would dial any more.                        *)
ConnectionRestored ==
    []<>(main # "running" \/ reconnect.pc \in {"off", "done"} \/ conn = "open")

(* Stop ends: no loop misses it.                                           *)
StopEnds == (main = "closing") ~> (main = "stopped")
=============================================================================
