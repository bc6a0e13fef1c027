-------------------------------- MODULE Ipc ---------------------------------
(***************************************************************************)
(* IpcServer (cmd/ipc.go): one goroutine per connection reads requests and *)
(* writes responses; flowBroadcastLoop writes events to the connections    *)
(* that subscribed to the flow.  A frame is two writes, its length and its *)
(* payload, and nothing serialises the frames of a connection: s.mu guards *)
(* the table of subscribers and is never held over a write.                *)
(***************************************************************************)
EXTENDS Naturals, Sequences, SequencesExt

CONSTANTS
    Conn,         \* connections
    Channel,      \* channels a client may name in "subscribe", "flow" among them
    MaxRequests,  \* bound: requests of one connection
    MaxTicks      \* bound: ticks of flowBroadcastLoop that find a subscriber

VARIABLES
    listening,    \* the listener accepts
    handler,      \* each handleConn: see Handlers
    gone,         \* connections whose client has hung up
    closed,       \* connections the server has closed
    subscribers,  \* conn -> channels; no entry: the empty set
    loop,         \* flowBroadcastLoop: [at, todo]
    out,          \* the pieces written to each connection, in order
    requests,     \* requests each connection has sent
    asked,        \* connections that have ever subscribed to the flow
    ticks

vars == <<listening, handler, gone, closed, subscribers, loop, out, requests, asked, ticks>>

(* "reading": in readIpcFrame; "length" and "payload": what handleConn is  *)
(* about to write; "failed": on its way to the deferred cleanup.           *)
Handlers == {"none", "reading", "length", "payload", "failed", "ended"}

(* A piece of a frame: the response to the n-th request or the event of    *)
(* the n-th tick.                                                          *)
Piece(half, of, n) == [half |-> half, of |-> of, n |-> n]

Init ==
    /\ listening = TRUE
    /\ handler = [c \in Conn |-> "none"]
    /\ gone = {} /\ closed = {} /\ asked = {}
    /\ subscribers = [c \in Conn |-> {}]
    /\ loop = [at |-> "waiting", todo |-> <<>>]
    /\ out = [c \in Conn |-> <<>>]
    /\ requests = [c \in Conn |-> 0]
    /\ ticks = 0

-----------------------------------------------------------------------------
(* acceptLoop.                                                             *)
Accept(c) ==
    /\ listening /\ handler[c] = "none"
    /\ handler' = [handler EXCEPT ![c] = "reading"]
    /\ UNCHANGED <<listening, gone, closed, subscribers, loop, out, requests, asked, ticks>>

HangUp(c) ==
    /\ handler[c] \notin {"none", "ended"} /\ c \notin gone
    /\ gone' = gone \cup {c}
    /\ UNCHANGED <<listening, handler, closed, subscribers, loop, out, requests, asked, ticks>>

Writable(c) == c \notin gone /\ c \notin closed

(* handleConn reads a frame and dispatches it.  What the other methods do  *)
(* is in App and Pong; a frame that cannot be read, because the client has *)
(* gone or sent something else, ends the loop.                             *)
Handle(c, channel) ==
    /\ handler[c] = "reading" /\ c \notin closed /\ requests[c] < MaxRequests
    /\ requests' = [requests EXCEPT ![c] = @ + 1]
    /\ handler' = [handler EXCEPT ![c] = "length"]
    /\ subscribers' = [subscribers EXCEPT ![c] = @ \cup channel]
    /\ asked' = IF "flow" \in channel THEN asked \cup {c} ELSE asked
    /\ UNCHANGED <<listening, gone, closed, loop, out, ticks>>

ReadFails(c) ==
    /\ handler[c] = "reading"
    /\ handler' = [handler EXCEPT ![c] = "failed"]
    /\ UNCHANGED <<listening, gone, closed, subscribers, loop, out, requests, asked, ticks>>

(* writeIpcFrame of the response: a write to a closed connection fails.    *)
Respond(c) ==
    /\ handler[c] \in {"length", "payload"}
    /\ IF Writable(c)
       THEN /\ out' = [out EXCEPT ![c] = Append(@, Piece(handler[c], "response", requests[c]))]
            /\ handler' = [handler EXCEPT ![c] = IF @ = "length" THEN "payload" ELSE "reading"]
       ELSE /\ handler' = [handler EXCEPT ![c] = "failed"]
            /\ UNCHANGED out
    /\ UNCHANGED <<listening, gone, closed, subscribers, loop, requests, asked, ticks>>

(* The deferred function: forget the subscriber, close the connection.     *)
Cleanup(c) ==
    /\ handler[c] = "failed"
    /\ subscribers' = [subscribers EXCEPT ![c] = {}]
    /\ closed' = closed \cup {c}
    /\ handler' = [handler EXCEPT ![c] = "ended"]
    /\ UNCHANGED <<listening, gone, loop, out, requests, asked, ticks>>

-----------------------------------------------------------------------------
\* Mutant: every subscriber, whatever the channel.
FlowConnsOfAnyChannel == {c \in Conn : subscribers[c] # {}}

(* The connections a tick finds, under s.mu.                               *)
FlowConns == {c \in Conn : "flow" \in subscribers[c]}

(* A tick copies the table under s.mu and works on the copy.               *)
Tick ==
    /\ loop.at = "waiting" /\ FlowConns # {} /\ ticks < MaxTicks
    /\ ticks' = ticks + 1
    /\ \E order \in SetToSeqs(FlowConns) : loop' = [at |-> "length", todo |-> order]
    /\ UNCHANGED <<listening, handler, gone, closed, subscribers, out, requests, asked>>

(* writeIpcFrame of the event: on an error the loop forgets and closes the *)
(* connection itself, and goes on with the next one.                       *)
Emit ==
    /\ loop.at # "waiting"
    /\ LET c == Head(loop.todo)
           next == [at |-> IF Len(loop.todo) = 1 THEN "waiting" ELSE "length",
                    todo |-> Tail(loop.todo)]
       IN IF Writable(c)
          THEN /\ out' = [out EXCEPT ![c] = Append(@, Piece(loop.at, "event", ticks))]
               /\ loop' = IF loop.at = "length" THEN [loop EXCEPT !.at = "payload"] ELSE next
               /\ UNCHANGED <<subscribers, closed>>
          ELSE /\ subscribers' = [subscribers EXCEPT ![c] = {}]
               /\ closed' = closed \cup {c}
               /\ loop' = next
               /\ UNCHANGED out
    /\ UNCHANGED <<listening, handler, gone, requests, asked, ticks>>

(* Close, deferred in main: the listener goes, the connections stay.       *)
Close ==
    /\ listening
    /\ listening' = FALSE
    /\ UNCHANGED <<handler, gone, closed, subscribers, loop, out, requests, asked, ticks>>

Next ==
    \/ \E c \in Conn :
           \/ Accept(c) \/ HangUp(c) \/ ReadFails(c) \/ Respond(c) \/ Cleanup(c)
           \/ Handle(c, {}) \/ \E ch \in Channel : Handle(c, {ch})
    \/ Tick \/ Emit \/ Close

Spec == Init /\ [][Next]_vars

-----------------------------------------------------------------------------
(* What a client can read: every length is followed by its own payload.    *)
Whole(pieces) ==
    \A i \in DOMAIN pieces :
        pieces[i].half = "length" /\ i < Len(pieces) =>
            pieces[i + 1] = [pieces[i] EXCEPT !.half = "payload"]

(* A client that never subscribes to the flow receives whole frames, and   *)
(* the responses in the order of its requests, whatever the loop and the   *)
(* other connections do.  (On a connection that does subscribe, a response *)
(* and an event can cut into each other: the two goroutines write without  *)
(* a common lock.)                                                         *)
QuietFramesAreWhole ==
    \A c \in Conn \ asked :
        Whole(out[c]) /\ \A i \in DOMAIN out[c] : out[c][i].of = "response"
=============================================================================
