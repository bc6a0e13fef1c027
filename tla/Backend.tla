------------------------------- MODULE Backend -------------------------------
(***************************************************************************)
(* The language backend (synthesis/backend_ngac.go) with the hash network  *)
(* it drives (synthesis/hash_bridge.go, quantum/hashtensor.go).  HTTP and  *)
(* IPC handlers call it concurrently: each caller runs one request at a    *)
(* time, and a request is a text generation, a collapse, a chain of        *)
(* collapses or a pass through the hash network.  Meanwhile chain events   *)
(* move the pressure and the application switches the collapse and the     *)
(* live dispatcher on.                                                     *)
(*                                                                         *)
(* Words, hashes and pressures are opaque.  A hash is named by the number  *)
(* of the request it answers, and the pressure by the number of chain      *)
(* events it reflects.  b.mu is a variable only because one handler holds  *)
(* it over several steps; every other critical section is one step.        *)
(***************************************************************************)
EXTENDS Integers, SequencesExt, FiniteSets

CONSTANTS Caller,        \* goroutines of HTTP and IPC handlers
          Op,            \* the requests considered
          Positions,     \* concepts of a request to the hash network
          ContextLen,    \* hn.ContextLen
          MaxLen,        \* entries of the conversation window
          None,          \* no caller, no bounds
          MaxRequests, MaxEvents, MaxEnables    \* bounds of the model

VARIABLES mu,            \* holder of b.mu across steps, or None
          enabled,       \* collapseEnabled, and collapseContext exists
          accumulated,   \* collapseContext.AccumulatedHash
          live,          \* liveDispatcher is set
          folded,        \* chain events folded into bridge.lastPressure
          pressure,      \* b.pressure: chain events it reflects
          entries,       \* contextWindow.Entries
          bounds,        \* hn.Bounds: the request that set them
          felt,          \* hn.Pressure, as the bridge passed it on
          attended,      \* hn.Context: <<request, position>> of each hash
          req,           \* what each caller is doing
          generating,    \* requests with a grammar generator running
          issued,        \* requests begun so far
          enables        \* EnableCollapseCompute calls so far

settings == <<enabled, live, enables>>
network == <<bounds, felt, attended>>
vars == <<mu, settings, accumulated, folded, pressure, entries, network, req,
          generating, issued>>

Idle == [op |-> "none", pc |-> "idle", n |-> 0, prev |-> 0, saw |-> <<>>,
         window |-> <<>>, said |-> 0]

Init ==
    /\ mu = None
    /\ enabled = FALSE
    /\ accumulated = <<>>
    /\ live = FALSE
    /\ folded = 0
    /\ pressure = 0
    /\ entries = <<>>
    /\ bounds = None
    /\ felt = 0
    /\ attended = <<>>
    /\ req = [c \in Caller |-> Idle]
    /\ generating = {}
    /\ issued = 0
    /\ enables = 0

Free == mu = None

At(c, op, pc) == req[c].op = op /\ req[c].pc = pc

GoTo(c, pc) == req' = [req EXCEPT ![c].pc = pc]

Return(c) == req' = [req EXCEPT ![c] = Idle]

Begin(c, op, pc) ==
    /\ op \in Op
    /\ req[c].pc = "idle"
    /\ issued < MaxRequests
    /\ issued' = issued + 1
    /\ req' = [req EXCEPT ![c] = [Idle EXCEPT !.op = op, !.pc = pc, !.n = issued + 1,
                                              !.prev = pressure, !.saw = accumulated]]

----------------------------------------------------------------------------
(* The application's side *)

\* EnableCollapseCompute starts a fresh context, every time it is called.
EnableCollapseCompute ==
    /\ Free
    /\ enables < MaxEnables
    /\ enables' = enables + 1
    /\ enabled' = TRUE
    /\ accumulated' = <<>>
    /\ UNCHANGED <<mu, live, folded, pressure, entries, network, req, generating,
                   issued>>

SetLiveDispatcher ==
    /\ Free /\ ~live
    /\ live' = TRUE
    /\ UNCHANGED <<mu, enabled, enables, accumulated, folded, pressure, entries,
                   network, req, generating, issued>>

\* The bridge folds an event into its own pressure.
BridgeEvent ==
    /\ folded < MaxEvents
    /\ folded' = folded + 1
    /\ UNCHANGED <<mu, settings, accumulated, pressure, entries, network, req,
                   generating, issued>>

\* The event's handler then copies the bridge's pressure under b.mu.
OnChainEvent ==
    /\ Free /\ pressure # folded
    /\ pressure' = folded
    /\ UNCHANGED <<mu, settings, accumulated, folded, entries, network, req, generating,
                   issued>>

----------------------------------------------------------------------------
(* The answer, and the conversation window *)

\* Without words, or without a dispatcher, the answer is made here.  Otherwise
\* a generator is started and the caller waits for it.
Assemble(c) ==
    /\ req[c].pc = "answer"
    /\ \/ GoTo(c, "turns") /\ UNCHANGED generating
       \/ /\ live
          /\ generating' = generating \cup {req[c].n}
          /\ GoTo(c, "waiting")
    /\ UNCHANGED <<mu, settings, accumulated, folded, pressure, entries, network,
                   issued>>

\* resultCh has room for one result, so the generator never waits.
GeneratorSends ==
    /\ \E n \in generating : generating' = generating \ {n}
    /\ UNCHANGED <<mu, settings, accumulated, folded, pressure, entries, network, req,
                   issued>>

\* The result, or ten seconds without one: then the answer is made here.
GeneratorAnswers(c) ==
    /\ req[c].pc = "waiting"
    /\ GoTo(c, "turns")
    /\ UNCHANGED <<mu, settings, accumulated, folded, pressure, entries, network,
                   generating, issued>>

\* CollapseGenerate adds both turns under b.mu, GenerateText under no lock.
BeginTurns(c) ==
    /\ req[c].pc = "turns"
    /\ IF req[c].op = "collapse" THEN Free /\ mu' = c ELSE UNCHANGED mu
    /\ GoTo(c, "adding")
    /\ UNCHANGED <<settings, accumulated, folded, pressure, entries, network,
                   generating, issued>>

\* AddTurn takes no lock of its own: the slice is read, and written back with
\* the turn appended and the oldest entries cut.
ReadEntries(c) ==
    /\ req[c].pc = "adding"
    /\ req' = [req EXCEPT ![c].window = entries, ![c].pc = "writing"]
    /\ UNCHANGED <<mu, settings, accumulated, folded, pressure, entries, network,
                   generating, issued>>

WriteEntries(c) ==
    LET longer == Append(req[c].window, <<req[c].n, req[c].said>>)
        last   == req[c].said = 1
    IN /\ req[c].pc = "writing"
       /\ entries' = IF Len(longer) > MaxLen THEN Tail(longer) ELSE longer
       /\ req' = [req EXCEPT ![c].said = @ + 1, ![c].window = <<>>,
                             ![c].pc = IF last THEN "ending" ELSE "adding"]
       /\ mu' = IF last /\ mu = c THEN None ELSE mu
       /\ UNCHANGED <<settings, accumulated, folded, pressure, network, generating,
                      issued>>

----------------------------------------------------------------------------
(* GenerateText *)

BeginText(c) ==
    /\ Free
    /\ Begin(c, "text", "answer")
    /\ UNCHANGED <<mu, settings, accumulated, folded, pressure, entries, network,
                   generating>>

\* The new pressure is blended from the one read at the beginning.
EndText(c) ==
    /\ At(c, "text", "ending") /\ Free
    /\ pressure' = req[c].prev
    /\ Return(c)
    /\ UNCHANGED <<mu, settings, accumulated, folded, entries, network, generating,
                   issued>>

----------------------------------------------------------------------------
(* CollapseGenerate and CollapseChainGenerate *)

\* The settings and a copy of the context are taken under the lock.
BeginCollapse(c) ==
    /\ Free
    /\ enabled                                   \* otherwise an error
    /\ Begin(c, "collapse", "hashing")
    /\ UNCHANGED <<mu, settings, accumulated, folded, pressure, entries, network,
                   generating>>

\* Mutant: the hash is added to the copy taken before it was computed.
AddCollapseToCopy(c) ==
    /\ At(c, "collapse", "hashing") /\ Free
    /\ accumulated' = Append(req[c].saw, req[c].n)
    /\ GoTo(c, "answer")
    /\ UNCHANGED <<mu, settings, folded, pressure, entries, network, generating, issued>>

\* The hash comes from the flow, from the dispatcher or from the node's own
\* state, in that order, and is added to whatever the context is by then.
AddCollapse(c) ==
    /\ At(c, "collapse", "hashing") /\ Free
    /\ accumulated' = Append(accumulated, req[c].n)
    /\ GoTo(c, "answer")
    /\ UNCHANGED <<mu, settings, folded, pressure, entries, network, generating, issued>>

EndCollapse(c) ==
    /\ At(c, "collapse", "ending")
    /\ Return(c)
    /\ UNCHANGED <<mu, settings, accumulated, folded, pressure, entries, network,
                   generating, issued>>

\* A chain keeps a context of its own and leaves the shared one alone.
BeginChain(c) ==
    /\ Free
    /\ enabled                                   \* otherwise an error
    /\ Begin(c, "chain", "chaining")
    /\ UNCHANGED <<mu, settings, accumulated, folded, pressure, entries, network,
                   generating>>

ChainPrompt(c) ==
    /\ At(c, "chain", "chaining")
    /\ IF Len(req[c].window) < Positions
          THEN req' = [req EXCEPT ![c].window = Append(@, req[c].n)]
          ELSE Return(c)
    /\ UNCHANGED <<mu, settings, accumulated, folded, pressure, entries, network,
                   generating, issued>>

----------------------------------------------------------------------------
(* HashGenerate and HashForward *)

\* b.pressure is handed to the bridge, and by it to the network.
BeginHash(c) ==
    /\ Free
    /\ Begin(c, "hash", "bounding")
    /\ felt' = pressure
    /\ UNCHANGED <<mu, settings, accumulated, folded, pressure, entries, bounds,
                   attended, generating>>

\* The bounds are set on the network all requests share.
SetBounds(c) ==
    /\ At(c, "hash", "bounding")
    /\ bounds' = req[c].n
    /\ GoTo(c, "embedding")
    /\ UNCHANGED <<mu, settings, accumulated, folded, pressure, entries, felt, attended,
                   generating, issued>>

\* Embedding, attention, the layers and the decoding each read the network's
\* pressure, context and bounds again, under its own lock.
HashEmbed(c) ==
    /\ At(c, "hash", "embedding")
    /\ GoTo(c, "attending")
    /\ UNCHANGED <<mu, settings, accumulated, folded, pressure, entries, network,
                   generating, issued>>

\* The heads run in parallel and are waited for.
HashAttend(c) ==
    /\ At(c, "hash", "attending")
    /\ GoTo(c, "transforming")
    /\ UNCHANGED <<mu, settings, accumulated, folded, pressure, entries, network,
                   generating, issued>>

\* Each position gives one hash.
HashTransform(c) ==
    /\ At(c, "hash", "transforming")
    /\ req' = [req EXCEPT ![c].pc = "decoding",
                          ![c].window = [p \in 1..Positions |-> <<req[c].n, p>>]]
    /\ UNCHANGED <<mu, settings, accumulated, folded, pressure, entries, network,
                   generating, issued>>

HashDecode(c) ==
    /\ At(c, "hash", "decoding")
    /\ GoTo(c, "remembering")
    /\ UNCHANGED <<mu, settings, accumulated, folded, pressure, entries, network,
                   generating, issued>>

Latest(s) == SubSeq(s, IF Len(s) > ContextLen THEN Len(s) - ContextLen + 1 ELSE 1, Len(s))

\* Mutant: the lock is taken for one hash at a time.
RememberOneByOne(c) ==
    /\ At(c, "hash", "remembering")
    /\ attended' = Latest(Append(attended, Head(req[c].window)))
    /\ IF Len(req[c].window) = 1
          THEN Return(c)
          ELSE req' = [req EXCEPT ![c].window = Tail(@)]
    /\ UNCHANGED <<mu, settings, accumulated, folded, pressure, entries, bounds, felt,
                   generating, issued>>

\* All hashes of the request enter the network's context under one lock, and
\* the oldest leave it.
Remember(c) ==
    /\ At(c, "hash", "remembering")
    /\ attended' = Latest(attended \o req[c].window)
    /\ Return(c)
    /\ UNCHANGED <<mu, settings, accumulated, folded, pressure, entries, bounds, felt,
                   generating, issued>>

----------------------------------------------------------------------------
Next ==
    \/ EnableCollapseCompute \/ SetLiveDispatcher
    \/ BridgeEvent \/ OnChainEvent \/ GeneratorSends
    \/ \E c \in Caller :
          \/ Assemble(c) \/ GeneratorAnswers(c)
          \/ BeginTurns(c) \/ ReadEntries(c) \/ WriteEntries(c)
          \/ BeginText(c) \/ EndText(c)
          \/ BeginCollapse(c) \/ AddCollapse(c) \/ EndCollapse(c)
          \/ BeginChain(c) \/ ChainPrompt(c)
          \/ BeginHash(c) \/ SetBounds(c) \/ HashEmbed(c)
          \/ HashAttend(c) \/ HashTransform(c) \/ HashDecode(c) \/ Remember(c)

Spec == Init /\ [][Next]_vars

\* The collapse context loses no answer: between two calls of
\* EnableCollapseCompute it only ever grows, though every request computes its
\* hash, for up to thirty seconds, over a copy that others outdate.
ContextOnlyGrows ==
    [][accumulated' = <<>> \/ IsPrefix(accumulated, accumulated')]_vars

\* The hash network attends over whole requests: in its context the hashes of
\* one request stand together, in the order of their positions and complete
\* but for the oldest request, whatever other requests finish meanwhile.
AttendedAreWhole ==
    \A i \in 1..(Len(attended) - 1) :
        \/ attended[i + 1] = <<attended[i][1], attended[i][2] + 1>>
        \/ attended[i][2] = Positions /\ attended[i + 1][2] = 1

=============================================================================
