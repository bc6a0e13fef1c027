-------------------------------- MODULE Mesh --------------------------------
(***************************************************************************)
(* The quantum service and its mesh (quantum/service.go, quantum/mesh.go,  *)
(* quantum/pressure.go, quantum/state.go, quantum/gates.go).               *)
(*                                                                         *)
(* The service is one per process.  Its feed loop and the Pong engine both *)
(* push the hashes they see: a hash becomes a block of a chain, puts       *)
(* pressure on the chain's newest block, perturbs the shared wave and      *)
(* tells every listener the new metrics from a goroutine of its own.  A    *)
(* decay loop halves the pressure, and a gate monitor per chain turns the  *)
(* wave while the total pressure is high enough.                           *)
(*                                                                         *)
(* PushData takes m.mu five times, and each time is a step here.  The wave *)
(* is opaque: it is named by the number of changes made to it, and so are  *)
(* the metrics computed from it.  Pressure is counted in whole units.      *)
(***************************************************************************)
EXTENDS Integers, Sequences, FiniteSets, Functions

CONSTANTS Pusher,        \* goroutines that push: the feed loop, the Pong tick
          Chain,         \* chains of the mesh
          Amount,        \* pressures a hash can bring
          Threshold,     \* the gates' Restriction / 32
          None,
          MaxPushes, MaxWave        \* bounds of the model

VARIABLES blocks,        \* chain.Blocks: the SynsetIndex each block carries
          current,       \* CurrentBlock of each chain, 0 before the first
          points,        \* PressureTracker.points, 0 where there is none
          total,         \* PressureTracker.totalPressure
          wave,          \* WaveOrigin
          telling,       \* metrics on their way to a listener
          told,          \* the metrics the listener has
          running,       \* decay loop and gate monitors not stopped
          push,          \* what each pusher is doing
          pushes         \* hashes received so far

vars == <<blocks, current, points, total, wave, telling, told, running, push, pushes>>

Location == Chain \X (1..MaxPushes)

Idle == [pc |-> "idle", chain |-> None, amount |-> 0, count |-> 0, own |-> 0, at |-> 0]

Init ==
    /\ blocks = [h \in Chain |-> <<>>]
    /\ current = [h \in Chain |-> 0]
    /\ points = [l \in Location |-> 0]
    /\ total = 0
    /\ wave = 0
    /\ telling = {}
    /\ told = 0
    /\ running = TRUE
    /\ push = [p \in Pusher |-> Idle]
    /\ pushes = 0

----------------------------------------------------------------------------
(* Pushing a hash *)

At(p, pc) == push[p].pc = pc

\* A hash or a block arrives at the service and is assigned a chain.
OnHashReceived(p) ==
    /\ At(p, "idle")
    /\ pushes < MaxPushes
    /\ pushes' = pushes + 1
    /\ \E h \in Chain, a \in Amount :
          push' = [push EXCEPT ![p] = [Idle EXCEPT !.pc = "count", !.chain = h,
                                                   !.amount = a]]
    /\ UNCHANGED <<blocks, current, points, total, wave, telling, told, running>>

\* The block is encoded with the number of blocks before it.
EncodeBlock(p) ==
    /\ At(p, "count")
    /\ push' = [push EXCEPT ![p].count = Len(blocks[push[p].chain]), ![p].pc = "add"]
    /\ UNCHANGED <<blocks, current, points, total, wave, telling, told, running, pushes>>

AddBlock(p) ==
    LET h == push[p].chain
    IN /\ At(p, "add")
       /\ blocks' = [blocks EXCEPT ![h] = Append(@, push[p].count)]
       /\ push' = [push EXCEPT ![p].own = Len(blocks[h]) + 1, ![p].pc = "locate"]
       /\ UNCHANGED <<current, points, total, wave, telling, told, running, pushes>>

\* Mutant: the block is located by the count it was encoded with.
LocateByOldCount(p) ==
    /\ At(p, "locate")
    /\ push' = [push EXCEPT ![p].at = push[p].count + 1, ![p].pc = "current"]
    /\ UNCHANGED <<blocks, current, points, total, wave, telling, told, running, pushes>>

\* The block is located as the last one there is by now.
Locate(p) ==
    /\ At(p, "locate")
    /\ push' = [push EXCEPT ![p].at = Len(blocks[push[p].chain]), ![p].pc = "current"]
    /\ UNCHANGED <<blocks, current, points, total, wave, telling, told, running, pushes>>

SetCurrentBlock(p) ==
    /\ At(p, "current")
    /\ current' = [current EXCEPT ![push[p].chain] = push[p].at]
    /\ push' = [push EXCEPT ![p].pc = "press"]
    /\ UNCHANGED <<blocks, points, total, wave, telling, told, running, pushes>>

AddPressure(p) ==
    /\ At(p, "press")
    /\ points' = [points EXCEPT ![<<push[p].chain, push[p].at>>] = @ + push[p].amount]
    /\ total' = total + push[p].amount
    /\ push' = [push EXCEPT ![p].pc = "perturb"]
    /\ UNCHANGED <<blocks, current, wave, telling, told, running, pushes>>

\* A block does not perturb the wave, a hash does.
PerturbWaveFromHash(p) ==
    /\ At(p, "perturb")
    /\ wave' \in {wave, wave + 1}
    /\ push' = [push EXCEPT ![p].pc = "tell"]
    /\ UNCHANGED <<blocks, current, points, total, telling, told, running, pushes>>

\* The metrics are computed once and handed to a goroutine.
Tell(p) ==
    /\ At(p, "tell")
    /\ telling' = telling \cup {wave}
    /\ push' = [push EXCEPT ![p] = Idle]
    /\ UNCHANGED <<blocks, current, points, total, wave, told, running, pushes>>

\* The goroutines run in any order.
Callback ==
    /\ \E w \in telling : telling' = telling \ {w} /\ told' = w
    /\ UNCHANGED <<blocks, current, points, total, wave, running, push, pushes>>

----------------------------------------------------------------------------
(* The decay loop, the gate monitors and Stop *)

Halved == [l \in Location |-> points[l] \div 2]

\* Every point decays, and the total is added up anew.
Decay ==
    /\ running
    /\ points' = Halved
    /\ total' = FoldFunction(+, 0, Halved)
    /\ UNCHANGED <<blocks, current, wave, telling, told, running, push, pushes>>

\* A gate fires when the total pressure reaches its restriction.
GateFires ==
    /\ running
    /\ total >= Threshold
    /\ wave < MaxWave
    /\ wave' = wave + 1
    /\ UNCHANGED <<blocks, current, points, total, telling, told, running, push, pushes>>

Stop ==
    /\ running
    /\ running' = FALSE
    /\ UNCHANGED <<blocks, current, points, total, wave, telling, told, push, pushes>>

----------------------------------------------------------------------------
Next ==
    \/ \E p \in Pusher :
          \/ OnHashReceived(p) \/ EncodeBlock(p) \/ AddBlock(p) \/ Locate(p)
          \/ SetCurrentBlock(p) \/ AddPressure(p) \/ PerturbWaveFromHash(p) \/ Tell(p)
    \/ Callback \/ Decay \/ GateFires \/ Stop

Spec == Init /\ [][Next]_vars

\* Pressure is never put on a block older than the one that brought it, nor on
\* one that does not exist, although the feed loop and the Pong tick extend
\* the same chain between the locks of PushData; and the total pressure the
\* gates compare with their restriction is the sum over all blocks, whatever
\* decays between.
PressureIsPlaced ==
    /\ \A p \in Pusher :
          push[p].pc \in {"current", "press"} =>
              push[p].at \in push[p].own..Len(blocks[push[p].chain])
    /\ total = FoldFunction(+, 0, points)

=============================================================================
