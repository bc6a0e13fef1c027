------------------------------- MODULE Layers -------------------------------
(***************************************************************************)
(* identity/layers.go: the MemoryLayerManager.  GetEffectiveRules holds    *)
(* the read lock and takes it again for every parent it inherits from; the *)
(* lock gives nobody a read lock while a writer waits, so a reader between *)
(* two layers and a waiting AddLayer or PlaceData wait for each other.     *)
(* AddLayer may replace a layer by one below its own children, and the     *)
(* recursion then does not end.                                            *)
(*                                                                         *)
(* Of the rules, read access stands for the ones a child overrides when it *)
(* sets them, encryption for the ones that add up, export for the ones     *)
(* that are always the child's own.  Signatures are checked and never      *)
(* change.                                                                 *)
(***************************************************************************)
EXTENDS Integers, Sequences, SequencesExt

CONSTANTS Layer,      \* the names of the layers
          Reader,     \* callers of GetEffectiveRules
          Writer,     \* callers of AddLayer and PlaceData
          Initial,    \* the layers NewMemoryLayerManager makes
          Configs,    \* the layers callers add
          Stream,     \* data to place
          MaxAdds,    \* bound: layers added
          None        \* no layer, no parent, an unset rule

VARIABLES layers,     \* mlm.Layers
          placement,  \* mlm.DataPlacement
          lookups,    \* the layers each reader has read-locked, and its result
          writers,    \* the change each writer waits to make
          overflow,   \* a recursion did not end
          adds        \* layers added so far

vars == <<layers, placement, lookups, writers, overflow, adds>>

Idle == [stack |-> <<>>, result |-> None]

Init ==
  /\ layers = Initial
  /\ placement = [s \in Stream |-> None]
  /\ lookups = [r \in Reader |-> Idle]
  /\ writers = [w \in Writer |-> None]
  /\ overflow = FALSE
  /\ adds = 0

WriterWaits == \E w \in Writer : writers[w] # None
NoReaders == \A r \in Reader : lookups[r].stack = <<>>

(* Mutant: a writer does not wait for the readers.                         *)
MayWriteAtAnyTime == TRUE

MayWrite == NoReaders

-----------------------------------------------------------------------------
(* A child's rules over those of its parent.                               *)
Merge(child, parent) ==
  [read |-> IF child.read # None THEN child.read ELSE parent.read,
   export |-> child.export,
   encrypt |-> child.encrypt \/ parent.encrypt]

OwnRules(c) == [read |-> c.read, export |-> c.export, encrypt |-> c.encrypt]
Inherits(c) == c.inherit /\ c.parent # None

(* What the rules of a layer amount to, read at one moment.                *)
RECURSIVE Effective(_)
Effective(l) ==
  LET c == layers[l]
  IN  IF Inherits(c) THEN Merge(c, Effective(c.parent)) ELSE OwnRules(c)

BeginRules(r, l) ==
  /\ ~overflow /\ ~WriterWaits
  /\ lookups[r].stack = <<>>
  /\ layers[l] # None
  /\ lookups' = [lookups EXCEPT ![r] = [stack |-> <<l>>, result |-> None]]
  /\ UNCHANGED <<layers, placement, writers, overflow, adds>>

(* The nested RLock for the parent; a cycle of parents exhausts the stack. *)
Recurse(r) ==
  LET stack == lookups[r].stack
      c == layers[Last(stack)]
  IN  /\ ~overflow /\ ~WriterWaits
      /\ stack # <<>> /\ lookups[r].result = None
      /\ Inherits(c)
      /\ overflow' = (\E i \in DOMAIN stack : stack[i] = c.parent)
      /\ lookups' = [lookups EXCEPT ![r].stack = Append(@, c.parent)]
      /\ UNCHANGED <<layers, placement, writers, adds>>

ReachTop(r) ==
  LET c == layers[Last(lookups[r].stack)]
  IN  /\ ~overflow
      /\ lookups[r].stack # <<>> /\ lookups[r].result = None
      /\ ~Inherits(c)
      /\ lookups' = [lookups EXCEPT ![r].result = OwnRules(c)]
      /\ UNCHANGED <<layers, placement, writers, overflow, adds>>

MergeDown(r) ==
  LET stack == Front(lookups[r].stack)
  IN  /\ ~overflow
      /\ lookups[r].result # None
      /\ Len(lookups[r].stack) > 1
      /\ lookups' = [lookups EXCEPT ![r] =
                       [stack |-> stack, result |-> Merge(layers[Last(stack)], @.result)]]
      /\ UNCHANGED <<layers, placement, writers, overflow, adds>>

(* The last unlock; CanAccess then looks only at the rules it got.         *)
EndRules(r) ==
  /\ ~overflow
  /\ lookups[r].result # None
  /\ Len(lookups[r].stack) = 1
  /\ lookups' = [lookups EXCEPT ![r] = Idle]
  /\ UNCHANGED <<layers, placement, writers, overflow, adds>>

-----------------------------------------------------------------------------
BeginWrite(w, change) ==
  /\ ~overflow
  /\ writers[w] = None
  /\ writers' = [writers EXCEPT ![w] = change]
  /\ UNCHANGED <<layers, placement, lookups, overflow, adds>>

AddLayer(w) ==
  /\ ~overflow
  /\ writers[w] # None /\ writers[w].op = "add" /\ MayWrite
  /\ adds < MaxAdds
  /\ LET c == writers[w].config
     IN  layers' = IF c.parent # None /\ layers[c.parent] = None THEN layers
                   ELSE [layers EXCEPT ![writers[w].layer] = c]
  /\ adds' = adds + 1
  /\ writers' = [writers EXCEPT ![w] = None]
  /\ UNCHANGED <<placement, lookups, overflow>>

PlaceData(w) ==
  /\ ~overflow
  /\ writers[w] # None /\ writers[w].op = "place" /\ MayWrite
  /\ placement' = IF layers[writers[w].layer] = None THEN placement
                  ELSE [placement EXCEPT ![writers[w].stream] = writers[w].layer]
  /\ writers' = [writers EXCEPT ![w] = None]
  /\ UNCHANGED <<layers, lookups, overflow, adds>>

Next ==
  \/ \E r \in Reader : \/ \E l \in Layer : BeginRules(r, l)
                       \/ Recurse(r) \/ ReachTop(r) \/ MergeDown(r) \/ EndRules(r)
  \/ \E w \in Writer :
       \/ \E l \in Layer, c \in Configs :
            adds < MaxAdds /\ BeginWrite(w, [op |-> "add", layer |-> l, config |-> c])
       \/ \E l \in Layer, s \in Stream :
            BeginWrite(w, [op |-> "place", layer |-> l, stream |-> s])
       \/ AddLayer(w) \/ PlaceData(w)

Spec == Init /\ [][Next]_vars

-----------------------------------------------------------------------------
(* The rules that GetEffectiveRules has put together on its way through    *)
(* the parents, one nested read lock at a time, are the rules of a single  *)
(* moment: no AddLayer changed a layer it had already passed.              *)
RulesAreOfOneMoment ==
  \A r \in Reader :
    lookups[r].result # None => lookups[r].result = Effective(Last(lookups[r].stack))
=============================================================================
