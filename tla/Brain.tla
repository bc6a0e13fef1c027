------------------------------- MODULE Brain -------------------------------
(***************************************************************************)
(* The PositronicBrain (memory/positronic.go): pathways between concepts   *)
(* (memory/pathways.go), engrams of concepts that came up together         *)
(* (memory/engrams.go) and the working memory of a conversation            *)
(* (memory/context.go).  Each of the three has a lock of its own; only     *)
(* ProcessInput and Learn hold the brain's lock as well, so Decay, Save    *)
(* and Clear run between their steps.  Save writes one file after the      *)
(* other, in place.                                                        *)
(*                                                                         *)
(* Strengths are left out: what they decide, which pathways and engrams    *)
(* are weak enough to go, is left open.  The weight of a concept in the    *)
(* working memory is given by the turns since it came up.                  *)
(***************************************************************************)
EXTENDS Naturals, Sequences, FiniteSets, SequencesExt, TLC

CONSTANTS
    Concept,
    Caller,          \* threads that converse: BrainGenerateWithMemory
    Inputs, Outputs, \* the concepts in a prompt and in a response: sequences
    MaxEngrams, MaxTurns, MaxConcepts, FocusStackSize,
    FadeAfter,       \* turns after which a weight of 1.0 is below 0.01: 21
    FadeOvernight,   \* turns that fade a weight as 0.3 does: 5
    None, Torn,
    MaxPrompts, MaxUpkeep   \* bounds

VARIABLES
    brain,      \* "up", "crashed", or "refused": a file could not be read
    paths,      \* PathwayMemory: [known, listed]
    engrams,    \* EngramMemory: [known, listed, total]
    context,    \* WorkingMemory: [turns, focus, active]; a concept that is
                \* not active has the age FadeAfter
    caller,     \* each caller: [pc, input, output]
    saving,     \* the next file Save writes
    file,       \* the files; None: absent, Torn: cut off by a crash
    decaying,   \* BrainDecay has done the pathways
    prompts,
    upkeep      \* calls of Save, Decay and Clear

vars == <<brain, paths, engrams, context, caller, saving, file, decaying, prompts, upkeep>>

Key == Concept \X Concept
ID == {e \in SUBSET Concept : Cardinality(e) >= 3}

(* BySource lists a key under its first concept, ConceptIndex an id under  *)
(* each of its concepts: how often.                                        *)
NewPaths == [known |-> {}, listed |-> [k \in Key |-> 0]]
NewEngrams == [known |-> {}, listed |-> [c \in Concept |-> [e \in ID |-> 0]], total |-> 0]
NewContext == [turns |-> << >>, focus |-> << >>, active |-> [c \in Concept |-> FadeAfter]]
Off == [pc |-> "off", input |-> << >>, output |-> << >>]
Files == <<"pathways", "engrams", "context">>

Init ==
    /\ brain = "up"
    /\ paths = NewPaths /\ engrams = NewEngrams /\ context = NewContext
    /\ caller = [c \in Caller |-> Off]
    /\ saving = 0
    /\ file = [f \in ToSet(Files) |-> None]
    /\ decaying = FALSE
    /\ prompts = 0 /\ upkeep = 0

Locked == \E c \in Caller : caller[c].pc \in {"route", "recall", "link", "store"}

-----------------------------------------------------------------------------
(* The entries that PathwayMemory.Decay and EngramMemory.Decay remove.     *)
PathsWithout(p, gone) ==
    [known |-> p.known \ gone,
     listed |-> [k \in Key |-> IF k \in gone THEN 0 ELSE p.listed[k]]]

(* Mutant: removeEngram stops at the first of the engram's hashes.         *)
RemoveFromFirstList(m, id) ==
    LET first == CHOOSE c \in id : TRUE
    IN  [known |-> m.known \ {id},
         listed |-> [m.listed EXCEPT ![first][id] = 0],
         total |-> m.total - 1]

(* removeEngram takes the id out of the list of each of its concepts.      *)
RemoveEngram(m, id) ==
    [known |-> m.known \ {id},
     listed |-> [c \in Concept |-> IF c \in id THEN [m.listed[c] EXCEPT ![id] = 0] ELSE m.listed[c]],
     total |-> m.total - 1]

RemoveEngrams(m, gone) == FoldLeft(RemoveEngram, m, SetToSeq(gone))

(* Strengthen: a key that is new is listed.                                *)
Strengthen(p, keys) ==
    [known |-> p.known \union keys,
     listed |-> [k \in Key |-> IF k \in keys \ p.known THEN p.listed[k] + 1 ELSE p.listed[k]]]

(* pruneWeakest: a tenth of the engrams goes, at least one.                *)
PruneWeakest(m) ==
    LET n == Cardinality(m.known)
        weakest == IF n \div 10 < 1 THEN 1 ELSE n \div 10
    IN  {RemoveEngrams(m, gone) : gone \in {g \in SUBSET m.known : Cardinality(g) = weakest}}

(* Store: an engram that is new is listed.                                 *)
Stored(m, id) ==
    LET added == [known |-> m.known \union {id},
                  listed |-> [c \in Concept |->
                      IF c \in id THEN [m.listed[c] EXCEPT ![id] = @ + 1] ELSE m.listed[c]],
                  total |-> m.total + 1]
    IN  IF id \in m.known THEN {m}
        ELSE IF Cardinality(added.known) <= MaxEngrams THEN {added}
        ELSE PruneWeakest(added)

-----------------------------------------------------------------------------
LastN(s, n) == IF Len(s) > n THEN SubSeq(s, Len(s) - n + 1, Len(s)) ELSE s
FirstN(s, n) == IF Len(s) > n THEN SubSeq(s, 1, n) ELSE s
Distinct(s) ==
    FoldLeft(LAMBDA acc, x : IF x \in ToSet(acc) THEN acc ELSE Append(acc, x), << >>, s)

Older(active, turns) ==
    [c \in Concept |-> IF active[c] + turns < FadeAfter THEN active[c] + turns ELSE FadeAfter]

(* pruneWeakestConcepts: some MaxConcepts of the youngest stay.            *)
Pruned(active) ==
    LET on == {c \in Concept : active[c] < FadeAfter}
        kept == {k \in SUBSET on :
                   /\ Cardinality(k) = MaxConcepts
                   /\ \A c \in k, d \in on \ k : active[c] <= active[d]}
    IN  IF Cardinality(on) <= MaxConcepts THEN {active}
        ELSE {[c \in Concept |-> IF c \in k THEN active[c] ELSE FadeAfter] : k \in kept}

(* AddTurn: the other active concepts fade.  updateFocus puts the concepts *)
(* of the turn before those in focus.                                      *)
AddTurn(ctx, role, concepts) ==
    LET aged == Older(ctx.active, 1)
        now == [c \in Concept |-> IF c \in ToSet(concepts) THEN 0 ELSE aged[c]]
    IN  {[turns |-> LastN(Append(ctx.turns, [role |-> role, concepts |-> concepts]), MaxTurns),
          focus |-> FirstN(Distinct(concepts \o ctx.focus), FocusStackSize),
          active |-> active] : active \in Pruned(now)}

(* GetLastUserMessage.                                                     *)
LastInput(ctx) ==
    LET mine == SelectSeq(ctx.turns, LAMBDA t : t.role = "user")
    IN  IF mine = << >> THEN << >> ELSE Last(mine).concepts

(* BrainProcess: ProcessInput adds the turn; what it looks up in the other *)
(* memories changes strengths only.                                        *)
ProcessInput(c) ==
    /\ brain = "up" /\ ~ Locked
    /\ caller[c].pc = "off"
    /\ prompts < MaxPrompts
    /\ prompts' = prompts + 1
    /\ \E i \in Inputs, o \in Outputs :
         /\ context' \in AddTurn(context, "user", i)
         /\ caller' = [caller EXCEPT ![c] = [pc |-> "generate", input |-> << >>, output |-> o]]
    /\ UNCHANGED <<brain, paths, engrams, saving, file, decaying, upkeep>>

(* BrainLearn, once there is a response: Learn takes the lock and adds the *)
(* turn, ...                                                               *)
Learn(c) ==
    /\ brain = "up" /\ ~ Locked
    /\ caller[c].pc = "generate"
    /\ context' \in AddTurn(context, "assistant", caller[c].output)
    /\ caller' = [caller EXCEPT ![c].pc = "route"]
    /\ UNCHANGED <<brain, paths, engrams, saving, file, prompts, decaying, upkeep>>

(* StrengthenRoute, ...                                                    *)
StrengthenRoute(c) ==
    LET o == caller[c].output
    IN  /\ caller[c].pc = "route"
        /\ paths' = Strengthen(paths, {<<o[n], o[n+1]>> : n \in 1..(Len(o) - 1)})
        /\ caller' = [caller EXCEPT ![c].pc = "recall"]
        /\ UNCHANGED <<brain, engrams, context, saving, file, prompts, decaying, upkeep>>

(* looks for the last message of a user, whoever that was, ...             *)
Recall(c) ==
    /\ caller[c].pc = "recall"
    /\ caller' = [caller EXCEPT ![c].pc = "link", ![c].input = LastInput(context)]
    /\ UNCHANGED <<brain, paths, engrams, context, saving, file, prompts, decaying, upkeep>>

(* links it to the response, ...                                           *)
Link(c) ==
    LET i == ToSet(caller[c].input)
        o == ToSet(caller[c].output)
    IN  /\ caller[c].pc = "link"
        /\ paths' = Strengthen(paths, {k \in i \X o : k[1] # k[2]})
        /\ caller' = [caller EXCEPT ![c].pc = "store"]
        /\ UNCHANGED <<brain, engrams, context, saving, file, prompts, decaying, upkeep>>

(* and stores an engram of both if they have three concepts.               *)
Store(c) ==
    LET id == ToSet(caller[c].input) \union ToSet(caller[c].output)
    IN  /\ caller[c].pc = "store"
        /\ IF Cardinality(id) >= 3 THEN engrams' \in Stored(engrams, id) ELSE UNCHANGED engrams
        /\ caller' = [caller EXCEPT ![c] = Off]
        /\ UNCHANGED <<brain, paths, context, saving, file, prompts, decaying, upkeep>>

-----------------------------------------------------------------------------
Upkeep == upkeep < MaxUpkeep /\ upkeep' = upkeep + 1

(* BrainDecay: first the pathways, then the engrams.                       *)
DecayPathways ==
    /\ brain = "up" /\ ~ decaying
    /\ Upkeep
    /\ decaying' = TRUE
    /\ \E gone \in SUBSET paths.known : paths' = PathsWithout(paths, gone)
    /\ UNCHANGED <<brain, engrams, context, caller, saving, file, prompts>>

DecayEngrams ==
    /\ brain = "up" /\ decaying
    /\ decaying' = FALSE
    /\ \E gone \in SUBSET engrams.known : engrams' = RemoveEngrams(engrams, gone)
    /\ UNCHANGED <<brain, paths, context, caller, saving, file, prompts, upkeep>>

Clear ==
    /\ brain = "up"
    /\ context # NewContext
    /\ Upkeep
    /\ context' = NewContext
    /\ UNCHANGED <<brain, paths, engrams, caller, saving, file, prompts, decaying>>

(* BrainSave: one file after the other.                                    *)
Save ==
    /\ brain = "up"
    /\ saving = 0
    /\ Upkeep
    /\ saving' = 1
    /\ UNCHANGED <<brain, paths, engrams, context, caller, file, prompts, decaying>>

Contents(f) ==
    CASE f = "pathways" -> paths [] f = "engrams" -> engrams [] f = "context" -> context

SaveFile ==
    /\ brain = "up"
    /\ saving > 0
    /\ file' = [file EXCEPT ![Files[saving]] = Contents(Files[saving])]
    /\ saving' = (saving + 1) % 4
    /\ UNCHANGED <<brain, paths, engrams, context, caller, prompts, decaying, upkeep>>

(* The process ends, perhaps in the middle of a file.                      *)
Crash ==
    /\ brain = "up"
    /\ brain' = "crashed"
    /\ \/ UNCHANGED file
       \/ saving > 0 /\ file' = [file EXCEPT ![Files[saving]] = Torn]
    /\ paths' = NewPaths /\ engrams' = NewEngrams /\ context' = NewContext
    /\ caller' = [c \in Caller |-> Off]
    /\ saving' = 0 /\ decaying' = FALSE
    /\ UNCHANGED <<prompts, upkeep>>

LoadPathwayMemory == IF file["pathways"] = None THEN NewPaths ELSE file["pathways"]
LoadEngramMemory == IF file["engrams"] = None THEN NewEngrams ELSE file["engrams"]

(* A context older than an hour keeps its concepts without the turns.      *)
LoadWorkingMemory ==
    IF file["context"] = None THEN {NewContext}
    ELSE {file["context"],
          [file["context"] EXCEPT !.turns = << >>, !.active = Older(@, FadeOvernight)]}

(* EnableBrain: LoadPositronicBrain gives up at a file that is torn.       *)
Load ==
    /\ brain = "crashed"
    /\ IF \E f \in ToSet(Files) : file[f] = Torn
       THEN brain' = "refused" /\ UNCHANGED <<paths, engrams, context>>
       ELSE /\ brain' = "up"
            /\ paths' = LoadPathwayMemory
            /\ engrams' = LoadEngramMemory
            /\ context' \in LoadWorkingMemory
    /\ UNCHANGED <<caller, saving, file, prompts, decaying, upkeep>>

Next ==
    \/ \E c \in Caller : \/ ProcessInput(c) \/ Learn(c) \/ StrengthenRoute(c)
                         \/ Recall(c) \/ Link(c) \/ Store(c)
    \/ DecayPathways \/ DecayEngrams \/ Clear \/ Save \/ SaveFile \/ Crash \/ Load

Spec == Init /\ [][Next]_vars

-----------------------------------------------------------------------------
(* Resonate counts, in the lists of the concepts it is given, how often an *)
(* engram comes up.  Whatever was stored, pruned, decayed, saved and       *)
(* loaded, that is the number of concepts they share, for the engrams that *)
(* exist, and zero for those that do not; TotalEngrams is their number,    *)
(* and each pathway is found under its source exactly once.                *)
RECURSIVE Matches(_, _)
Matches(heard, e) ==
    IF heard = {} THEN 0
    ELSE LET c == CHOOSE x \in heard : TRUE
         IN  engrams.listed[c][e] + Matches(heard \ {c}, e)

ResonanceIsExact ==
    /\ \A heard \in SUBSET Concept, e \in ID :
         Matches(heard, e) = IF e \in engrams.known THEN Cardinality(heard \intersect e) ELSE 0
    /\ engrams.total = Cardinality(engrams.known)
    /\ \A k \in Key : paths.listed[k] = IF k \in paths.known THEN 1 ELSE 0
=============================================================================
