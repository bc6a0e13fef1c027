------------------------------ MODULE Recovery ------------------------------
(***************************************************************************)
(* identity/recovery.go: the recoveries a RecoveryManager keeps, by time   *)
(* lock, by guardians and by recovery phrase, and the change of owner that *)
(* executing one brings.  The manager's operations run under rm.mu; Cancel *)
(* is called on the recovery GetRecovery returned.                         *)
(*                                                                         *)
(* A recovery's ID is the hash of its source, its target and the second it *)
(* was initiated in; the method is not part of it.  The target's signature *)
(* is left out: nothing verifies it after SignWithTarget.  So are          *)
(* checkpoints: json.Marshal refuses their map with [32]byte keys, so      *)
(* CreateCheckpoint returns an error before it stores one.                 *)
(***************************************************************************)
EXTENDS Integers, FiniteSets

CONSTANTS Address,          \* addresses that may own the fork
          InitialOwner,     \* the owner the manager is created with
          Guardian,         \* addresses that may be guardians
          TimeLockDuration, \* rm.TimeLockDuration
          MaxRecoveries,    \* bound: recoveries in the map
          MaxTime,          \* bound: the clock
          None              \* an absent recovery

ASSUME RecoveryAssumption ==
  /\ InitialOwner \in Address
  /\ IsFiniteSet(Guardian)
  /\ {TimeLockDuration, MaxRecoveries, MaxTime} \subseteq Nat

VARIABLES owner,      \* rm.Owner
          recoveries, \* rm.Recoveries
          guardians,  \* rm.Guardians
          quorum,     \* rm.GuardianQuorum
          phraseSet,  \* rm.RecoveryPhraseHash != nil
          now         \* time.Now().Unix()

vars == <<owner, recoveries, guardians, quorum, phraseSet, now>>

-----------------------------------------------------------------------------
(* GenerateID.                                                             *)
ID == [source : Address, target : Address, at : 0 .. MaxTime]

RecoveryRecord ==
  [state : {"pending", "approved", "executed", "cancelled"},
   method : {"timelock", "social", "phrase"}, expiry : Nat, required : Nat,
   guardians : SUBSET Guardian, approvals : SUBSET Guardian,
   completedAt : Nat]

Known == {id \in ID : recoveries[id] # None}

Init ==
  /\ owner = InitialOwner
  /\ recoveries = [id \in ID |-> None]
  /\ guardians = {}
  /\ quorum = 0
  /\ phraseSet = FALSE
  /\ now = 0

SetupSocialRecovery(gs, q) ==
  /\ q <= Cardinality(gs)
  /\ q >= 1
  /\ guardians' = gs
  /\ quorum' = q
  /\ UNCHANGED <<owner, recoveries, phraseSet, now>>

SetRecoveryPhrase ==
  /\ phraseSet' = TRUE
  /\ UNCHANGED <<owner, recoveries, guardians, quorum, now>>

-----------------------------------------------------------------------------
(* Initiating: the new recovery replaces one of the same ID, whatever its  *)
(* state.                                                                  *)
Store(target, r) ==
  LET id == [source |-> owner, target |-> target, at |-> now]
  IN  /\ Cardinality(Known \cup {id}) <= MaxRecoveries
      /\ recoveries' = [recoveries EXCEPT ![id] = r]
      /\ UNCHANGED <<owner, guardians, quorum, phraseSet, now>>

(* TimeLockExpiry, zero for the other methods.                             *)
Expiry(method) == IF method = "timelock" THEN now + TimeLockDuration ELSE 0

Fresh(state, method, required, gs) ==
  [state |-> state, method |-> method, required |-> required, guardians |-> gs,
   expiry |-> Expiry(method), approvals |-> {}, completedAt |-> 0]

InitiateTimeLockRecovery(target) ==
  Store(target, Fresh("pending", "timelock", 0, {}))

InitiateSocialRecovery(target) ==
  /\ guardians # {}
  /\ Store(target, Fresh("pending", "social", quorum, guardians))

(* The phrase given is the configured one; another is refused.             *)
InitiatePhraseRecovery(target) ==
  /\ phraseSet
  /\ Store(target, Fresh("approved", "phrase", 0, {}))

-----------------------------------------------------------------------------
(* Mutant: the guardian is looked up in the manager's current list.        *)
ListedNow(r, g) == g \in guardians

(* The guardians of the recovery are those of its initiation.              *)
ListedAtInitiation(r, g) == g \in r.guardians

(* Mutant: one approval is enough.                                         *)
AnyApproval(r, approvals) == approvals # {}

QuorumReached(r, approvals) == Cardinality(approvals) >= r.required

(* AddApproval does not look at the recovery's state before it approves.   *)
AddGuardianApproval(id, g) ==
  LET r == recoveries[id]
      approvals == r.approvals \cup {g}
  IN  /\ r # None
      /\ r.method = "social"
      /\ ListedAtInitiation(r, g)
      /\ g \notin r.approvals
      /\ recoveries' = [recoveries EXCEPT
            ![id].approvals = approvals,
            ![id].state = IF QuorumReached(r, approvals) THEN "approved" ELSE @]
      /\ UNCHANGED <<owner, guardians, quorum, phraseSet, now>>

(* Mutant: the time lock is not awaited.                                   *)
CanExecuteNow(r) ==
  /\ r.state \notin {"executed", "cancelled"}
  /\ CASE r.method = "timelock" -> TRUE
       [] r.method = "social"   -> Cardinality(r.approvals) >= r.required
       [] r.method = "phrase"   -> r.state \in {"approved", "pending"}

CanExecute(r) ==
  /\ r.state \notin {"executed", "cancelled"}
  /\ CASE r.method = "timelock" -> now >= r.expiry
       [] r.method = "social"   -> Cardinality(r.approvals) >= r.required
       [] r.method = "phrase"   -> r.state \in {"approved", "pending"}

(* The owner becomes the target of the recovery even when the owner it was *)
(* initiated for has been replaced since.                                  *)
ExecuteRecovery(id) ==
  /\ recoveries[id] # None
  /\ CanExecute(recoveries[id])
  /\ recoveries' = [recoveries EXCEPT ![id].state = "executed",
                                      ![id].completedAt = now]
  /\ owner' = id.target
  /\ UNCHANGED <<guardians, quorum, phraseSet, now>>

(* Cancel does not look at the recovery's state either.                    *)
Cancel(id) ==
  /\ recoveries[id] # None
  /\ recoveries' = [recoveries EXCEPT ![id].state = "cancelled",
                                      ![id].completedAt = now]
  /\ UNCHANGED <<owner, guardians, quorum, phraseSet, now>>

Tick ==
  /\ now < MaxTime
  /\ now' = now + 1
  /\ UNCHANGED <<owner, recoveries, guardians, quorum, phraseSet>>

Next ==
  \/ \E gs \in SUBSET Guardian : \E q \in 0 .. Cardinality(gs) + 1 :
        SetupSocialRecovery(gs, q)
  \/ SetRecoveryPhrase
  \/ \E target \in Address :
        \/ InitiateTimeLockRecovery(target)
        \/ InitiateSocialRecovery(target)
        \/ InitiatePhraseRecovery(target)
  \/ \E id \in ID :
        \/ \E g \in Guardian : AddGuardianApproval(id, g)
        \/ ExecuteRecovery(id)
        \/ Cancel(id)
  \/ Tick

Spec == Init /\ [][Next]_vars

-----------------------------------------------------------------------------
TypeOK ==
  /\ owner \in Address
  /\ recoveries \in [ID -> RecoveryRecord \cup {None}]
  /\ guardians \subseteq Guardian
  /\ quorum \in Nat
  /\ phraseSet \in BOOLEAN
  /\ now \in Nat

(* An executed recovery was entitled to move the owner: a time lock had    *)
(* run out when it was executed, and a quorum of guardians had approved,   *)
(* all of them guardians when it was initiated, although the manager's     *)
(* guardians and quorum may have been replaced in between.                 *)
ExecutedWasEntitled ==
  \A id \in Known :
     LET r == recoveries[id]
     IN  r.state = "executed" =>
           /\ r.method = "timelock" => r.completedAt >= id.at + TimeLockDuration
           /\ r.method = "social" => /\ Cardinality(r.approvals) >= r.required
                                     /\ r.approvals \subseteq r.guardians

(* A social recovery counts as approved only once its quorum is reached,   *)
(* by guardians it was initiated with, in whatever order approvals,        *)
(* cancellation and new configurations come.                               *)
ApprovedHasQuorum ==
  \A id \in Known :
     LET r == recoveries[id]
     IN  r.method = "social" /\ r.state = "approved" =>
           /\ r.required >= 1
           /\ Cardinality(r.approvals \cap r.guardians) >= r.required

(* The two together, on the states a recovery can be in: what may move the *)
(* owner, or has moved it, was entitled to.                                *)
RecoveriesAreEntitled == TypeOK /\ ExecutedWasEntitled /\ ApprovedHasQuorum

Replaced(id) == recoveries'[id].approvals = {} /\ id.at = now

(* A recovery that needs every one of its guardians cannot be executed a   *)
(* second time: once all have approved, nothing takes it out of "executed" *)
(* into a state CanExecute accepts, short of a new recovery of the same    *)
(* ID in the same second.                                                  *)
UnanimousExecutesOnce ==
  [][\A id \in Known :
        LET r == recoveries[id]
        IN  /\ r.method = "social"
            /\ r.state = "executed"
            /\ r.required = Cardinality(r.guardians)
            => recoveries'[id].state \in {"executed", "cancelled"}
               \/ Replaced(id)]_vars

(* What CanExecute says with "already executed" and "cancelled": a         *)
(* recovery that has been executed or cancelled is never executable again. *)
TerminalStatesAreFinal ==
  [][\A id \in Known :
        recoveries[id].state \in {"executed", "cancelled"} =>
           recoveries'[id].state \in {"executed", "cancelled"}
           \/ Replaced(id)]_vars
=============================================================================
