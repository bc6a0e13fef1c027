----------------------------- MODULE ForkState -----------------------------
(***************************************************************************)
(* identity/fork_state.go: the state of a fork, replayed from its genesis  *)
(* and from the signed transitions found on chain.  ApplyTransition checks *)
(* the signature, the fork and the signer's authority, then applies the    *)
(* transition under fs.mu; a rejected transition changes nothing.          *)
(*                                                                         *)
(* Transitions reach ApplyTransition in any order and any number of times: *)
(* the Nonce field is never read, so a step may apply any well-signed      *)
(* transition, repeated ones included.  Transition types that fall through *)
(* to the default case (memory and consent records) change nothing here.   *)
(***************************************************************************)
EXTENDS Integers, Sequences, TLAPS

CONSTANTS Address,        \* addresses that sign transitions
          InitialAddress, \* genesis.InitialAddress
          InitialSalt,    \* genesis.ChainSalt
          Salts,          \* chain salts a recovery may bring
          NoSalt,         \* an absent NewChainSalt
          Configs,        \* recovery configurations the owner may publish
          Epochs,         \* checkpoint epochs
          MaxTime,        \* bound: the clock
          None            \* the nil pointer

RecoveryConfig == [guardians : SUBSET Address, threshold : Nat,
                   timelockEnabled : BOOLEAN, timelockDuration : Nat]

PendingRecoveryState ==
  [newAddress : Address, newSalt : Salts \cup {NoSalt}, initiatedAt : Nat,
   initiatedBy : Address, method : {"timelock", "social"},
   approvals : Seq(Address), canCompleteAt : Nat]

ASSUME ForkStateAssumption ==
  /\ InitialAddress \in Address
  /\ Configs \subseteq RecoveryConfig
  /\ Configs # {}
  /\ MaxTime \in Nat
  /\ None \notin PendingRecoveryState
  /\ NoSalt \notin Salts

VARIABLES currentAddress, \* fs.CurrentAddress
          chainSalt,      \* fs.ChainSalt
          config,         \* fs.RecoveryConfig
          lastCheckpoint, \* fs.LastCheckpoint, by its epoch
          pending,        \* fs.PendingRecovery
          now             \* time.Now().Unix()

vars == <<currentAddress, chainSalt, config, lastCheckpoint, pending, now>>

-----------------------------------------------------------------------------
(* ForkStateFromGenesis, of a genesis signed by its initial address.       *)
Init ==
  /\ currentAddress = InitialAddress
  /\ chainSalt = InitialSalt
  /\ config \in Configs
  /\ lastCheckpoint = None
  /\ pending = None
  /\ now = 0

(* Mutant: the new address of a pending recovery is let through as well.   *)
AuthorizedWithNewAddress(signer, type) ==
  \/ signer = currentAddress
  \/ type = "recovery_approve" /\ signer \in config.guardians
  \/ type = "recovery_initiate" /\ config.timelockEnabled
  \/ type = "recovery_complete" /\ pending # None /\ signer = pending.newAddress

IsAuthorized(signer, type) ==
  \/ signer = currentAddress
  \/ type = "recovery_approve" /\ signer \in config.guardians
  \/ type = "recovery_initiate" /\ config.timelockEnabled

(* A checkpoint replaces the previous one whatever their epochs.           *)
ApplyCheckpoint(signer, epoch) ==
  /\ IsAuthorized(signer, "checkpoint")
  /\ lastCheckpoint' = epoch
  /\ UNCHANGED <<currentAddress, chainSalt, config, pending, now>>

ApplyRecoveryConfig(signer, c) ==
  /\ IsAuthorized(signer, "recovery_config")
  /\ config' = c
  /\ UNCHANGED <<currentAddress, chainSalt, lastCheckpoint, pending, now>>

(* A recovery by guardians carries no completion time of its own: the      *)
(* field keeps the zero it is decoded to until the quorum is reached.      *)
CanCompleteAt(method) ==
  IF method = "timelock" THEN now + config.timelockDuration ELSE 0

(* The new recovery replaces a pending one, approvals included.            *)
ApplyRecoveryInitiate(signer, new, salt, method) ==
  /\ IsAuthorized(signer, "recovery_initiate")
  /\ pending' = [newAddress |-> new, newSalt |-> salt, initiatedAt |-> now,
                 initiatedBy |-> signer, method |-> method,
                 approvals |-> <<>>, canCompleteAt |-> CanCompleteAt(method)]
  /\ UNCHANGED <<currentAddress, chainSalt, config, lastCheckpoint, now>>

NotYetApproved(signer) ==
  \A i \in 1 .. Len(pending.approvals) : pending.approvals[i] # signer

ApplyRecoveryApprove(signer) ==
  /\ IsAuthorized(signer, "recovery_approve")
  /\ pending # None
  /\ signer \in config.guardians
  /\ NotYetApproved(signer)
  /\ LET approvals == Append(pending.approvals, signer)
         quorum    == Len(approvals) >= config.threshold
     IN  pending' = [pending EXCEPT
            !.approvals = approvals,
            !.method = IF quorum THEN "social" ELSE @,
            !.canCompleteAt = IF quorum THEN now ELSE @]
  /\ UNCHANGED <<currentAddress, chainSalt, config, lastCheckpoint, now>>

ApplyRecoveryComplete(signer) ==
  /\ IsAuthorized(signer, "recovery_complete")
  /\ pending # None
  /\ now >= pending.canCompleteAt
  /\ signer = pending.newAddress
  /\ currentAddress' = pending.newAddress
  /\ chainSalt' = IF pending.newSalt # NoSalt THEN pending.newSalt ELSE chainSalt
  /\ pending' = None
  /\ UNCHANGED <<config, lastCheckpoint, now>>

ApplyRecoveryCancel(signer) ==
  /\ IsAuthorized(signer, "recovery_cancel")
  /\ pending # None
  /\ signer = currentAddress
  /\ pending' = None
  /\ UNCHANGED <<currentAddress, chainSalt, config, lastCheckpoint, now>>

Tick ==
  /\ now < MaxTime
  /\ now' = now + 1
  /\ UNCHANGED <<currentAddress, chainSalt, config, lastCheckpoint, pending>>

(* ApplyTransition, by the type of the transition.                         *)
Next ==
  \/ \E s \in Address :
        \/ \E epoch \in Epochs : ApplyCheckpoint(s, epoch)
        \/ \E c \in Configs : ApplyRecoveryConfig(s, c)
        \/ \E new \in Address, salt \in Salts \cup {NoSalt},
              method \in {"timelock", "social"} :
              ApplyRecoveryInitiate(s, new, salt, method)
        \/ ApplyRecoveryApprove(s)
        \/ ApplyRecoveryComplete(s)
        \/ ApplyRecoveryCancel(s)
  \/ Tick

Spec == Init /\ [][Next]_vars

-----------------------------------------------------------------------------
TypeOK ==
  /\ currentAddress \in Address
  /\ chainSalt \in Salts \cup {InitialSalt}
  /\ config \in RecoveryConfig
  /\ lastCheckpoint \in Epochs \cup {None}
  /\ pending \in PendingRecoveryState \cup {None}
  /\ now \in Nat

(* No sequence of transitions, of any signers, in any order and with any   *)
(* repetition, moves the fork to another address: isAuthorized lets only   *)
(* the current address complete a recovery, applyRecoveryComplete lets     *)
(* only the new address complete it, so the two are the same.              *)
OwnerNeverChanges == currentAddress = InitialAddress

(* The approvals of a pending recovery come from different guardians, also *)
(* when an approval is delivered twice, or again after the configuration   *)
(* was replaced: the quorum is never reached by one guardian alone.        *)
ApprovalsAreDistinct ==
  pending # None =>
     \A i, j \in 1 .. Len(pending.approvals) :
        pending.approvals[i] = pending.approvals[j] => i = j

(* The chain salt changes only by a recovery the owner completes towards   *)
(* the owner's own address, and then to the salt that recovery carries.    *)
SaltFollowsOwner ==
  [][chainSalt' # chainSalt =>
        /\ pending # None
        /\ pending.newAddress = InitialAddress
        /\ chainSalt' = pending.newSalt
        /\ pending' = None]_vars

(* CanRecover: the configuration supports a recovery by this method.       *)
CanRecover(method) ==
  IF method = "social" THEN config.guardians # {} /\ config.threshold # 0
                       ELSE config.timelockEnabled /\ config.timelockDuration # 0

(* The pending recovery's time lock is over or its guardians approved it.  *)
RecoveryReady ==
  /\ pending # None
  /\ CanRecover(pending.method)
  /\ now >= pending.canCompleteAt
  /\ \/ pending.method = "timelock"
     \/ Len(pending.approvals) >= config.threshold

(* What applyRecoveryComplete's message "signer must be the new address"   *)
(* says of a recovery that is ready: the new address is who completes it.  *)
NewAddressMayComplete ==
  RecoveryReady => IsAuthorized(pending.newAddress, "recovery_complete")

-----------------------------------------------------------------------------
(* Proofs, for every set of addresses, configurations and salts and every  *)
(* bound on the clock.                                                     *)

(* Every applied transition keeps the fork state well typed.               *)
THEOREM TypeCorrect == Spec => []TypeOK
<1>1. Init => TypeOK
  BY ForkStateAssumption DEF Init, TypeOK
<1>2. TypeOK /\ [Next]_vars => TypeOK'
  <2> SUFFICES ASSUME TypeOK, [Next]_vars PROVE TypeOK'
    OBVIOUS
  <2>1. ASSUME NEW s \in Address, NEW epoch \in Epochs,
               ApplyCheckpoint(s, epoch)
        PROVE  TypeOK'
    BY <2>1 DEF ApplyCheckpoint, TypeOK
  <2>2. ASSUME NEW s \in Address, NEW c \in Configs, ApplyRecoveryConfig(s, c)
        PROVE  TypeOK'
    BY <2>2, ForkStateAssumption DEF ApplyRecoveryConfig, TypeOK
  <2>3. ASSUME NEW s \in Address, NEW new \in Address,
               NEW salt \in Salts \cup {NoSalt},
               NEW method \in {"timelock", "social"},
               ApplyRecoveryInitiate(s, new, salt, method)
        PROVE  TypeOK'
    <3>1. CanCompleteAt(method) \in Nat
      BY DEF CanCompleteAt, TypeOK, RecoveryConfig
    <3>2. pending' \in PendingRecoveryState
      BY <2>3, <3>1 DEF ApplyRecoveryInitiate, PendingRecoveryState, TypeOK
    <3>3. QED
      BY <2>3, <3>2 DEF ApplyRecoveryInitiate, TypeOK
  <2>4. ASSUME NEW s \in Address, ApplyRecoveryApprove(s)
        PROVE  TypeOK'
    <3>1. pending \in PendingRecoveryState
      BY <2>4 DEF ApplyRecoveryApprove, TypeOK
    <3> DEFINE a == Append(pending.approvals, s)
               q == Len(a) >= config.threshold
               m == IF q THEN "social" ELSE pending.method
               c == IF q THEN now ELSE pending.canCompleteAt
    <3>2. a \in Seq(Address)
      BY <3>1 DEF PendingRecoveryState
    <3>3. m \in {"timelock", "social"} /\ c \in Nat
      BY <3>1 DEF PendingRecoveryState, TypeOK
    <3>4. pending' = [pending EXCEPT !.approvals = a, !.method = m,
                                     !.canCompleteAt = c]
      BY <2>4, <3>1 DEF ApplyRecoveryApprove, PendingRecoveryState
    <3> HIDE DEF a, m, c
    <3>5. pending' \in PendingRecoveryState
      BY <3>1, <3>2, <3>3, <3>4 DEF PendingRecoveryState
    <3>6. QED
      BY <2>4, <3>5 DEF ApplyRecoveryApprove, TypeOK
  <2>5. ASSUME NEW s \in Address, ApplyRecoveryComplete(s)
        PROVE  TypeOK'
    BY <2>5 DEF ApplyRecoveryComplete, TypeOK, PendingRecoveryState
  <2>6. ASSUME NEW s \in Address, ApplyRecoveryCancel(s)
        PROVE  TypeOK'
    BY <2>6 DEF ApplyRecoveryCancel, TypeOK
  <2>7. CASE Tick
    BY <2>7 DEF Tick, TypeOK
  <2>8. CASE UNCHANGED vars
    BY <2>8 DEF vars, TypeOK
  <2>9. QED
    BY <2>1, <2>2, <2>3, <2>4, <2>5, <2>6, <2>7, <2>8 DEF Next
<1>3. QED
  BY <1>1, <1>2, PTL DEF Spec

-----------------------------------------------------------------------------
(* Whoever may complete a recovery is the current address, and whoever     *)
(* completes one is the address it moves the fork to.                      *)
LEMMA CompletionKeepsOwner ==
  ASSUME NEW s \in Address, ApplyRecoveryComplete(s)
  PROVE  pending.newAddress = currentAddress /\ currentAddress' = currentAddress
  BY DEF ApplyRecoveryComplete, IsAuthorized

(* The current address of the fork is its genesis address for ever.        *)
THEOREM OwnerIsForever == Spec => []OwnerNeverChanges
<1>1. Init => OwnerNeverChanges
  BY DEF Init, OwnerNeverChanges
<1>2. OwnerNeverChanges /\ [Next]_vars => OwnerNeverChanges'
  <2> SUFFICES ASSUME OwnerNeverChanges, [Next]_vars PROVE OwnerNeverChanges'
    OBVIOUS
  <2>1. ASSUME NEW s \in Address, ApplyRecoveryComplete(s)
        PROVE  currentAddress' = currentAddress
    BY <2>1, CompletionKeepsOwner
  <2>2. currentAddress' = currentAddress
    BY <2>1 DEF Next, ApplyCheckpoint, ApplyRecoveryConfig,
                ApplyRecoveryInitiate, ApplyRecoveryApprove,
                ApplyRecoveryCancel, Tick, vars
  <2>3. QED
    BY <2>2 DEF OwnerNeverChanges
<1>3. QED
  BY <1>1, <1>2, PTL DEF Spec

(* No guardian is counted twice towards the quorum of a recovery.          *)
THEOREM ApprovalsAlwaysDistinct == Spec => []ApprovalsAreDistinct
<1>1. Init => ApprovalsAreDistinct
  BY DEF Init, ApprovalsAreDistinct
<1>2. TypeOK /\ ApprovalsAreDistinct /\ [Next]_vars => ApprovalsAreDistinct'
  <2> SUFFICES ASSUME TypeOK, ApprovalsAreDistinct, [Next]_vars
               PROVE  ApprovalsAreDistinct'
    OBVIOUS
  <2>1. ASSUME NEW s \in Address, NEW new \in Address,
               NEW salt \in Salts \cup {NoSalt},
               NEW method \in {"timelock", "social"},
               ApplyRecoveryInitiate(s, new, salt, method)
        PROVE  ApprovalsAreDistinct'
    <3>1. pending'.approvals = <<>>
      BY <2>1 DEF ApplyRecoveryInitiate
    <3>2. Len(pending'.approvals) = 0
      BY <3>1
    <3>3. QED
      BY <3>2 DEF ApprovalsAreDistinct
  <2>2. ASSUME NEW s \in Address, ApplyRecoveryApprove(s)
        PROVE  ApprovalsAreDistinct'
    <3>1. pending \in PendingRecoveryState
      BY <2>2 DEF ApplyRecoveryApprove, TypeOK
    <3>2. pending.approvals \in Seq(Address)
      BY <3>1 DEF PendingRecoveryState
    <3>3. pending'.approvals = Append(pending.approvals, s)
      BY <2>2, <3>1 DEF ApplyRecoveryApprove, PendingRecoveryState
    <3>4. \A i \in 1 .. Len(pending.approvals) : pending.approvals[i] # s
      BY <2>2 DEF ApplyRecoveryApprove, NotYetApproved
    <3>5. pending # None
      BY <2>2 DEF ApplyRecoveryApprove
    <3>6. QED
      BY <3>2, <3>3, <3>4, <3>5 DEF ApprovalsAreDistinct
  <2>3. ASSUME pending' = pending \/ pending' = None
        PROVE  ApprovalsAreDistinct'
    BY <2>3 DEF ApprovalsAreDistinct
  <2>4. QED
    BY <2>1, <2>2, <2>3 DEF Next, ApplyCheckpoint, ApplyRecoveryConfig,
       ApplyRecoveryComplete, ApplyRecoveryCancel, Tick, vars
<1>3. QED
  BY <1>1, <1>2, TypeCorrect, PTL DEF Spec

(* The chain salt is replaced only when the owner completes a recovery     *)
(* towards the owner's own address.                                        *)
THEOREM SaltAlwaysFollowsOwner == Spec => SaltFollowsOwner
<1>1. OwnerNeverChanges /\ [Next]_vars =>
        [chainSalt' # chainSalt =>
            /\ pending # None
            /\ pending.newAddress = InitialAddress
            /\ chainSalt' = pending.newSalt
            /\ pending' = None]_vars
  <2> SUFFICES ASSUME OwnerNeverChanges, [Next]_vars, chainSalt' # chainSalt
               PROVE  /\ pending # None
                      /\ pending.newAddress = InitialAddress
                      /\ chainSalt' = pending.newSalt
                      /\ pending' = None
    OBVIOUS
  <2>1. PICK s \in Address : ApplyRecoveryComplete(s)
    BY DEF Next, ApplyCheckpoint, ApplyRecoveryConfig, ApplyRecoveryInitiate,
           ApplyRecoveryApprove, ApplyRecoveryCancel, Tick, vars
  <2>2. pending.newAddress = InitialAddress
    BY <2>1, CompletionKeepsOwner DEF OwnerNeverChanges
  <2>3. QED
    BY <2>1, <2>2 DEF ApplyRecoveryComplete
<1>2. QED
  BY <1>1, OwnerIsForever, PTL DEF Spec, SaltFollowsOwner
=============================================================================
