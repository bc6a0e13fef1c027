---------------------------- MODULE KeyRotation ----------------------------
(***************************************************************************)
(* identity/rotation.go: the chain of continuity proofs that moves a fork  *)
(* from one key to the next.  A KeyRotationManager holds the current       *)
(* address, the history of proofs and at most one pending time-lock        *)
(* recovery.  Every operation runs under krm.mu, so each is one action; a  *)
(* call that returns an error changes nothing and is a stuttering step.    *)
(*                                                                         *)
(* A key is identified with its address.  Signatures are symbolic: a       *)
(* signature records its signer and the digest it was made over, and       *)
(* recovering the public key from it yields the signer exactly when the    *)
(* digest is the signed one.  A digest is what the code hashes: the JSON   *)
(* of the proof, which may or may not contain the old signature, and the   *)
(* bytes appended to it.  Grace periods are left out: only the two clock   *)
(* predicates of a proof read them, and nothing calls those.               *)
(***************************************************************************)
EXTENDS Integers, Sequences, TLAPS

CONSTANTS Address,          \* addresses of the keys in play
          Genesis,          \* the address the manager is created with
          ForkID,           \* krm.ForkID
          GuardianLists,    \* lists SetupSocialRecovery is called with
          Reasons,          \* KeyRotationReason, without "recovery"
          TimeLockDuration, \* krm.TimeLockDuration
          MaxRotations,     \* bound: proofs in the history
          MaxTime,          \* bound: the clock
          NoSig,            \* the nil signature
          None              \* the nil pointer

RotationRecovery == "recovery"

(* The signed fields of a proof; "recovery" stands for RecoveryProof.      *)
TimeLockProof == [initiatedAt : Nat, lockDuration : Nat]

Body == [old : Address, new : Address, forkID : {ForkID}, number : Nat,
         reason : Reasons \cup {RotationRecovery}, at : Nat,
         recovery : TimeLockProof \cup {None}]

Digest(body, inJson, appended) == <<body, inJson, appended>>

OldSignature == [signer : Address, digest : Body \X {NoSig} \X {NoSig}]
NewSignature ==
  [signer : Address, digest : Body \X {NoSig} \X (OldSignature \cup {NoSig})]

ContinuityProof == [body : Body, oldSig : OldSignature \cup {NoSig},
                    newSig : NewSignature \cup {NoSig}]

PendingRecovery == [newAddress : Address, initiatedAt : Nat, canComplete : Nat]

ASSUME KeyRotationAssumption ==
  /\ Genesis \in Address
  /\ RotationRecovery \notin Reasons
  /\ TimeLockDuration \in Nat
  /\ MaxRotations \in Nat
  /\ MaxTime \in Nat
  /\ None \notin PendingRecovery
  /\ None \notin TimeLockProof
  /\ NoSig \notin OldSignature
  /\ NoSig \notin NewSignature

VARIABLES currentAddress,   \* krm.CurrentAddress
          history,          \* krm.RotationHistory
          pending,          \* krm.PendingRecovery
          guardians,        \* krm.SocialRecoveryGuardians
          threshold,        \* krm.SocialRecoveryThreshold
          now               \* time.Now().Unix()

vars == <<currentAddress, history, pending, guardians, threshold, now>>

-----------------------------------------------------------------------------
(* Signing and verifying a proof.                                          *)

Sign(key, digest) == [signer |-> key, digest |-> digest]

(* SigToPub followed by the comparison with the expected address.          *)
SignedBy(sig, digest, address) == sig.signer = address /\ sig.digest = digest

SignWithOldKey(p, key) ==
  [body |-> p.body, oldSig |-> Sign(key, Digest(p.body, NoSig, NoSig)),
   newSig |-> NoSig]

SignWithNewKey(p, key) ==
  [p EXCEPT !.newSig = Sign(key, Digest(p.body, NoSig, p.oldSig))]

(* The old signature stays in the JSON here, and nothing is appended.      *)
VerifyNewKeyOnly(p) ==
  /\ p.newSig # NoSig
  /\ p.body.recovery # None
  /\ SignedBy(p.newSig, Digest(p.body, p.oldSig, NoSig), p.body.new)

VerifyBothKeys(p) ==
  /\ p.oldSig # NoSig
  /\ p.newSig # NoSig
  /\ SignedBy(p.oldSig, Digest(p.body, NoSig, NoSig), p.body.old)
  /\ SignedBy(p.newSig, Digest(p.body, NoSig, p.oldSig), p.body.new)

Verify(p) == IF p.body.reason = RotationRecovery THEN VerifyNewKeyOnly(p)
                                                 ELSE VerifyBothKeys(p)

Unsigned(body) == [body |-> body, oldSig |-> NoSig, newSig |-> NoSig]

-----------------------------------------------------------------------------
Init ==
  /\ currentAddress = Genesis
  /\ history = <<>>
  /\ pending = None
  /\ guardians = <<>>
  /\ threshold = 0
  /\ now = 0

(* Room in the history for one more proof, and for the pending recovery's. *)
RoomToRotate ==
  Len(history) + (IF pending = None THEN 0 ELSE 1) < MaxRotations

(* What Rotate leaves in krm.PendingRecovery: the code never touches it.   *)
PendingAfterRotate == pending

RotationProof(old, new, reason) ==
  LET body == [old |-> old, new |-> new, forkID |-> ForkID,
               number |-> Len(history) + 1, reason |-> reason, at |-> now,
               recovery |-> None]
  IN  SignWithNewKey(SignWithOldKey(Unsigned(body), old), new)

(* A rotation with reason "recovery" fails its own verification, which     *)
(* asks for a recovery proof, and leaves the manager as it was.            *)
Rotate(old, new, reason) ==
  /\ RoomToRotate
  /\ old = currentAddress
  /\ Verify(RotationProof(old, new, reason))
  /\ currentAddress' = new
  /\ history' = Append(history, RotationProof(old, new, reason))
  /\ pending' = PendingAfterRotate
  /\ UNCHANGED <<guardians, threshold, now>>

SetupSocialRecovery(list, t) ==
  /\ t <= Len(list)
  /\ t >= 1
  /\ guardians' = list
  /\ threshold' = t
  /\ UNCHANGED <<currentAddress, history, pending, now>>

NewPendingRecovery(new) == [newAddress |-> new, initiatedAt |-> now,
                            canComplete |-> now + TimeLockDuration]

InitiateTimeLockRecovery(new) ==
  /\ RoomToRotate
  /\ pending = None
  /\ pending' = NewPendingRecovery(new)
  /\ UNCHANGED <<currentAddress, history, guardians, threshold, now>>

(* Mutant: the proof is built after CurrentAddress was overwritten.        *)
LinkToNewKey(new) == new

(* The address the recovery's proof continues from: the current one at     *)
(* completion, not at initiation.                                          *)
RecoveredFrom(new) == currentAddress

RecoveryRotationProof(new) ==
  LET body == [old |-> RecoveredFrom(new), new |-> new, forkID |-> ForkID,
               number |-> Len(history) + 1, reason |-> RotationRecovery,
               at |-> now,
               recovery |-> [initiatedAt |-> pending.initiatedAt,
                             lockDuration |-> TimeLockDuration]]
  IN  SignWithNewKey(Unsigned(body), new)

(* Mutant: completion does not look at the clock.                          *)
TimeLockIgnored == TRUE

TimeLockExpired == now >= pending.canComplete

CompleteTimeLockRecovery(new) ==
  /\ pending # None
  /\ new = pending.newAddress
  /\ TimeLockExpired
  /\ currentAddress' = new
  /\ history' = Append(history, RecoveryRotationProof(new))
  /\ pending' = None
  /\ UNCHANGED <<guardians, threshold, now>>

(* The wall clock, read by the operations above.                           *)
Tick ==
  /\ now < MaxTime
  /\ now' = now + 1
  /\ UNCHANGED <<currentAddress, history, pending, guardians, threshold>>

Next ==
  \/ \E old, new \in Address, reason \in Reasons \cup {RotationRecovery} :
        Rotate(old, new, reason)
  \/ \E list \in GuardianLists : \E t \in 0 .. Len(list) + 1 :
        SetupSocialRecovery(list, t)
  \/ \E new \in Address : InitiateTimeLockRecovery(new)
  \/ \E new \in Address : CompleteTimeLockRecovery(new)
  \/ Tick

Spec == Init /\ [][Next]_vars

-----------------------------------------------------------------------------
(* VerifyChain(genesis) returns nil: the loop over the history, written    *)
(* out, with the address expected before the i-th proof.                   *)
AddressBefore(i) == IF i = 1 THEN Genesis ELSE history[i - 1].body.new

VerifyChain ==
  /\ \A i \in 1 .. Len(history) :
        /\ history[i].body.number = i
        /\ history[i].body.old = AddressBefore(i)
        /\ history[i].body.forkID = ForkID
        /\ Verify(history[i])
  /\ currentAddress = AddressBefore(Len(history) + 1)

-----------------------------------------------------------------------------
TypeOK ==
  /\ currentAddress \in Address
  /\ history \in Seq(ContinuityProof)
  /\ pending \in PendingRecovery \cup {None}
  /\ guardians \in GuardianLists \cup {<<>>}
  /\ threshold \in Nat
  /\ now \in Nat

(* Whatever rotations and recoveries interleave, VerifyChain called with   *)
(* the genesis address accepts the history: a rotation made while a        *)
(* time-lock recovery is pending does not leave the recovery's proof       *)
(* linked to a key that is no longer the current one.                      *)
ChainVerifies == VerifyChain

(* Nobody becomes the current key without the previous key's signature     *)
(* unless the whole time lock ran between the initiation and the           *)
(* completion recorded in the proof, also when the holder of the current   *)
(* key changed in between.                                                 *)
TakeoverWaitsForTimeLock ==
  \A i \in 1 .. Len(history) :
     \/ history[i].oldSig # NoSig /\ history[i].oldSig.signer = AddressBefore(i)
     \/ /\ history[i].body.recovery # None
        /\ history[i].body.at >= history[i].body.recovery.initiatedAt
                                   + history[i].body.recovery.lockDuration

(* A pending recovery ends only by its completion, in favour of the        *)
(* address it was initiated for: rotating the current key neither cancels  *)
(* nor restarts it (the code has no way to cancel one).                    *)
PendingEndsInTakeover ==
  [][pending # None /\ pending' # pending =>
        /\ pending' = None
        /\ currentAddress' = pending.newAddress
        /\ Len(history') = Len(history) + 1]_vars

-----------------------------------------------------------------------------
(* Proofs, for every set of keys, every time lock and every bound: the     *)
(* types, the chain of continuity proofs, and the time lock of a takeover. *)

(* The proof Rotate builds is well formed and carries both signatures, of  *)
(* the keys it names: SignWithNewKey signs what SignWithOldKey left.       *)
LEMMA RotationProofType ==
  ASSUME TypeOK,
         NEW old \in Address, NEW new \in Address,
         NEW reason \in Reasons \cup {RotationRecovery}
  PROVE  LET p == RotationProof(old, new, reason)
         IN  /\ p \in ContinuityProof
             /\ p.body.old = old /\ p.body.new = new
             /\ p.body.number = Len(history) + 1
             /\ p.body.forkID = ForkID
             /\ p.oldSig # NoSig /\ p.oldSig.signer = old
<1> DEFINE body == [old |-> old, new |-> new, forkID |-> ForkID,
                    number |-> Len(history) + 1, reason |-> reason, at |-> now,
                    recovery |-> None]
           osig == [signer |-> old, digest |-> <<body, NoSig, NoSig>>]
           nsig == [signer |-> new, digest |-> <<body, NoSig, osig>>]
<1>1. body \in Body
  BY DEF Body, TypeOK
<1>2. osig \in OldSignature
  BY <1>1 DEF OldSignature
<1>3. nsig \in NewSignature
  BY <1>1, <1>2 DEF NewSignature
<1> HIDE DEF body
<1>4. SignWithOldKey(Unsigned(body), old)
        = [body |-> body, oldSig |-> osig, newSig |-> NoSig]
  BY DEF SignWithOldKey, Unsigned, Sign, Digest
<1>5. RotationProof(old, new, reason)
        = SignWithNewKey(SignWithOldKey(Unsigned(body), old), new)
  BY DEF RotationProof, body
<1>6. RotationProof(old, new, reason)
        = [body |-> body, oldSig |-> osig, newSig |-> nsig]
  BY <1>4, <1>5 DEF SignWithNewKey, Sign, Digest
<1> HIDE DEF osig, nsig
<1>7. RotationProof(old, new, reason) \in ContinuityProof
  BY <1>1, <1>2, <1>3, <1>6 DEF ContinuityProof
<1>8. osig # NoSig
  BY <1>2, KeyRotationAssumption
<1>9. QED
  BY <1>6, <1>7, <1>8 DEF body, osig

(* The proof a completed time-lock recovery appends is well formed, passes *)
(* Verify with the new key's signature alone, and records the lock.        *)
LEMMA RecoveryProofVerifies ==
  ASSUME TypeOK, pending # None, NEW new \in Address
  PROVE  LET p == RecoveryRotationProof(new)
         IN  /\ p \in ContinuityProof
             /\ p.body.old = currentAddress /\ p.body.new = new
             /\ p.body.number = Len(history) + 1
             /\ p.body.forkID = ForkID
             /\ p.body.at = now
             /\ p.body.recovery # None
             /\ p.body.recovery.initiatedAt = pending.initiatedAt
             /\ p.body.recovery.lockDuration = TimeLockDuration
             /\ Verify(p)
<1> DEFINE lock == [initiatedAt |-> pending.initiatedAt,
                    lockDuration |-> TimeLockDuration]
           body == [old |-> currentAddress, new |-> new, forkID |-> ForkID,
                    number |-> Len(history) + 1, reason |-> RotationRecovery,
                    at |-> now, recovery |-> lock]
           nsig == [signer |-> new, digest |-> <<body, NoSig, NoSig>>]
<1>1. lock \in TimeLockProof
  BY KeyRotationAssumption DEF TimeLockProof, TypeOK, PendingRecovery
<1>2. lock # None
  BY <1>1, KeyRotationAssumption
<1> HIDE DEF lock
<1>3. body \in Body
  BY <1>1 DEF Body, TypeOK
<1>4. body.reason = RotationRecovery /\ body.recovery = lock /\ body.new = new
  OBVIOUS
<1>5. nsig \in NewSignature
  BY <1>3 DEF NewSignature
<1>6. RecoveryRotationProof(new)
        = [body |-> body, oldSig |-> NoSig, newSig |-> nsig]
  BY DEF RecoveryRotationProof, SignWithNewKey, Unsigned, Sign, Digest, lock,
         RecoveredFrom
<1> HIDE DEF body
<1>7. nsig.signer = new /\ nsig.digest = <<body, NoSig, NoSig>>
  OBVIOUS
<1> HIDE DEF nsig
<1>8. RecoveryRotationProof(new) \in ContinuityProof
  BY <1>3, <1>5, <1>6 DEF ContinuityProof
<1>9. nsig # NoSig
  BY <1>5, KeyRotationAssumption
<1>10. Verify(RecoveryRotationProof(new))
  BY <1>2, <1>4, <1>6, <1>7, <1>9
     DEF Verify, VerifyNewKeyOnly, SignedBy, Digest
<1>11. QED
  BY <1>2, <1>6, <1>8, <1>10 DEF body, lock

-----------------------------------------------------------------------------
(* Every operation of the manager keeps the state well typed.              *)
THEOREM TypeCorrect == Spec => []TypeOK
<1>1. Init => TypeOK
  BY KeyRotationAssumption DEF Init, TypeOK
<1>2. TypeOK /\ [Next]_vars => TypeOK'
  <2> SUFFICES ASSUME TypeOK, [Next]_vars PROVE TypeOK'
    OBVIOUS
  <2> USE DEF TypeOK
  <2>1. ASSUME NEW old \in Address, NEW new \in Address,
               NEW reason \in Reasons \cup {RotationRecovery},
               Rotate(old, new, reason)
        PROVE  TypeOK'
    <3>1. RotationProof(old, new, reason) \in ContinuityProof
      BY RotationProofType
    <3>2. QED
      BY <2>1, <3>1 DEF Rotate, PendingAfterRotate
  <2>2. ASSUME NEW list \in GuardianLists, NEW t \in 0 .. Len(list) + 1,
               SetupSocialRecovery(list, t)
        PROVE  TypeOK'
    <3>1. t \in Nat
      BY <2>2 DEF SetupSocialRecovery
    <3>2. QED
      BY <2>2, <3>1 DEF SetupSocialRecovery
  <2>3. ASSUME NEW new \in Address, InitiateTimeLockRecovery(new)
        PROVE  TypeOK'
    BY <2>3, KeyRotationAssumption
       DEF InitiateTimeLockRecovery, NewPendingRecovery, PendingRecovery
  <2>4. ASSUME NEW new \in Address, CompleteTimeLockRecovery(new)
        PROVE  TypeOK'
    <3>1. RecoveryRotationProof(new) \in ContinuityProof
      BY <2>4, RecoveryProofVerifies DEF CompleteTimeLockRecovery
    <3>2. QED
      BY <2>4, <3>1 DEF CompleteTimeLockRecovery
  <2>5. CASE Tick
    BY <2>5 DEF Tick
  <2>6. CASE UNCHANGED vars
    BY <2>6 DEF vars
  <2>7. QED
    BY <2>1, <2>2, <2>3, <2>4, <2>5, <2>6 DEF Next
<1>3. QED
  BY <1>1, <1>2, PTL DEF Spec

-----------------------------------------------------------------------------
(* Appending a verified proof that continues from the current address to a *)
(* history VerifyChain accepts gives a history VerifyChain accepts.        *)
LEMMA AppendExtendsChain ==
  ASSUME TypeOK, VerifyChain, NEW p \in ContinuityProof,
         p.body.old = currentAddress, p.body.number = Len(history) + 1,
         p.body.forkID = ForkID, Verify(p),
         history' = Append(history, p), currentAddress' = p.body.new
  PROVE  VerifyChain'
<1>1. Len(history') = Len(history) + 1 /\ Len(history) \in Nat
  BY DEF TypeOK
<1>2. history'[Len(history) + 1] = p
  BY DEF TypeOK
<1>3. \A i \in 1 .. Len(history) : history'[i] = history[i]
  BY DEF TypeOK
<1>4. ASSUME NEW i \in 1 .. Len(history')
      PROVE  /\ history'[i].body.number = i
             /\ history'[i].body.old = AddressBefore(i)'
             /\ history'[i].body.forkID = ForkID
             /\ Verify(history'[i])
  <2>1. CASE i \in 1 .. Len(history)
    <3>1. AddressBefore(i)' = AddressBefore(i)
      BY <1>1, <1>3, <2>1 DEF AddressBefore
    <3>2. QED
      BY <1>3, <2>1, <3>1 DEF VerifyChain
  <2>2. CASE i = Len(history) + 1
    <3>1. AddressBefore(i)' = AddressBefore(i)
      BY <1>1, <1>3, <2>2 DEF AddressBefore
    <3>2. AddressBefore(i) = currentAddress
      BY <2>2 DEF VerifyChain
    <3>3. QED
      BY <1>2, <2>2, <3>1, <3>2
  <2>3. QED
    BY <1>1, <2>1, <2>2
<1>6. currentAddress' = IF Len(history') + 1 = 1 THEN Genesis
                        ELSE history'[Len(history') + 1 - 1].body.new
  BY <1>1, <1>2
<1>7. QED
  BY <1>4, <1>6 DEF VerifyChain, AddressBefore

(* VerifyChain(genesis) accepts the history in every reachable state.      *)
THEOREM ChainAlwaysVerifies == Spec => []ChainVerifies
<1>1. Init => ChainVerifies
  BY DEF Init, ChainVerifies, VerifyChain, AddressBefore
<1>2. TypeOK /\ ChainVerifies /\ [Next]_vars => ChainVerifies'
  <2> SUFFICES ASSUME TypeOK, VerifyChain, [Next]_vars PROVE VerifyChain'
    BY DEF ChainVerifies
  <2>1. ASSUME NEW old \in Address, NEW new \in Address,
               NEW reason \in Reasons \cup {RotationRecovery},
               Rotate(old, new, reason)
        PROVE  VerifyChain'
    <3> DEFINE p == RotationProof(old, new, reason)
    <3>1. /\ p \in ContinuityProof
          /\ p.body.old = old /\ p.body.new = new
          /\ p.body.number = Len(history) + 1
          /\ p.body.forkID = ForkID
      BY RotationProofType
    <3>2. /\ old = currentAddress /\ Verify(p)
          /\ history' = Append(history, p) /\ currentAddress' = new
      BY <2>1 DEF Rotate
    <3> HIDE DEF p
    <3>3. QED
      BY <3>1, <3>2, AppendExtendsChain
  <2>2. ASSUME NEW new \in Address, CompleteTimeLockRecovery(new)
        PROVE  VerifyChain'
    <3> DEFINE p == RecoveryRotationProof(new)
    <3>1. /\ p \in ContinuityProof
          /\ p.body.old = currentAddress /\ p.body.new = new
          /\ p.body.number = Len(history) + 1
          /\ p.body.forkID = ForkID
          /\ Verify(p)
      BY <2>2, RecoveryProofVerifies DEF CompleteTimeLockRecovery
    <3>2. history' = Append(history, p) /\ currentAddress' = new
      BY <2>2 DEF CompleteTimeLockRecovery
    <3> HIDE DEF p
    <3>3. QED
      BY <3>1, <3>2, AppendExtendsChain
  <2>3. ASSUME UNCHANGED <<history, currentAddress>>
        PROVE  VerifyChain'
    BY <2>3 DEF VerifyChain, AddressBefore
  <2>4. QED
    BY <2>1, <2>2, <2>3
       DEF Next, SetupSocialRecovery, InitiateTimeLockRecovery, Tick, vars
<1>3. QED
  BY <1>1, <1>2, TypeCorrect, PTL DEF Spec

-----------------------------------------------------------------------------
(* The strengthening the time lock needs: a pending recovery completes     *)
(* exactly one lock after its initiation, and the history links addresses. *)
LockInv ==
  /\ pending # None => pending.canComplete
                        = pending.initiatedAt + TimeLockDuration
  /\ TakeoverWaitsForTimeLock

(* Nobody takes the fork over without the previous key's signature before  *)
(* the time lock of the recovery has run out.                              *)
THEOREM TakeoverAlwaysWaits == Spec => []TakeoverWaitsForTimeLock
<1>1. Init => LockInv
  BY DEF Init, LockInv, TakeoverWaitsForTimeLock
<1>2. TypeOK /\ VerifyChain /\ LockInv /\ [Next]_vars => LockInv'
  <2> SUFFICES ASSUME TypeOK, VerifyChain, LockInv, [Next]_vars
               PROVE  LockInv'
    OBVIOUS
  <2>1. ASSUME NEW p \in ContinuityProof, history' = Append(history, p),
               \/ p.oldSig # NoSig /\ p.oldSig.signer = currentAddress
               \/ /\ p.body.recovery # None
                  /\ p.body.at >= p.body.recovery.initiatedAt
                                    + p.body.recovery.lockDuration
        PROVE  TakeoverWaitsForTimeLock'
    <3>1. Len(history') = Len(history) + 1 /\ Len(history) \in Nat
      BY <2>1 DEF TypeOK
    <3>2. history'[Len(history) + 1] = p
      BY <2>1 DEF TypeOK
    <3>3. \A i \in 1 .. Len(history) : history'[i] = history[i]
      BY <2>1 DEF TypeOK
    <3>4. \A i \in 1 .. Len(history) + 1 : AddressBefore(i)' = AddressBefore(i)
      BY <3>1, <3>3 DEF AddressBefore
    <3>5. AddressBefore(Len(history) + 1) = currentAddress
      BY DEF VerifyChain
    <3> SUFFICES ASSUME NEW i \in 1 .. Len(history')
                 PROVE  \/ /\ history'[i].oldSig # NoSig
                           /\ history'[i].oldSig.signer = AddressBefore(i)'
                        \/ /\ history'[i].body.recovery # None
                           /\ history'[i].body.at
                                >= history'[i].body.recovery.initiatedAt
                                   + history'[i].body.recovery.lockDuration
      BY DEF TakeoverWaitsForTimeLock
    <3>6. CASE i \in 1 .. Len(history)
      BY <3>1, <3>3, <3>4, <3>6 DEF LockInv, TakeoverWaitsForTimeLock
    <3>7. CASE i = Len(history) + 1
      BY <2>1, <3>1, <3>2, <3>4, <3>5, <3>7
    <3>8. QED
      BY <3>1, <3>6, <3>7
  <2>2. ASSUME NEW old \in Address, NEW new \in Address,
               NEW reason \in Reasons \cup {RotationRecovery},
               Rotate(old, new, reason)
        PROVE  LockInv'
    <3>1. /\ RotationProof(old, new, reason) \in ContinuityProof
          /\ RotationProof(old, new, reason).oldSig # NoSig
          /\ RotationProof(old, new, reason).oldSig.signer = old
      BY RotationProofType
    <3>2. TakeoverWaitsForTimeLock'
      BY <2>1, <2>2, <3>1 DEF Rotate
    <3>3. QED
      BY <2>2, <3>2 DEF LockInv, Rotate, PendingAfterRotate
  <2>3. ASSUME NEW new \in Address, CompleteTimeLockRecovery(new)
        PROVE  LockInv'
    <3> DEFINE p == RecoveryRotationProof(new)
    <3>1. /\ p \in ContinuityProof
          /\ p.body.at = now
          /\ p.body.recovery # None
          /\ p.body.recovery.initiatedAt = pending.initiatedAt
          /\ p.body.recovery.lockDuration = TimeLockDuration
      BY <2>3, RecoveryProofVerifies DEF CompleteTimeLockRecovery
    <3>2. /\ history' = Append(history, p)
          /\ pending # None /\ now >= pending.canComplete /\ pending' = None
      BY <2>3 DEF CompleteTimeLockRecovery, TimeLockExpired
    <3> HIDE DEF p
    <3>3. p.body.at >= p.body.recovery.initiatedAt + p.body.recovery.lockDuration
      BY <3>1, <3>2 DEF LockInv
    <3>4. TakeoverWaitsForTimeLock'
      BY <2>1, <3>1, <3>2, <3>3
    <3>5. QED
      BY <3>2, <3>4 DEF LockInv
  <2>4. ASSUME NEW new \in Address, InitiateTimeLockRecovery(new)
        PROVE  LockInv'
    BY <2>4 DEF InitiateTimeLockRecovery, NewPendingRecovery, LockInv,
                TakeoverWaitsForTimeLock, AddressBefore
  <2>5. ASSUME UNCHANGED <<history, pending>>
        PROVE  LockInv'
    BY <2>5 DEF LockInv, TakeoverWaitsForTimeLock, AddressBefore
  <2>6. QED
    BY <2>2, <2>3, <2>4, <2>5 DEF Next, SetupSocialRecovery, Tick, vars
<1>3. LockInv => TakeoverWaitsForTimeLock
  BY DEF LockInv
<1>4. QED
  BY <1>1, <1>2, <1>3, TypeCorrect, ChainAlwaysVerifies, PTL
     DEF Spec, ChainVerifies

(* A pending time-lock recovery leaves the manager only when it completes  *)
(* for the address it names; Rotate never clears or replaces it.           *)
THEOREM PendingAlwaysEndsInTakeover == Spec => PendingEndsInTakeover
<1>1. TypeOK /\ [Next]_vars =>
        [pending # None /\ pending' # pending =>
            /\ pending' = None
            /\ currentAddress' = pending.newAddress
            /\ Len(history') = Len(history) + 1]_vars
  <2> SUFFICES ASSUME TypeOK, [Next]_vars, pending # None, pending' # pending
               PROVE  /\ pending' = None
                      /\ currentAddress' = pending.newAddress
                      /\ Len(history') = Len(history) + 1
    OBVIOUS
  <2>1. ~ UNCHANGED vars
    BY DEF vars
  <2>2. PICK new \in Address : CompleteTimeLockRecovery(new)
    BY <2>1 DEF Next, Rotate, PendingAfterRotate, SetupSocialRecovery,
                InitiateTimeLockRecovery, Tick
  <2>3. RecoveryRotationProof(new) \in ContinuityProof
    BY RecoveryProofVerifies
  <2>4. QED
    BY <2>2, <2>3 DEF CompleteTimeLockRecovery, TypeOK
<1>2. QED
  BY <1>1, TypeCorrect, PTL DEF Spec, PendingEndsInTakeover
=============================================================================
