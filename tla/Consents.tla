------------------------------ MODULE Consents ------------------------------
(***************************************************************************)
(* identity/consent.go: the ConsentManager of one owner.  Its operations   *)
(* that write run under cm.mu and are one action each.  HasConsent runs    *)
(* under the read lock, so that several run at once, and yet its Verify    *)
(* takes the signature out of the shared consent while it marshals it and  *)
(* puts back what it took: those are four steps here.                      *)
(*                                                                         *)
(* An ID is what GenerateID hashes: grantee, type and second.  A signature *)
(* is the JSON it was made over, of which only the number of uses left     *)
(* changes while a consent can still be used.  Streams and reasons are     *)
(* left out.                                                               *)
(***************************************************************************)
EXTENDS Integers, Sequences, Functions

CONSTANTS Grantee,    \* addresses
          Type,       \* consent types
          Reader,     \* callers of HasConsent
          Uses,       \* values of MaxUses; 0: no limit
          Terms,      \* durations of consents; 0: no expiry
          MaxTime,    \* bound: the clock
          MaxLog,     \* bound: uses
          MaxGrants,  \* bound: grants
          None        \* the nil pointer, the nil signature

ID == Grantee \X Type \X (0 .. MaxTime)

VARIABLES consents,   \* cm.Consents
          byGrantee,  \* cm.ByGrantee
          usageLog,   \* cm.UsageLog
          readers,    \* the HasConsent calls that hold the read lock
          clock       \* time.Now().Unix()

vars == <<consents, byGrantee, usageLog, readers, clock>>

Idle == [pc |-> "idle"]

Init ==
  /\ consents = [id \in ID |-> None]
  /\ byGrantee = [g \in Grantee |-> <<>>]
  /\ usageLog = <<>>
  /\ readers = [r \in Reader |-> Idle]
  /\ clock = 0

Known(id) == consents[id] # None
Unlocked == \A r \in Reader : readers[r] = Idle

-----------------------------------------------------------------------------
(* Sign: a signature is over the uses left at the time.                    *)
Signed(c) == [c EXCEPT !.signature = c.remaining]

NewConsent(uses, term) ==
  [maxUses |-> uses, remaining |-> uses, revoked |-> FALSE,
   expiry |-> IF term = 0 THEN 0 ELSE clock + term, signature |-> None]

(* The owner signs, which also makes the consent of an ID granted twice in *)
(* a second a new one: unrevoked and with all its uses.                    *)
Grant(g, t, uses, term) ==
  LET id == <<g, t, clock>>
  IN  /\ Unlocked
      /\ FoldFunction(LAMBDA ids, n : Len(ids) + n, 0, byGrantee) < MaxGrants
      /\ consents' = [consents EXCEPT ![id] = Signed(NewConsent(uses, term))]
      /\ byGrantee' = [byGrantee EXCEPT ![g] = Append(@, id)]
      /\ UNCHANGED <<usageLog, readers, clock>>

Revoke(id) ==
  /\ Unlocked
  /\ Known(id)
  /\ consents' = [consents EXCEPT ![id].revoked = TRUE]
  /\ UNCHANGED <<byGrantee, usageLog, readers, clock>>

Expired(c) == c.expiry > 0 /\ c.expiry < clock
UsedUp(c) == c.maxUses > 0 /\ c.remaining <= 0

(* The checks of IsValid before Verify.                                    *)
Usable(c) == ~c.revoked /\ ~Expired(c) /\ ~UsedUp(c)

(* The signature recovers to the grantor only over what was signed.        *)
Verifies(c, signature) == signature # None /\ signature = c.remaining

(* Mutant: a use is not counted.                                           *)
UseUncounted(c) == c

Used(c) == IF c.maxUses > 0 THEN [c EXCEPT !.remaining = @ - 1] ELSE c

(* A proof names a consent and an operation and is signed by somebody.     *)
ValidateAndUse(id, signer, operation) ==
  /\ Unlocked
  /\ Len(usageLog) < MaxLog
  /\ Known(id)
  /\ signer = id[1]
  /\ Usable(consents[id])
  /\ Verifies(consents[id], consents[id].signature)
  /\ operation = id[2]
  /\ consents' = [consents EXCEPT ![id] = Used(consents[id])]
  /\ usageLog' = Append(usageLog, <<id, signer>>)
  /\ UNCHANGED <<byGrantee, readers, clock>>

-----------------------------------------------------------------------------
(* HasConsent: i is the place in the grantee's list.                       *)
BeginHasConsent(r, g, operation) ==
  /\ readers[r] = Idle
  /\ byGrantee[g] # <<>>
  /\ readers' = [readers EXCEPT ![r] = [pc |-> "check", grantee |-> g,
                                        type |-> operation, i |-> 1, sig |-> None]]
  /\ UNCHANGED <<consents, byGrantee, usageLog, clock>>

IdOf(me) == byGrantee[me.grantee][me.i]

(* What follows a consent that does not do: the next one, or false.        *)
Following(me) ==
  IF me.i < Len(byGrantee[me.grantee]) THEN [me EXCEPT !.pc = "check", !.i = @ + 1]
                                       ELSE Idle

(* IsValid up to the test of the length of the signature.                  *)
ReaderChecks(r) ==
  LET me == readers[r]
      c == consents[IdOf(me)]
  IN  /\ me.pc = "check"
      /\ readers' = [readers EXCEPT ![r] =
                       IF Usable(c) /\ c.signature # None THEN [me EXCEPT !.pc = "load"]
                                                          ELSE Following(me)]
      /\ UNCHANGED <<consents, byGrantee, usageLog, clock>>

ReaderLoads(r) ==
  LET me == readers[r]
  IN  /\ me.pc = "load"
      /\ readers' = [readers EXCEPT ![r] =
                       [me EXCEPT !.pc = "clear", !.sig = consents[IdOf(me)].signature]]
      /\ UNCHANGED <<consents, byGrantee, usageLog, clock>>

(* A slice is three words: the load may mix those of two writes, and an    *)
(* empty slice with the length of a full one faults, which ends the        *)
(* process and everything under the lock with it.                          *)
ReaderTears(r) ==
  LET me == readers[r]
  IN  /\ me.pc = "load"
      /\ \E other \in Reader \ {r} :
           /\ readers[other].pc \in {"clear", "restore"}
           /\ IdOf(readers[other]) = IdOf(me)
      /\ readers' = [readers EXCEPT ![r] = [pc |-> "faulted"]]
      /\ UNCHANGED <<consents, byGrantee, usageLog, clock>>

ReaderClears(r) ==
  LET me == readers[r]
  IN  /\ me.pc = "clear"
      /\ consents' = [consents EXCEPT ![IdOf(me)].signature = None]
      /\ readers' = [readers EXCEPT ![r].pc = "restore"]
      /\ UNCHANGED <<byGrantee, usageLog, clock>>

ReaderRestores(r) ==
  LET me == readers[r]
      id == IdOf(me)
  IN  /\ me.pc = "restore"
      /\ consents' = [consents EXCEPT ![id].signature = me.sig]
      /\ readers' = [readers EXCEPT ![r] =
                       IF Verifies(consents[id], me.sig) /\ id[2] = me.type
                       THEN Idle ELSE Following(me)]
      /\ UNCHANGED <<byGrantee, usageLog, clock>>

Tick ==
  /\ clock < MaxTime
  /\ clock' = clock + 1
  /\ UNCHANGED <<consents, byGrantee, usageLog, readers>>

Next ==
  \/ \E g \in Grantee, t \in Type, u \in Uses, term \in Terms : Grant(g, t, u, term)
  \/ \E id \in ID : Revoke(id)
  \/ \E id \in ID, g \in Grantee, t \in Type : ValidateAndUse(id, g, t)
  \/ \E r \in Reader, g \in Grantee, t \in Type : BeginHasConsent(r, g, t)
  \/ \E r \in Reader : ReaderChecks(r) \/ ReaderLoads(r) \/ ReaderTears(r)
                         \/ ReaderClears(r) \/ ReaderRestores(r)
  \/ Tick

Spec == Init /\ [][Next]_vars

-----------------------------------------------------------------------------
(* Every manager of consents keeps the promise of Permits: whatever owner, *)
(* grantees and readers do, a use is logged only for the grantee, while    *)
(* the consent is neither revoked nor expired, and not more often than     *)
(* MaxUses; signatures that readers take out and put back never add a use. *)
LiveIDs == {id \in ID : Known(id) /\ ~consents[id].revoked /\ ~Expired(consents[id])}

Left(id) == IF ~Known(id) THEN 0
            ELSE IF consents[id].maxUses = 0 THEN None ELSE consents[id].remaining

Promise == INSTANCE Permits WITH
             Permit <- ID, Holder <- Grantee, MaxIssue <- MaxLog, Unlimited <- None,
             live <- LiveIDs, holder <- [id \in ID |-> id[1]],
             left <- [id \in ID |-> Left(id)], spent <- usageLog

ImplementsPermits == Promise!Spec
=============================================================================
