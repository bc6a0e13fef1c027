-------------------------- MODULE UnifiedIdentity --------------------------
(***************************************************************************)
(* identity/stateless_bridge.go, identity/identity.go and the files of     *)
(* identity/passkey.go: the operations that create, load, convert and      *)
(* migrate an identity in one data directory, with a process that may stop *)
(* between any two of their system calls, and the unlock paths of          *)
(* cmd/main.go and cmd/ipc.go that call them.                              *)
(*                                                                         *)
(* os.WriteFile truncates the file and then writes it.  A file is absent,  *)
(* empty (which no loader accepts) or complete.  Every operation reads and *)
(* decides first and then has the list of system calls it will make.  An   *)
(* identity is what its key is derived from: the secret and the salt.      *)
(* The hardware gates are stubs that are never available, so none of them  *)
(* takes part in a derivation.                                             *)
(***************************************************************************)
EXTENDS Integers, Sequences

CONSTANTS Secret,      \* user secrets of at least 8 bytes
          Passkey,     \* passkey secrets
          UnlockPath,  \* the unlock paths of cmd that are used
          Library,     \* callers of New and MigrateToStateless
          MaxFresh,    \* bound: salts and keys generated
          MaxFaults,   \* bound: reads of the salt that fail although it is there
          None, Empty  \* an absent file, a truncated file

Caller == UnlockPath \cup Library
File == {"chain_salt.anchor", "identity.key", "identity.enc", "identity.migrated"}

VARIABLES disk,      \* the contents of each file
          calls,     \* the operation each caller is in
          unlocked,  \* app.unlocked
          derived,   \* the stateless identities handed out
          kept,      \* the key New returned last and no import was to replace
          fresh,     \* salts and keys generated so far
          faults     \* failed reads so far

vars == <<disk, calls, unlocked, derived, kept, fresh, faults>>

Idle == [op |-> "none"]

Init ==
  /\ disk = [f \in File |-> None]
  /\ calls = [p \in Caller |-> Idle]
  /\ unlocked = FALSE
  /\ derived = {}
  /\ kept = None
  /\ fresh = 0
  /\ faults = 0

WriteFile(f, contents) == <<[do |-> "set", file |-> f, to |-> Empty],
                            [do |-> "set", file |-> f, to |-> contents]>>
RemoveFile(f) == <<[do |-> "set", file |-> f, to |-> None]>>

Exists(f) == disk[f] # None
Complete(f) == disk[f] \notin {None, Empty}

DeriveIdentity(secret, salt) == <<secret, salt>>
EncryptPrivateKey(k, passkey) == <<k, passkey>>
Decrypts(enc, passkey) == enc[2] = passkey

-----------------------------------------------------------------------------
(* newStatelessIdentity.  Whatever the error, a salt that cannot be read   *)
(* is replaced by a new one; an empty one is too short to derive from.     *)
BeginUnlock(p, secret) ==
  /\ calls[p] = Idle
  /\ ~unlocked
  /\ \/ /\ Complete("chain_salt.anchor")
        /\ calls' = [calls EXCEPT ![p] =
                       [op |-> "unlock", todo |-> <<>>,
                        result |-> DeriveIdentity(secret, disk["chain_salt.anchor"])]]
        /\ UNCHANGED <<fresh, faults>>
     \/ /\ fresh < MaxFresh
        /\ Exists("chain_salt.anchor") => faults < MaxFaults
        /\ faults' = IF Exists("chain_salt.anchor") THEN faults + 1 ELSE faults
        /\ fresh' = fresh + 1
        /\ calls' = [calls EXCEPT ![p] =
                       [op |-> "unlock", todo |-> WriteFile("chain_salt.anchor", fresh'),
                        result |-> DeriveIdentity(secret, fresh')]]
  /\ UNCHANGED <<disk, unlocked, derived, kept>>

(* The HTTP and IPC handlers hold app.mu from the test of app.unlocked to  *)
(* the end and are one caller; --test-passkey takes it only at the end.    *)
EndUnlock(p) ==
  /\ calls[p].op = "unlock"
  /\ calls[p].todo = <<>>
  /\ derived' = derived \cup {calls[p].result}
  /\ unlocked' = TRUE
  /\ calls' = [calls EXCEPT ![p] = Idle]
  /\ UNCHANGED <<disk, kept, fresh, faults>>

-----------------------------------------------------------------------------
(* Mutant: the plain key is removed before the encrypted one is saved.     *)
EncryptedAfterRemoval(k, passkey) ==
  RemoveFile("identity.key") \o WriteFile("identity.enc", EncryptPrivateKey(k, passkey))

(* The encrypted key is saved before the plain one is removed.             *)
Encrypted(k, passkey) ==
  WriteFile("identity.enc", EncryptPrivateKey(k, passkey)) \o RemoveFile("identity.key")

Saved(k, passkey) == IF passkey = None THEN WriteFile("identity.key", k)
                     ELSE WriteFile("identity.enc", EncryptPrivateKey(k, passkey))

(* New: the key it returns and the system calls it makes.                  *)
ImportPlan(passkey) ==
  [key |-> fresh + 1,
   todo |-> IF passkey = None THEN WriteFile("identity.key", fresh + 1)
                              ELSE Encrypted(fresh + 1, passkey)]

LoadEncrypted(passkey) == [key |-> disk["identity.enc"][1], todo |-> <<>>]

LoadPlain(passkey) ==
  [key |-> disk["identity.key"],
   todo |-> IF passkey = None THEN <<>> ELSE Encrypted(disk["identity.key"], passkey)]

Generated(passkey) == [key |-> fresh + 1, todo |-> Saved(fresh + 1, passkey)]

(* The plans New may follow with a passkey: none where it returns an error.*)
Plans(passkey) ==
  IF Exists("identity.enc")
  THEN IF Complete("identity.enc") /\ Decrypts(disk["identity.enc"], passkey)
       THEN {LoadEncrypted(passkey)} ELSE {}
  ELSE IF Exists("identity.key")
       THEN IF Complete("identity.key") THEN {LoadPlain(passkey)} ELSE {}
       ELSE {Generated(passkey)}

New(p, passkey, import) ==
  /\ calls[p] = Idle
  /\ fresh < MaxFresh
  /\ \E plan \in IF import THEN {ImportPlan(passkey)} ELSE Plans(passkey) :
       /\ calls' = [calls EXCEPT ![p] = [op |-> "new", todo |-> plan.todo,
                                         result |-> plan.key]]
       /\ fresh' = IF plan.key > fresh THEN plan.key ELSE fresh
  /\ kept' = IF import THEN None ELSE kept
  /\ UNCHANGED <<disk, unlocked, derived, faults>>

EndNew(p) ==
  /\ calls[p].op = "new"
  /\ calls[p].todo = <<>>
  /\ kept' = calls[p].result
  /\ calls' = [calls EXCEPT ![p] = Idle]
  /\ UNCHANGED <<disk, unlocked, derived, fresh, faults>>

(* MigrateToStateless: New, then the marker, then the salt.                *)
MigrateToStateless(p, passkey, secret) ==
  /\ calls[p] = Idle
  /\ fresh + 1 < MaxFresh
  /\ \E plan \in Plans(passkey) :
       LET salt == fresh + 2
       IN  calls' = [calls EXCEPT ![p] =
                       [op |-> "migrate", result |-> DeriveIdentity(secret, salt),
                        todo |-> plan.todo \o WriteFile("identity.migrated", salt)
                                   \o WriteFile("chain_salt.anchor", salt)]]
  /\ fresh' = fresh + 2
  /\ UNCHANGED <<disk, unlocked, derived, kept, faults>>

EndMigrate(p) ==
  /\ calls[p].op = "migrate"
  /\ calls[p].todo = <<>>
  /\ derived' = derived \cup {calls[p].result}
  /\ calls' = [calls EXCEPT ![p] = Idle]
  /\ UNCHANGED <<disk, unlocked, kept, fresh, faults>>

-----------------------------------------------------------------------------
SystemCall(p) ==
  /\ calls[p] # Idle
  /\ calls[p].todo # <<>>
  /\ LET s == Head(calls[p].todo)
     IN  disk' = [disk EXCEPT ![s.file] = s.to]
  /\ calls' = [calls EXCEPT ![p].todo = Tail(@)]
  /\ UNCHANGED <<unlocked, derived, kept, fresh, faults>>

(* A failed write ends the operation with an error; os.Remove's error is   *)
(* ignored.                                                                *)
SystemCallFails(p) ==
  /\ calls[p] # Idle
  /\ calls[p].todo # <<>>
  /\ calls' = [calls EXCEPT ![p] = IF Head(calls[p].todo).to = None
                                   THEN [@ EXCEPT !.todo = Tail(@)] ELSE Idle]
  /\ UNCHANGED <<disk, unlocked, derived, kept, fresh, faults>>

Crash ==
  /\ calls' = [p \in Caller |-> Idle]
  /\ unlocked' = FALSE
  /\ UNCHANGED <<disk, derived, kept, fresh, faults>>

Next ==
  \/ \E p \in UnlockPath : (\E s \in Secret : BeginUnlock(p, s)) \/ EndUnlock(p)
  \/ \E p \in Library :
       \/ \E k \in Passkey \cup {None}, import \in BOOLEAN : New(p, k, import)
       \/ \E k \in Passkey \cup {None}, s \in Secret : MigrateToStateless(p, k, s)
       \/ EndNew(p) \/ EndMigrate(p)
  \/ \E p \in Caller : SystemCall(p) \/ SystemCallFails(p)
  \/ Crash

Spec == Init /\ [][Next]_vars

-----------------------------------------------------------------------------
(* The key New has returned, and which no import was asked to replace, is  *)
(* in a complete file, plain or encrypted, whatever conversion, migration, *)
(* failed write or crash follows.                                          *)
KeyIsKept ==
  kept # None =>
    \/ disk["identity.key"] = kept
    \/ Complete("identity.enc") /\ disk["identity.enc"][1] = kept
=============================================================================
