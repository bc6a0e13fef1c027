----------------------------- MODULE MCIdentity -----------------------------
(***************************************************************************)
(* The parts of the identity package that hold their state apart from each *)
(* other, for TLC: a behaviour is one of the part that MCInit chooses.     *)
(* The rotation of keys is extended; of its three keys k1 is the genesis   *)
(* key, and one of its two guardian lists is empty.                        *)
(***************************************************************************)
EXTENDS KeyRotation, FiniteSets, TLC

CONSTANTS k1, k2, k3,
          Part, Empty, Grantee, Reader, Party, Path, Library, Secret, Passkey,
          SessionUser, Writer

VARIABLES part,
          consents, byGrantee, usageLog, readers, clock,
          delegations, chains, tracking, crashed, second,
          identities, current, autoLockAt, lockTimeout, callers, time,
          disk, calls, unlocked, derived, kept, fresh, faults,
          layers, placement, lookups, writers, overflow, adds,
          proofs, log, today

MCAddress == {k1, k2, k3}
MCGuardianLists == {<<>>, <<k2, k3>>}
MCReasons == {"scheduled", "compromise"}

Consent == INSTANCE Consents WITH
             Type <- {"read"}, Uses <- {0, 2}, Terms <- {1},
             MaxTime <- 2, MaxLog <- 2, MaxGrants <- 2

Delegation == INSTANCE Delegations WITH
                Depths <- {2}, Untils <- {1}, Hour <- 1, Day <- 2,
                Policies <- {[allowSub |-> TRUE, inherit |-> FALSE, limit |-> <<1, 1>>]},
                MaxTime <- 2, MaxKnown <- 3

Session == INSTANCE Sessions WITH
             Caller <- SessionUser, Default <- 1, Timeouts <- {1, 2}, Lifetime <- 2,
             MaxDerived <- 2, MaxTime <- 3, now <- time

Unified == INSTANCE UnifiedIdentity WITH
             UnlockPath <- Path, MaxFresh <- 3, MaxFaults <- 1

LayerName == {"public", "restricted", "private", "project"}

Config(parent, read, encrypt, inherit) ==
  [parent |-> parent, read |-> read, export |-> FALSE, encrypt |-> encrypt,
   inherit |-> inherit]

InitialLayers ==
  [l \in LayerName |->
     CASE l = "public"     -> Config(None, "public", FALSE, FALSE)
       [] l = "restricted" -> Config("public", "proof", TRUE, TRUE)
       [] l = "private"    -> Config("restricted", "grant", TRUE, TRUE)
       [] l = "project"    -> None]

LayerStore == INSTANCE Layers WITH
                Layer <- LayerName, Initial <- InitialLayers, Stream <- {"stream"},
                Configs <- {Config("private", None, TRUE, TRUE),
                            Config(None, "owner", FALSE, FALSE)},
                MaxAdds <- 1

Proof == INSTANCE Disclosure WITH
           Element <- {0, 1, 2}, MaxSet <- 5, MaxProofs <- 1, MaxLog <- 1,
           MaxTime <- 3, Validity <- 1

-----------------------------------------------------------------------------
ofRotation == vars
ofConsents == <<consents, byGrantee, usageLog, readers, clock>>
ofDelegations == <<delegations, chains, tracking, crashed, second>>
ofSessions == <<identities, current, autoLockAt, lockTimeout, callers, time>>
ofFiles == <<disk, calls, unlocked, derived, kept, fresh, faults>>
ofLayers == <<layers, placement, lookups, writers, overflow, adds>>
ofProofs == <<proofs, log, today>>

MCInit ==
  /\ part \in Part
  /\ Init /\ Consent!Init /\ Delegation!Init /\ Session!Init
  /\ Unified!Init /\ LayerStore!Init /\ Proof!Init

(* The parts that do not run.                                              *)
Rest ==
  /\ UNCHANGED part
  /\ part # "rotation" => UNCHANGED ofRotation
  /\ part # "consents" => UNCHANGED ofConsents
  /\ part # "delegations" => UNCHANGED ofDelegations
  /\ part # "sessions" => UNCHANGED ofSessions
  /\ part # "files" => UNCHANGED ofFiles
  /\ part # "layers" => UNCHANGED ofLayers
  /\ part # "proofs" => UNCHANGED ofProofs

MCNext ==
  \/ part = "rotation" /\ Next /\ Rest
  \/ part = "consents" /\ Consent!Next /\ Rest
  \/ part = "delegations" /\ Delegation!Next /\ Rest
  \/ part = "sessions" /\ Session!Next /\ Rest
  \/ part = "files" /\ Unified!Next /\ Rest
  \/ part = "layers" /\ LayerStore!Next /\ Rest
  \/ part = "proofs" /\ Proof!Next /\ Rest

MCSpec ==
  MCInit /\ [][MCNext]_<<part, ofRotation, ofConsents, ofDelegations, ofSessions,
                         ofFiles, ofLayers, ofProofs>>

Symmetry == Permutations(Grantee) \cup Permutations(Reader)

-----------------------------------------------------------------------------
(* Consents implement Permits: see Consents.                               *)
ImplementsPermits == Consent!ImplementsPermits

(* What is derived from a revoked delegation is revoked: see Delegations.  *)
RevocationIsInherited == Delegation!RevocationIsInherited

(* No key outlives its session: see Sessions.                              *)
KeysEndWithSession == Session!KeysEndWithSession

(* A key that was returned is still in a file: see UnifiedIdentity.        *)
KeyIsKept == Unified!KeyIsKept

(* The rules of a layer are those of one moment: see Layers.               *)
RulesAreOfOneMoment == LayerStore!RulesAreOfOneMoment

(* Membership proofs verify for their element only: see Disclosure.        *)
MembershipIsSound == Proof!MembershipIsSound
=============================================================================
