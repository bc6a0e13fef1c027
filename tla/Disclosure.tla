----------------------------- MODULE Disclosure -----------------------------
(***************************************************************************)
(* identity/disclosure.go: membership proofs and the ProofManager.  A hash *)
(* is the tuple of what was hashed, so that equal hashes have equal        *)
(* contents.  Element 0 is the empty string, whose hash also pads the tree *)
(* to a power of two.  An ID is what GenerateID hashes: the element (by    *)
(* way of the nonce) and the second.  Existence and range proofs take the  *)
(* same way through Sign, AddProof, VerifyProof and RevokeProof and carry  *)
(* only commitments.                                                       *)
(***************************************************************************)
EXTENDS Integers, Sequences, FiniteSets, SequencesExt

CONSTANTS Element,    \* members of sets; 0 is the empty string
          MaxSet,     \* bound: members of a set
          MaxProofs,  \* bound: proofs added
          MaxLog,     \* bound: verifications
          MaxTime,    \* bound: the clock
          Validity    \* how long a proof is valid; 0: no end

VARIABLES proofs,  \* pm.Proofs, as a set of records with their IDs
          log,     \* pm.VerificationLog
          today    \* time.Now().Unix()

vars == <<proofs, log, today>>

Init == proofs = {} /\ log = <<>> /\ today = 1

-----------------------------------------------------------------------------
Leaf(e) == <<e>>
Node(left, right) == <<left, right>>

RECURSIVE PowerOfTwo(_, _)
PowerOfTwo(n, len) == IF n < len THEN PowerOfTwo(2 * n, len) ELSE n

Padded(set) ==
  [i \in 1 .. PowerOfTwo(1, Len(set)) |-> Leaf(IF i <= Len(set) THEN set[i] ELSE 0)]

NextLevel(level) == [i \in 1 .. Len(level) \div 2 |-> Node(level[2*i - 1], level[2*i])]

(* Mutant: the sides are exchanged.                                        *)
SiblingExchanged(level, i) ==
  IF i % 2 = 0 THEN [hash |-> level[i + 2], right |-> FALSE] ELSE [hash |-> level[i], right |-> TRUE]

(* The sibling of the index i, counted from 0, and whether it is to the    *)
(* right.                                                                  *)
Sibling(level, i) ==
  IF i % 2 = 0 THEN [hash |-> level[i + 2], right |-> TRUE] ELSE [hash |-> level[i], right |-> FALSE]

(* computeMerkleProof: the root and the path of the index.                 *)
RECURSIVE MerkleProof(_, _)
MerkleProof(level, i) ==
  IF Len(level) = 1 THEN [root |-> level[1], path |-> <<>>]
  ELSE LET up == MerkleProof(NextLevel(level), i \div 2)
       IN  [up EXCEPT !.path = <<Sibling(level, i)>> \o @]

VerifyMerkleProof(leaf, p) ==
  LET Step(s, hash) == IF s.right THEN Node(hash, s.hash) ELSE Node(s.hash, hash)
  IN  FoldLeft(LAMBDA hash, s : Step(s, hash), leaf, p.path) = p.root

-----------------------------------------------------------------------------
FirstIndex(set, e) == CHOOSE i \in DOMAIN set : set[i] = e /\ \A j \in 1 .. i - 1 : set[j] # e

(* CreateMembershipProof, signed, and AddProof, which a second proof of    *)
(* the same element in the same second replaces.                           *)
AddMembershipProof(set, e) ==
  /\ Cardinality(proofs) < MaxProofs
  /\ \E i \in DOMAIN set : set[i] = e
  /\ LET id == <<e, today>>
         p == [id |-> id, element |-> e, revoked |-> FALSE,
               until |-> IF Validity = 0 THEN 0 ELSE today + Validity,
               proof |-> MerkleProof(Padded(set), FirstIndex(set, e) - 1)]
     IN  /\ \A q \in proofs : q.id # id => Len(log) < MaxLog
         /\ proofs' = {q \in proofs : q.id # id} \cup {p}
  /\ UNCHANGED <<log, today>>

IsValid(p) == ~p.revoked /\ (p.until > 0 => today <= p.until)

VerifyProof(p) ==
  /\ Len(log) < MaxLog
  /\ log' = Append(log, [id |-> p.id, result |-> IsValid(p)])
  /\ UNCHANGED <<proofs, today>>

(* By the prover.                                                          *)
RevokeProof(p) ==
  /\ proofs' = (proofs \ {p}) \cup {[p EXCEPT !.revoked = TRUE]}
  /\ UNCHANGED <<log, today>>

Tick ==
  /\ today < MaxTime
  /\ today' = today + 1
  /\ UNCHANGED <<proofs, log>>

Sets == UNION {[1 .. n -> Element] : n \in 1 .. MaxSet}

Next ==
  \/ \E set \in Sets, e \in Element : AddMembershipProof(set, e)
  \/ \E p \in proofs : VerifyProof(p) \/ RevokeProof(p)
  \/ Tick

Spec == Init /\ [][Next]_vars

-----------------------------------------------------------------------------
(* A stored membership proof leads from the hash of its element to its     *)
(* root, and from the hash of no other element, for sets of every length   *)
(* up to the bound, padded or not, with or without repeated members.       *)
MembershipIsSound ==
  \A p \in proofs : \A e \in Element : VerifyMerkleProof(Leaf(e), p.proof) <=> e = p.element
=============================================================================
