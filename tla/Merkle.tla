------------------------------- MODULE Merkle -------------------------------
(***************************************************************************)
(* The Merkle tree of one epoch's rewards, built by rewards/epoch.go and   *)
(* checked by contracts/RevenuePool.sol.                                   *)
(*                                                                         *)
(* Keccak is symbolic and collision free.  Both sides order the two hashes *)
(* of a pair before they hash it, so an inner node is the unordered pair   *)
(* of its children.  Leaves carry the address they pay as a natural        *)
(* number, in the order of the addresses' hexadecimal form.                *)
(***************************************************************************)
EXTENDS Naturals, Sequences, SequencesExt

EmptyRoot == <<>>    \* bytes32(0)

LeafHash(address, amount) == <<"leaf", address, amount>>
NodeHash(left, right) == <<"node", {left, right}>>

(* One level up: pairs are hashed, an odd last hash is carried over.       *)
NextLevel(hashes) ==
  [i \in 1 .. (Len(hashes) + 1) \div 2 |->
     IF 2 * i <= Len(hashes) THEN NodeHash(hashes[2 * i - 1], hashes[2 * i])
                             ELSE hashes[2 * i - 1]]

(* Level n of the tree over the given leaves; the top one has one hash and *)
(* is its own next level.                                                  *)
Level(leaves) ==
  LET level[n \in 0 .. Len(leaves)] ==
        IF n = 0
        THEN [i \in 1 .. Len(leaves) |->
                LeafHash(leaves[i].address, leaves[i].amount)]
        ELSE NextLevel(level[n - 1])
  IN  level

(* sort.Slice by address, which may leave equal addresses in any order.    *)
Sorted(leaves) == SortSeq(leaves, LAMBDA l, m : l.address < m.address)

ComputeMerkleRoot(leaves) ==
  IF leaves = <<>> THEN EmptyRoot ELSE Level(Sorted(leaves))[Len(leaves)][1]

(* Position at level n of the path that starts at position i.              *)
PathIndex(i, n) == ((i - 1) \div 2^n) + 1

(* Mutant: an odd last hash is paired with itself in the proof.            *)
SiblingOrSelf(level, i) ==
  IF i % 2 = 0 THEN <<level[i - 1]>>
  ELSE IF i < Len(level) THEN <<level[i + 1]>> ELSE <<level[i]>>

(* The other hash of the pair, none for an odd last hash.                  *)
Sibling(level, i) ==
  IF i % 2 = 0 THEN <<level[i - 1]>>
  ELSE IF i < Len(level) THEN <<level[i + 1]>> ELSE <<>>

(* The leaf ComputeMerkleProof proves: the first one for the address.      *)
TargetIndex(leaves, address) ==
  CHOOSE i \in 1 .. Len(leaves) :
     /\ leaves[i].address = address
     /\ \A j \in 1 .. i - 1 : leaves[j].address # address

ComputeMerkleProof(leaves, address) ==
  LET sorted == Sorted(leaves)
      level == Level(sorted)
      i == TargetIndex(sorted, address)
  IN  FlattenSeq([n \in 1 .. Len(leaves) |->
                    Sibling(level[n - 1], PathIndex(i, n - 1))])

(* _verify of the contract.                                                *)
VerifyProof(proof, root, leaf) ==
  FoldLeft(NodeHash, leaf, proof) = root
=============================================================================
