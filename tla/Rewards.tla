------------------------------ MODULE Rewards ------------------------------
(***************************************************************************)
(* The reward flow of cmd/main.go: the epoch manager closes an epoch and   *)
(* calls OnEpochEnd in its own goroutine, which asks the pool client       *)
(* (rewards/pool.go) to send the root and the revenue to the contract;     *)
(* contributors claim with proofs made from the manager's history.         *)
(*                                                                         *)
(* Sending may fail, and is not tried again.  A transaction that was sent  *)
(* is executed later, in the order of the operator's nonces, and may       *)
(* revert; nobody looks at the outcome.  Profits reach the manager through *)
(* AddRevenue and the contract through receive(), independently.           *)
(***************************************************************************)
EXTENDS EpochManager, RevenuePool, TLAPS

CONSTANTS OperatorKey,  \* the account of the pool client's key
          Transfers,    \* amounts sent to the contract
          MaxReceived,  \* bound: what the contract receives
          NoSnapshot    \* no OnEpochEnd call is running

VARIABLES callback,     \* the snapshot OnEpochEnd is running with
          mempool       \* finalizeEpoch transactions sent and not executed

vars == <<contributors, accumulatedRevenue, currentEpoch, history, operator,
          epochRoots, epochTotals, claimed, pendingRevenue, poolEpoch, balance,
          received, callback, mempool>>

chainVars == <<callback, mempool>>

Init ==
  /\ EpochInit
  /\ PoolInit
  /\ callback = NoSnapshot
  /\ mempool = <<>>

(* Storage, challenges and profits, as the manager hears of them.          *)
Observe ==
  /\ \/ \E amount \in Profits : AddRevenue(amount)
     \/ \E r \in Reports : UpdateContributor(r[1], r[2], r[3])
     \/ \E p \in Peer, passed \in BOOLEAN : RecordChallengeResult(p, passed)
  /\ UNCHANGED <<poolVars, chainVars>>

(* The ticker of epochLoop, which is busy while OnEpochEnd runs.           *)
CloseEpoch ==
  /\ callback = NoSnapshot
  /\ \E milliHours \in MilliHours, order \in Orders :
        LET snapshot == Snapshot(milliHours, order)
        IN  /\ FinalizeEpoch(snapshot)
            /\ callback' = snapshot
  /\ UNCHANGED <<poolVars, mempool>>

(* PoolClient.FinalizeEpoch: the root and the whole revenue of the epoch,  *)
(* whatever the leaves add up to.  The epoch's number is not sent.         *)
SubmitEpoch ==
  /\ callback # NoSnapshot
  /\ mempool' = Append(mempool, [root |-> callback.root,
                                 total |-> callback.totalRevenue])
  /\ callback' = NoSnapshot
  /\ UNCHANGED <<epochVars, poolVars>>

(* The nonce, the gas price or the send returned an error: it is logged.   *)
SubmitFails ==
  /\ callback # NoSnapshot
  /\ callback' = NoSnapshot
  /\ UNCHANGED <<epochVars, poolVars, mempool>>

(* The next transaction of the operator is executed, or reverts.           *)
Mine ==
  /\ mempool # <<>>
  /\ LET tx == Head(mempool)
     IN  \/ PoolFinalizeEpoch(OperatorKey, tx.root, tx.total)
         \/ /\ ~CanFinalize(OperatorKey, tx.root, tx.total)
            /\ UNCHANGED poolVars
  /\ mempool' = Tail(mempool)
  /\ UNCHANGED <<epochVars, callback>>

Accounts(snapshot) ==
  {snapshot.leaves[i].address : i \in 1 .. Len(snapshot.leaves)}

(* BuildClaimData with the proof ComputeMerkleProof gives for the account, *)
(* sent for any epoch of the contract.                                     *)
ClaimReward ==
  /\ \E i \in 1 .. Len(history), e \in Epochs :
        LET s == history[i]
        IN  \E a \in Accounts(s) :
              Claim(a, e, s.leaves[TargetIndex(s.leaves, a)].amount,
                    ComputeMerkleProof(s.leaves, a))
  /\ UNCHANGED <<epochVars, chainVars>>

(* Transfers to the contract, and changes of its operator.                 *)
Transact ==
  /\ \/ \E amount \in Transfers :
           /\ balance + SumOf(received) + amount <= MaxReceived
           /\ Receive(amount)
     \/ \E new \in Operators : SetOperator(operator, new)
  /\ UNCHANGED <<epochVars, chainVars>>

Next ==
  \/ Observe
  \/ CloseEpoch
  \/ SubmitEpoch
  \/ SubmitFails
  \/ Mine
  \/ ClaimReward
  \/ Transact

Spec == Init /\ [][Next]_vars

-----------------------------------------------------------------------------
SumLeaves(leaves) ==
  MapThenSumSet(LAMBDA i : leaves[i].amount, DOMAIN leaves)

(* The most three roundings to Mantissa bits can add to an amount.         *)
RoundingSlack(amount) ==
  (amount * (2^Mantissa + 1)^3) \div 2^(3 * Mantissa) - amount

(* The leaves of the root the contract holds for an epoch.                 *)
LeavesOf(e) ==
  history[CHOOSE i \in 1 .. Len(history) : history[i].root = epochRoots[e]].leaves

(* What the contract still has to pay for an epoch.                        *)
Owed(e) ==
  SumLeaves(SelectSeq(LeavesOf(e), LAMBDA l : ~claimed[e][l.address]))

FinalizedEpochs == {e \in Epochs : epochRoots[e] # EmptyRoot}

(* The contract can pay every leaf of every root it accepted, and still    *)
(* holds the revenue it reports as pending, except for what the float      *)
(* arithmetic of ComputeRewards may add to an epoch's leaves; claim itself *)
(* never compares what it pays with epochTotals.                           *)
Solvent ==
  balance + MapThenSumSet(LAMBDA e : RoundingSlack(epochTotals[e]), FinalizedEpochs)
    >= pendingRevenue + MapThenSumSet(Owed, FinalizedEpochs)

EarnedIn(s, a) == SumLeaves(SelectSeq(s.leaves, LAMBDA l : l.address = a))

(* No account is ever paid more than the leaves the manager computed for   *)
(* it, although a root may be stored under another number than its epoch's *)
(* and claims may name any epoch.                                          *)
PaidAtMostEarned ==
  \A a \in Account :
     received[a] <= MapThenSumSet(LAMBDA i : EarnedIn(history[i], a),
                                  1 .. Len(history))

(* The proof ComputeMerkleProof builds for an account of the epoch just    *)
(* closed is one that the contract's _verify accepts against its root,     *)
(* also in trees with an odd number of leaves and when two contributors    *)
(* are paid on one account.                                                *)
ProofsVerify ==
  callback # NoSnapshot =>
     LET s == callback
     IN  \A a \in Accounts(s) :
           VerifyProof(ComputeMerkleProof(s.leaves, a), s.root,
                       LeafHash(a, s.leaves[TargetIndex(s.leaves, a)].amount))

(* What "Epoch %d submitted on-chain" says: an epoch's root is stored      *)
(* under the epoch's number, so that a claim for that number finds it.     *)
RootsKeepTheirEpoch ==
  \A e \in FinalizedEpochs :
     \E i \in 1 .. Len(history) :
        history[i].number = e /\ history[i].root = epochRoots[e]

-----------------------------------------------------------------------------
(* Proofs: what the contract guarantees in the reward flow, for any number *)
(* of epochs, accounts and contributors and whatever the manager submits.  *)

(* The shape of the contract's mappings.                                   *)
PoolShape ==
  /\ epochRoots = [e \in Epochs |-> epochRoots[e]]
  /\ epochTotals = [e \in Epochs |-> epochTotals[e]]
  /\ claimed \in [Epochs -> [Account -> BOOLEAN]]
  /\ received = [a \in Account |-> received[a]]
  /\ poolEpoch \in Epochs

(* Every step of the flow is a transaction of the contract or leaves the   *)
(* contract alone: the manager, the callback and the client only reach it  *)
(* through finalizeEpoch.                                                  *)
LEMMA StepsOfThePool ==
  ASSUME Next
  PROVE  \/ UNCHANGED poolVars
         \/ \E sender, root, total : PoolFinalizeEpoch(sender, root, total)
         \/ \E sender, e, amount, proof :
               e \in Epochs /\ Claim(sender, e, amount, proof)
         \/ \E amount : Receive(amount)
         \/ \E sender, new : SetOperator(sender, new)
<1>1. CASE Observe
  BY <1>1, Zenon DEF Observe
<1>2. CASE CloseEpoch
  BY <1>2, Zenon DEF CloseEpoch
<1>3. CASE SubmitEpoch
  BY <1>3, Zenon DEF SubmitEpoch
<1>4. CASE SubmitFails
  BY <1>4, Zenon DEF SubmitFails
<1>5. CASE Mine
  BY <1>5, Zenon DEF Mine
<1>6. CASE ClaimReward
  BY <1>6, Zenon DEF ClaimReward
<1>7. CASE Transact
  BY <1>7, Zenon DEF Transact
<1> QED
  BY <1>1, <1>2, <1>3, <1>4, <1>5, <1>6, <1>7 DEF Next

LEMMA PoolShapeInvariant == Spec => []PoolShape
<1>1. Init => PoolShape
  BY PoolAssumption DEF Init, PoolInit, PoolShape, Epochs
<1>2. PoolShape /\ [Next]_vars => PoolShape'
  <2> SUFFICES ASSUME PoolShape, Next PROVE PoolShape'
    BY DEF vars, PoolShape, Epochs
  <2>1. CASE UNCHANGED poolVars
    BY <2>1 DEF PoolShape, poolVars, Epochs
  <2>2. ASSUME NEW sender, NEW root, NEW total,
               PoolFinalizeEpoch(sender, root, total)
        PROVE  PoolShape'
    <3>1. epochRoots' = [e \in Epochs |-> epochRoots'[e]]
      BY <2>2 DEF PoolFinalizeEpoch, PoolShape
    <3>2. epochTotals' = [e \in Epochs |-> epochTotals'[e]]
      BY <2>2 DEF PoolFinalizeEpoch, PoolShape
    <3>3. poolEpoch' \in Epochs
      BY <2>2, PoolAssumption DEF PoolFinalizeEpoch, PoolShape, Epochs
    <3>4. UNCHANGED <<claimed, received>>
      BY <2>2 DEF PoolFinalizeEpoch
    <3> QED
      BY <3>1, <3>2, <3>3, <3>4 DEF PoolShape, Epochs
  <2>3. ASSUME NEW sender, NEW e \in Epochs, NEW amount, NEW proof,
               Claim(sender, e, amount, proof)
        PROVE  PoolShape'
    BY <2>3 DEF Claim, PoolShape, Epochs
  <2>4. ASSUME NEW amount, Receive(amount) PROVE PoolShape'
    BY <2>4 DEF Receive, PoolShape, Epochs
  <2>5. ASSUME NEW sender, NEW new, SetOperator(sender, new) PROVE PoolShape'
    BY <2>5 DEF SetOperator, PoolShape, Epochs
  <2> QED
    BY <2>1, <2>2, <2>3, <2>4, <2>5, StepsOfThePool
<1> QED
  BY <1>1, <1>2, PTL DEF Spec

(* finalizeEpoch's record of an epoch is final, whatever submissions are   *)
(* lost, reverted or executed late and whoever becomes the operator.       *)
THEOREM FinalizedForGood == Spec => EpochsAreFinal
<1> DEFINE Final == \A e \in Epochs : epochRoots[e] # EmptyRoot =>
       epochRoots'[e] = epochRoots[e] /\ epochTotals'[e] = epochTotals[e]
<1>1. ASSUME PoolShape, [Next]_vars PROVE [Final]_poolVars
  <2> SUFFICES ASSUME Next PROVE Final \/ UNCHANGED poolVars
    BY <1>1 DEF vars, poolVars
  <2>1. ASSUME NEW sender, NEW root, NEW total,
               PoolFinalizeEpoch(sender, root, total)
        PROVE  Final
    BY <1>1, <2>1 DEF PoolFinalizeEpoch, CanFinalize, OpenEpoch, PoolShape
  <2>2. ASSUME NEW sender, NEW e \in Epochs, NEW amount, NEW proof,
               Claim(sender, e, amount, proof)
        PROVE  Final
    BY <2>2 DEF Claim
  <2>3. ASSUME NEW amount, Receive(amount) PROVE Final
    BY <2>3 DEF Receive
  <2>4. ASSUME NEW sender, NEW new, SetOperator(sender, new) PROVE Final
    BY <2>4 DEF SetOperator
  <2> HIDE DEF Final
  <2> QED
    BY <2>1, <2>2, <2>3, <2>4, StepsOfThePool, Zenon
<1> QED
  BY <1>1, PoolShapeInvariant, PTL DEF Spec, EpochsAreFinal

(* claim pays an account at most once for an epoch, and only for one whose *)
(* root the contract holds, in every run of the flow.                      *)
THEOREM NeverPaidTwice == Spec => PaidOncePerEpoch
<1> DEFINE PaidOnce == \A a \in Account : received'[a] # received[a] =>
       \E e \in Epochs : /\ epochRoots[e] # EmptyRoot
                         /\ ~claimed[e][a]
                         /\ claimed'[e][a]
<1>1. ASSUME PoolShape, [Next]_vars PROVE [PaidOnce]_poolVars
  <2> SUFFICES ASSUME Next PROVE PaidOnce \/ UNCHANGED poolVars
    BY <1>1 DEF vars, poolVars
  <2>1. ASSUME NEW sender, NEW root, NEW total,
               PoolFinalizeEpoch(sender, root, total)
        PROVE  PaidOnce
    BY <2>1 DEF PoolFinalizeEpoch
  <2>2. ASSUME NEW sender, NEW e \in Epochs, NEW amount, NEW proof,
               Claim(sender, e, amount, proof)
        PROVE  PaidOnce
    <3> SUFFICES ASSUME NEW a \in Account, received'[a] # received[a]
                 PROVE  epochRoots[e] # EmptyRoot /\ ~claimed[e][a] /\ claimed'[e][a]
      OBVIOUS
    <3>1. a = sender
      BY <1>1, <2>2 DEF Claim, PoolShape
    <3> QED
      BY <1>1, <2>2, <3>1 DEF Claim, NotClaimed, PoolShape
  <2>3. ASSUME NEW amount, Receive(amount) PROVE PaidOnce
    BY <2>3 DEF Receive
  <2>4. ASSUME NEW sender, NEW new, SetOperator(sender, new) PROVE PaidOnce
    BY <2>4 DEF SetOperator
  <2> HIDE DEF PaidOnce
  <2> QED
    BY <2>1, <2>2, <2>3, <2>4, StepsOfThePool, Zenon
<1> QED
  BY <1>1, PoolShapeInvariant, PTL DEF Spec, PaidOncePerEpoch
=============================================================================
