---------------------------- MODULE RevenuePool ----------------------------
(***************************************************************************)
(* contracts/RevenuePool.sol, ZeamRevenuePool: the state of the contract   *)
(* and its transactions, each of which runs to its end or reverts.  A      *)
(* reverted transaction changes nothing and is a stuttering step.  claim   *)
(* marks the epoch claimed before it pays, so a call made from inside the  *)
(* payment behaves as one made after it.                                   *)
(***************************************************************************)
EXTENDS Merkle

CONSTANTS Account,       \* accounts of the chain, naturals
          Operators,     \* accounts that may be made the operator
          Deployer,      \* the account that deployed the contract
          MaxEpoch       \* bound: epochs

ASSUME PoolAssumption ==
  /\ Deployer \in Operators
  /\ MaxEpoch \in Nat

VARIABLES operator,       \* operator
          epochRoots,     \* epochRoots
          epochTotals,    \* epochTotals
          claimed,        \* claimed
          pendingRevenue, \* pendingRevenue
          poolEpoch,      \* currentEpoch of the contract
          balance,        \* address(this).balance
          received        \* what each account was paid by claims

poolVars == <<operator, epochRoots, epochTotals, claimed, pendingRevenue,
              poolEpoch, balance, received>>

Epochs == 0 .. MaxEpoch

PoolInit ==
  /\ operator = Deployer
  /\ epochRoots = [e \in Epochs |-> EmptyRoot]
  /\ epochTotals = [e \in Epochs |-> 0]
  /\ claimed = [e \in Epochs |-> [a \in Account |-> FALSE]]
  /\ pendingRevenue = 0
  /\ poolEpoch = 0
  /\ balance = 0
  /\ received = [a \in Account |-> 0]

Receive(amount) ==
  /\ pendingRevenue' = pendingRevenue + amount
  /\ balance' = balance + amount
  /\ UNCHANGED <<operator, epochRoots, epochTotals, claimed, poolEpoch, received>>

CanFinalize(sender, root, total) ==
  /\ sender = operator
  /\ root # EmptyRoot
  /\ total <= pendingRevenue
  /\ epochRoots[poolEpoch] = EmptyRoot

(* Mutant: the root overwrites that of the epoch before.                   *)
LastFinalized == IF poolEpoch = 0 THEN 0 ELSE poolEpoch - 1

(* The epoch a submitted root is stored for.                               *)
OpenEpoch == poolEpoch

PendingAfterFinalize(total) == pendingRevenue - total

PoolFinalizeEpoch(sender, root, total) ==
  /\ poolEpoch < MaxEpoch
  /\ CanFinalize(sender, root, total)
  /\ epochRoots' = [epochRoots EXCEPT ![OpenEpoch] = root]
  /\ epochTotals' = [epochTotals EXCEPT ![OpenEpoch] = total]
  /\ pendingRevenue' = PendingAfterFinalize(total)
  /\ poolEpoch' = poolEpoch + 1
  /\ UNCHANGED <<operator, claimed, balance, received>>

(* Mutant: an account may claim an epoch again.                            *)
MayClaimAgain(e, a) == TRUE

NotClaimed(e, a) == ~claimed[e][a]

(* The payment fails, and with it the claim, when the balance is short.    *)
Claim(sender, e, amount, proof) ==
  /\ NotClaimed(e, sender)
  /\ epochRoots[e] # EmptyRoot
  /\ amount > 0
  /\ VerifyProof(proof, epochRoots[e], LeafHash(sender, amount))
  /\ amount <= balance
  /\ claimed' = [claimed EXCEPT ![e][sender] = TRUE]
  /\ balance' = balance - amount
  /\ received' = [received EXCEPT ![sender] = @ + amount]
  /\ UNCHANGED <<operator, epochRoots, epochTotals, pendingRevenue, poolEpoch>>

SetOperator(sender, new) ==
  /\ sender = operator
  /\ operator' = new
  /\ UNCHANGED <<epochRoots, epochTotals, claimed, pendingRevenue, poolEpoch,
                 balance, received>>

-----------------------------------------------------------------------------
(* What finalizeEpoch recorded for an epoch is final: no later transaction *)
(* changes the root or the total, whoever is the operator by then.         *)
EpochsAreFinal ==
  [][\A e \in Epochs : epochRoots[e] # EmptyRoot =>
        epochRoots'[e] = epochRoots[e] /\ epochTotals'[e] = epochTotals[e]]_poolVars

(* An account is paid only by a transaction that marks one finalized epoch *)
(* claimed for it, which was not before: no account is paid twice for one  *)
(* epoch, and none for an epoch whose root is not on the chain.            *)
PaidOncePerEpoch ==
  [][\A a \in Account : received'[a] # received[a] =>
        \E e \in Epochs : /\ epochRoots[e] # EmptyRoot
                          /\ ~claimed[e][a]
                          /\ claimed'[e][a]]_poolVars
=============================================================================
