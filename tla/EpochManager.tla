---------------------------- MODULE EpochManager ----------------------------
(***************************************************************************)
(* rewards/epoch.go and rewards/curves.go: contributors, revenue and the   *)
(* epochs that close over them, and how an epoch's revenue is shared out.  *)
(* Every operation runs under em.mu and is one action.                     *)
(*                                                                         *)
(* A contributor's ByteHours is zero except inside FinalizeEpoch, which    *)
(* adds to it, uses it and resets it, so it is not part of the state.      *)
(*                                                                         *)
(* The code computes scores and shares in float64 and the caps in big.Int. *)
(* A float is a pair <<n, d>> that stands for n / d, rounded to Mantissa   *)
(* bits (53 in the code), to nearest and to even on a tie.  Scores are     *)
(* exact here, scaled to naturals; the rounding that is modelled is that   *)
(* of the revenue, of each share and of their product.                     *)
(***************************************************************************)
EXTENDS Integers, FiniteSetsExt, Merkle

CONSTANTS Mantissa,      \* bits of a float's mantissa
          OptimalMin,    \* cfg.OptimalBytesMin
          OptimalMax,    \* cfg.OptimalBytesMax
          MaxShare,      \* cfg.MaxNetworkShare, as a pair <<n, d>>
          MaxFailed,     \* bound: failed challenges of a contributor
          Peer,          \* peers that may contribute storage
          Reports,       \* <<peer, account, bytes>> the tracker may report
          Profits,       \* amounts AddRevenue is called with
          MilliHours,    \* lengths an epoch may have
          MaxChallenges, \* bound: challenge results recorded
          MaxRevenue,    \* bound: revenue of one epoch
          MaxClosed,     \* bound: epochs closed
          Absent         \* a peer that is not in em.contributors

MaxExponent == 9         \* bound: exponents of the floats that occur

RoundHalfEven(n, d) ==
  LET q == n \div d
      r == 2 * (n % d)
  IN  IF r < d \/ (r = d /\ q % 2 = 0) THEN q ELSE q + 1

Scale(n, d, e) == IF e >= 0 THEN <<n * 2^e, d>> ELSE <<n, d * 2^(-e)>>

Exponent(n, d) ==
  CHOOSE e \in -MaxExponent .. MaxExponent :
     LET s == Scale(n, d, e)
     IN  s[2] * 2^(Mantissa - 1) <= s[1] /\ s[1] < s[2] * 2^Mantissa

Float(n, d) ==
  IF n = 0 THEN <<0, 1>>
  ELSE LET e == Exponent(n, d)
           s == Scale(n, d, e)
           m == RoundHalfEven(s[1], s[2])
       IN  Scale(m, 1, -e)

Times(x, y) == Float(x[1] * y[1], x[2] * y[2])

Floor(x) == x[1] \div x[2]

-----------------------------------------------------------------------------
(* Efficiency, in hundredths.  Above the optimum the code divides by       *)
(* 1 + ln(bytes / max); the logarithm is replaced by the ratio less one.   *)
Efficiency(bytes) ==
  CASE bytes = 0 -> 0
    [] bytes \in OptimalMin .. OptimalMax -> 100
    [] bytes > 0 /\ bytes < OptimalMin -> 50 + (50 * bytes) \div OptimalMin
    [] bytes > OptimalMax -> 30 + (70 * OptimalMax) \div bytes

(* 0.7 + 0.2 * ChallengePassRate, in twentieths.  The redundancy bonus is  *)
(* zero: the manager is created without a provider registry.               *)
WeightedScore(c) ==
  14 + (IF c.passed + c.failed = 0 THEN 0
        ELSE (4 * c.passed) \div (c.passed + c.failed))

(* Each failed challenge takes a tenth of what is left.                    *)
Slash(failed) == 9^failed * 10^(MaxFailed - failed)

CurvedScore(c, byteHours) ==
  byteHours * WeightedScore(c) * Slash(c.failed) * Efficiency(c.bytes)

SumOf(f) == MapThenSumSet(LAMBDA p : f[p], DOMAIN f)

(* RewardWei of every contributor, from their curved scores.               *)
ComputeRewards(score, totalRevenue) ==
  LET total == SumOf(score)
      revenue == Float(totalRevenue, 1)
  IN  [p \in DOMAIN score |->
         IF total > 0 /\ totalRevenue > 0
         THEN Floor(Times(revenue, Float(score[p], total)))
         ELSE 0]

(* Mutant: every contributor below the cap is given the whole excess.      *)
WholeExcess(reward, excess, total) == excess

(* A contributor's part of what the caps took from the others.             *)
ShareOfExcess(reward, excess, total) == (reward * excess) \div total

(* One pass: rewards above the cap are cut to it and the excess goes to    *)
(* the others in proportion, who may end above the cap themselves.  When   *)
(* nobody is below the cap, or only zero rewards are, it goes to nobody.   *)
ApplyConcentrationCaps(rewards) ==
  LET maxReward == (SumOf(rewards) * MaxShare[1]) \div MaxShare[2]
      capped == {p \in DOMAIN rewards : rewards[p] > maxReward}
      excess == MapThenSumSet(LAMBDA p : rewards[p] - maxReward, capped)
      rest == MapThenSumSet(LAMBDA p : rewards[p], DOMAIN rewards \ capped)
  IN  IF MaxShare[1] <= 0 \/ MaxShare[1] >= MaxShare[2] THEN rewards
      ELSE [p \in DOMAIN rewards |->
              IF p \in capped THEN maxReward
              ELSE IF rest = 0 THEN rewards[p]
              ELSE rewards[p] + ShareOfExcess(rewards[p], excess, rest)]

-----------------------------------------------------------------------------
VARIABLES contributors,       \* em.contributors
          accumulatedRevenue, \* em.accumulatedRevenue
          currentEpoch,       \* em.currentEpoch
          history             \* em.history

epochVars == <<contributors, accumulatedRevenue, currentEpoch, history>>

Contributors == {p \in Peer : contributors[p] # Absent}

EpochInit ==
  /\ contributors = [p \in Peer |-> Absent]
  /\ accumulatedRevenue = 0
  /\ currentEpoch = 0
  /\ history = <<>>

(* Amounts that are not positive are ignored.                              *)
AddRevenue(amount) ==
  /\ amount > 0
  /\ accumulatedRevenue + amount <= MaxRevenue
  /\ accumulatedRevenue' = accumulatedRevenue + amount
  /\ UNCHANGED <<contributors, currentEpoch, history>>

UpdateContributor(p, account, bytes) ==
  /\ contributors' = [contributors EXCEPT ![p] =
        IF @ = Absent
        THEN [account |-> account, bytes |-> bytes, passed |-> 0, failed |-> 0]
        ELSE [@ EXCEPT !.account = account, !.bytes = bytes]]
  /\ UNCHANGED <<accumulatedRevenue, currentEpoch, history>>

ChallengesRecorded ==
  MapThenSumSet(LAMBDA p : contributors[p].passed + contributors[p].failed,
                Contributors)

RecordChallengeResult(p, passed) ==
  /\ ChallengesRecorded < MaxChallenges
  /\ contributors[p] # Absent
  /\ contributors' = IF passed THEN [contributors EXCEPT ![p].passed = @ + 1]
                               ELSE [contributors EXCEPT ![p].failed = @ + 1]
  /\ UNCHANGED <<accumulatedRevenue, currentEpoch, history>>

-----------------------------------------------------------------------------
ByteHours(p, milliHours) == (contributors[p].bytes * milliHours) \div 1000

(* RewardWei of every contributor of the epoch that closes.                *)
EpochRewards(milliHours) ==
  ApplyConcentrationCaps(ComputeRewards(
     [p \in Contributors |-> CurvedScore(contributors[p], ByteHours(p, milliHours))],
     accumulatedRevenue))

(* Go iterates over em.contributors in any order.                          *)
Orders == {o \in [1 .. Cardinality(Contributors) -> Contributors] :
             \A i, j \in DOMAIN o : i # j => o[i] # o[j]}

(* The leaves with a reward, one for each contributor and not for each     *)
(* account, sorted in place by ComputeMerkleRoot.                          *)
MerkleLeaves(rewards, order) ==
  LET leaf(p) == [address |-> contributors[p].account, amount |-> rewards[p]]
      paid == SelectSeq(order, LAMBDA p : rewards[p] > 0)
  IN  Sorted([i \in 1 .. Len(paid) |-> leaf(paid[i])])

Snapshot(milliHours, order) ==
  LET leaves == MerkleLeaves(EpochRewards(milliHours), order)
  IN  [number |-> currentEpoch, totalRevenue |-> accumulatedRevenue,
       leaves |-> leaves, root |-> ComputeMerkleRoot(leaves)]

(* The revenue is reset whether or not anything was distributed; the       *)
(* challenge counters are not reset.                                       *)
FinalizeEpoch(snapshot) ==
  /\ currentEpoch < MaxClosed
  /\ history' = Append(history, snapshot)
  /\ currentEpoch' = currentEpoch + 1
  /\ accumulatedRevenue' = 0
  /\ UNCHANGED contributors
=============================================================================
