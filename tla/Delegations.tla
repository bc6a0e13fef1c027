---------------------------- MODULE Delegations ----------------------------
(***************************************************************************)
(* identity/delegation.go: the DelegationManager, whose operations run     *)
(* under dm.mu.  An ID is what GenerateID hashes: delegator, delegate and  *)
(* second, so that a delegation made within the second of another between  *)
(* the same two replaces it, and a sub-delegation may replace one of its   *)
(* own ancestors: the parents then form a cycle, which canRevoke,          *)
(* revokeSubDelegations and GetDelegationChain follow until the process    *)
(* runs out of stack or memory.                                            *)
(*                                                                         *)
(* Rights, streams and scopes are copied unchanged from parent to child    *)
(* and left out, and so are the lists of delegations given and received,   *)
(* which only grow.  DelegationChains is a set for each parent: the order  *)
(* of its entries and their repetitions change nothing.  The tracker of a  *)
(* delegation without rate limits is never looked at and left out.         *)
(***************************************************************************)
EXTENDS Integers, FiniteSets

CONSTANTS Party,     \* addresses
          Depths,    \* depths a delegation is created with
          Untils,    \* values of ValidUntil; 0: no end
          Policies,  \* allowSub, inherit, and the limits per hour and per day
          Hour, Day, \* the windows of the rate limits
          MaxTime,   \* bound: the clock
          MaxKnown,  \* bound: delegations in the map
          None       \* the nil pointer, the zero ID

DID == Party \X Party \X (1 .. MaxTime)

VARIABLES delegations,  \* dm.Delegations
          chains,       \* dm.DelegationChains
          tracking,     \* dm.UsageTracking
          crashed,      \* a recursion or loop did not end
          second        \* time.Now().Unix()

vars == <<delegations, chains, tracking, crashed, second>>

Known == {id \in DID : delegations[id] # None}

Init ==
  /\ delegations = [id \in DID |-> None]
  /\ chains = [id \in DID |-> {}]
  /\ tracking = [id \in DID |-> None]
  /\ crashed = FALSE
  /\ second = 1

NewTracker == [hourly |-> 0, daily |-> 0,
               hourlyReset |-> second + Hour, dailyReset |-> second + Day]

(* IsValid; the signature covers nothing that changes before a revocation. *)
IsValid(d) == ~d.revoked /\ (d.until > 0 => second <= d.until)

CanSubDelegate(d) == IsValid(d) /\ d.allowSub /\ d.depth > 0

Store(id, d) ==
  /\ Cardinality(Known \cup {id}) <= MaxKnown
  /\ delegations' = [delegations EXCEPT ![id] = d]
  /\ tracking' = [tracking EXCEPT ![id] = IF d.limit = <<0, 0>> THEN None ELSE NewTracker]
  /\ UNCHANGED <<crashed, second>>

CreateDelegation(delegator, delegate, depth, until, policy) ==
  /\ ~crashed
  /\ Store(<<delegator, delegate, second>>,
           [depth |-> depth, until |-> until, parent |-> None, revoked |-> FALSE,
            allowSub |-> policy.allowSub, inherit |-> policy.inherit,
            limit |-> policy.limit])
  /\ UNCHANGED chains

(* A child ends no later than its parent, and has a policy of its own      *)
(* unless the parent's is inherited.                                       *)
ChildOf(parentID, until) ==
  LET d == delegations[parentID]
  IN  [depth |-> d.depth - 1,
       until |-> IF d.until > 0 /\ (until = 0 \/ until > d.until) THEN d.until ELSE until,
       parent |-> parentID, revoked |-> FALSE,
       allowSub |-> IF d.inherit THEN d.allowSub ELSE d.depth > 1,
       inherit |-> d.inherit,
       limit |-> IF d.inherit THEN d.limit ELSE <<0, 0>>]

(* The caller is the parent's delegate.                                    *)
CreateSubDelegation(parentID, delegate, until) ==
  LET id == <<parentID[2], delegate, second>>
  IN  /\ ~crashed
      /\ parentID \in Known
      /\ CanSubDelegate(delegations[parentID])
      /\ Store(id, ChildOf(parentID, until))
      /\ chains' = [chains EXCEPT ![parentID] = @ \cup {id}]

-----------------------------------------------------------------------------
(* The known delegations a walk along step reaches from id, and whether it *)
(* ends.                                                                   *)
Reached(id, step) ==
  {d \in Known : \A S \in SUBSET Known :
     (id \in S /\ \A e \in S : step[e] \cap Known \subseteq S) => d \in S}

Endless(id, step) ==
  \E d \in Reached(id, step) : \E e \in step[d] \cap Known : d \in Reached(e, step)

Parents == [id \in DID |-> IF id \in Known /\ delegations[id].parent # None
                           THEN {delegations[id].parent} ELSE {}]

(* canRevoke: the delegator of the delegation or of one above it.          *)
CanRevoke(id, revoker) == \E d \in Reached(id, Parents) : d[1] = revoker

(* Mutant: only the direct children are revoked.                           *)
SubDelegationsOneLevel(id) == {id} \cup (chains[id] \cap Known)

(* The delegation and what revokeSubDelegations reaches.                   *)
SubDelegations(id) == Reached(id, chains)

RevokeDelegation(id, revoker) ==
  /\ ~crashed
  /\ id \in Known
  /\ IF ~CanRevoke(id, revoker)
     THEN crashed' = Endless(id, Parents) /\ UNCHANGED delegations
     ELSE /\ crashed' = Endless(id, chains)
          /\ delegations' = [d \in DID |-> IF d \in SubDelegations(id)
                                           THEN [delegations[d] EXCEPT !.revoked = TRUE]
                                           ELSE delegations[d]]
  /\ UNCHANGED <<chains, tracking, second>>

(* GetDelegationChain, and VerifyDelegationChain, which calls it.          *)
GetDelegationChain(id) ==
  /\ ~crashed
  /\ id \in Known
  /\ crashed' = Endless(id, Parents)
  /\ UNCHANGED <<delegations, chains, tracking, second>>

(* The windows of the tracker are renewed before its limits are looked at. *)
Renewed(t) ==
  LET hour == IF second >= t.hourlyReset
              THEN [t EXCEPT !.hourly = 0, !.hourlyReset = second + Hour] ELSE t
  IN  IF second >= t.dailyReset
      THEN [hour EXCEPT !.daily = 0, !.dailyReset = second + Day] ELSE hour

CheckAndUse(id) ==
  /\ ~crashed
  /\ id \in Known
  /\ IsValid(delegations[id])
  /\ tracking[id] # None
  /\ LET t == Renewed(tracking[id])
         d == delegations[id]
     IN  tracking' = [tracking EXCEPT ![id] =
                        IF \/ d.limit[1] > 0 /\ t.hourly >= d.limit[1]
                           \/ d.limit[2] > 0 /\ t.daily >= d.limit[2]
                        THEN t ELSE [t EXCEPT !.hourly = @ + 1, !.daily = @ + 1]]
  /\ UNCHANGED <<delegations, chains, crashed, second>>

Tick ==
  /\ second < MaxTime
  /\ second' = second + 1
  /\ UNCHANGED <<delegations, chains, tracking, crashed>>

Next ==
  \/ \E a, b \in Party, depth \in Depths, until \in Untils, policy \in Policies :
       CreateDelegation(a, b, depth, until, policy)
  \/ \E id \in DID, b \in Party, until \in Untils : CreateSubDelegation(id, b, until)
  \/ \E id \in DID, a \in Party : RevokeDelegation(id, a)
  \/ \E id \in DID : GetDelegationChain(id) \/ CheckAndUse(id)
  \/ Tick

Spec == Init /\ [][Next]_vars

-----------------------------------------------------------------------------
(* A delegation that was derived from a revoked one is revoked as well:    *)
(* RevokeDelegation reaches, through DelegationChains, everything below    *)
(* it, whatever delegations replaced others of the same ID, and nothing    *)
(* can be derived from what is revoked.                                    *)
RevocationIsInherited ==
  ~crashed =>
    \A id \in Known : \A above \in Parents[id] \cap Known :
      delegations[above].revoked => delegations[id].revoked
=============================================================================
