------------------------------ MODULE Permits ------------------------------
(***************************************************************************)
(* What a manager of consents promises, whatever it stores and whoever     *)
(* reads it meanwhile: a permit is issued for a number of uses to a        *)
(* holder, only the holder spends it, only while it is live, and never     *)
(* more often than it was issued for.                                      *)
(***************************************************************************)
EXTENDS Integers, Sequences

CONSTANTS Permit,     \* names of permits
          Holder,     \* who may be given one
          MaxIssue,   \* bound: uses a permit is issued for
          Unlimited   \* a permit without a number of uses

VARIABLES live,    \* permits that may be spent
          holder,  \* who each permit was issued to last
          left,    \* uses left of each permit
          spent    \* the uses so far: permit and user

vars == <<live, holder, left, spent>>

Init ==
  /\ live = {}
  /\ holder \in [Permit -> Holder]
  /\ left \in [Permit -> 0 .. MaxIssue \cup {Unlimited}]
  /\ spent = <<>>

Issue(p) ==
  /\ \E h \in Holder : holder' = [holder EXCEPT ![p] = h]
  /\ \E n \in 1 .. MaxIssue \cup {Unlimited} : left' = [left EXCEPT ![p] = n]
  /\ live' = live \cup {p}
  /\ UNCHANGED spent

Spend(p) ==
  /\ p \in live
  /\ left[p] # 0
  /\ left' = [left EXCEPT ![p] = IF @ = Unlimited THEN @ ELSE @ - 1]
  /\ spent' = Append(spent, <<p, holder[p]>>)
  /\ UNCHANGED <<live, holder>>

(* Revoked, or expired with the passing of time.                           *)
Withdraw ==
  /\ live' \subseteq live
  /\ UNCHANGED <<holder, left, spent>>

Next == Withdraw \/ \E p \in Permit : Issue(p) \/ Spend(p)

Spec == Init /\ [][Next]_vars
=============================================================================
