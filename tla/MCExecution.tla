---------------------------- MODULE MCExecution ----------------------------
(***************************************************************************)
(* A cross-chain trade a that needs all of both positions, and same-chain  *)
(* trades b, whose amount is read from the position, and c, whose path is  *)
(* too short.                                                              *)
(***************************************************************************)
EXTENDS Execution

CONSTANTS a, b, c, P, Q

MCBalance == P :> 10 @@ Q :> 10
MCPath == Restrict(a :> <<P, Q>> @@ b :> <<Q, P>> @@ c :> <<P>>, ID)
MCInputAmount == Restrict(a :> 10 @@ b :> 0 @@ c :> 1, ID)
MCDetections == {<<a, 1>>, <<b, 2>>, <<c, 1>>} \cap (ID \X Priorities)
MCSymmetry == Permutations(Worker)
=============================================================================
