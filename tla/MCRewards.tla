------------------------------ MODULE MCRewards ------------------------------
(* An instance of Rewards for TLC: three peers, one of which may be paid   *)
(* on the account of another, floats of four bits, and a cap of one half. *)
EXTENDS Rewards

CONSTANTS p1, p2, p3

MCPeer == {p1, p2, p3}
MCReports == {<<p1, 1, 4>>, <<p2, 2, 1>>, <<p3, 3, 1>>, <<p3, 2, 1>>}
MCMaxShare == <<1, 2>>
=============================================================================
