-------------------------- MODULE MCFollowSession --------------------------
(***************************************************************************)
(* Instances of the Follow sessions: two runs, the second an Auto Restart  *)
(* of the first.                                                           *)
(***************************************************************************)
EXTENDS FollowSession, TLC

CONSTANTS g1, g2, u1, u2

MCMaxTries == [g \in Runs |-> IF g = g1 THEN 2 ELSE 1]
UserSymmetry == Permutations(Users)
MCLineageOf == [g \in Runs |-> IF g = g2 THEN {g1} ELSE {}]
=============================================================================
