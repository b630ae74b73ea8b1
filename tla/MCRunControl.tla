---------------------------- MODULE MCRunControl ----------------------------
(***************************************************************************)
(* Instances of the Run Control plane: two accounts that share one phone,  *)
(* their requests, a dispatcher with one or two slots, and enough runs     *)
(* for every launch the bounds leave room for.                             *)
(***************************************************************************)
EXTENDS RunControl, TLC

CONSTANTS a1, a2, r1, r2, r3, g1, g2, g3, g4, s1, s2, w, p

MCAccountOf == [r \in Requests |-> IF r = r2 THEN a2 ELSE a1]
MCPriority == [r \in Requests |-> 0]
MCAllowedFor == [v \in Workers |-> Requests]
MCPhoneOf == [a \in Accounts |-> p]
RunSymmetry == Permutations(Runs)
PlaneSymmetry == Permutations(Runs) \union Permutations(Slots)
=============================================================================
