------------------------- MODULE MCUnfollowSession -------------------------
(***************************************************************************)
(* Instances of the Unfollow sessions: three runs of one day.              *)
(***************************************************************************)
EXTENDS UnfollowSession, TLC

CONSTANTS g1, g2, g3, u1, u2, u3, u4

\* Two runs of one business session, as the reconciliation is written for, and
\* one of another.
MixedSessions == [g \in Runs |-> IF g = g3 THEN "own" ELSE "shared"]

\* Each run draws its own, as every worker process does.
OwnSessions == [g \in Runs |-> g]

UserSymmetry == Permutations(Followed)
=============================================================================
